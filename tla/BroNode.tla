-------------------------------- MODULE BroNode --------------------------------
(***************************************************************************)
(* The Bro scripts of an ARMORE node together: the identity recognition    *)
(* has a handler of item_gen, which the collector raises, and the anomaly  *)
(* detection one of process_finish, which the counter raises at the end of *)
(* a period, when no other event is left.                                  *)
(***************************************************************************)
EXTENDS TrafficStats, AnomalyDetection, IdentityRecognition

ASSUME NodeAssumption == NoFunction = None

vars == << statsVars, anoVars, idVars >>

Init == StatsInit /\ AnoInit /\ IdInit

HandleItemGen ==
  /\ Event("item_gen")
  /\ LET item == items[Head(queue).ref]
     IN  ItemGen(Matches(item)) /\ RememberRequest(item)
  /\ UNCHANGED anoVars

HandleMatch ==
  /\ Event("match")
  /\ AddIdentities(Head(queue).link, Head(queue).found)
  /\ Raise(<< >>)
  /\ UNCHANGED << items, wait, prefixed, tgt_table, uncounted, anoVars >>

EndPeriod == FinishPeriod /\ ProcessFinish(Tree) /\ UNCHANGED idVars

Next ==
  \/ Collect /\ UNCHANGED << anoVars, idVars >>
  \/ HandleItemGen \/ HandleMatch
  \/ EndPeriod

Spec == Init /\ [][Next]_vars

-----------------------------------------------------------------------------
(* Properties *)

\* The types of the three scripts' state.
TypeOK ==
  /\ StatsTypeOK /\ AnoTypeOK
  /\ DOMAIN id_req_table \subseteq Links /\ DOMAIN identity_map \subseteq Hosts

Published(p) == \E k \in DOMAIN periods : p \in DOMAIN periods[k].num

\* The log has shown, or will show, h send f to g.
Sent(h, g, protocol, f) ==
  \E unit \in UnitIds :
    LET p == << h, g, protocol, unit, f >> IN p \in DOMAIN counts \/ Published(p)

Earned(h, identity) ==
  \E i \in Identities : \E g \in Hosts :
    \/ /\ i.requestor = identity
       /\ Sent(h, g, i.protocol, i.ask) /\ Sent(g, h, i.protocol, i.answer)
    \/ /\ i.responder = identity
       /\ Sent(g, h, i.protocol, i.ask) /\ Sent(h, g, i.protocol, i.answer)

\* A host is identified only by what it did: the log has shown it send the request
\* of the pair to a host that sent the response, or the other way round, although the
\* match is handled after other events and looks the hosts up again (item_gen,
\* Intel::match).
IdentitiesEarned ==
  \A h \in DOMAIN identity_map : \A identity \in identity_map[h] : Earned(h, identity)

\* Between two packets
Idle == queue = << >>

Training == SubSeq(periods, 1, NumPeriod)
NumIn(k, p) == Frac(Num(periods[k], p))

\* Mean and sample variance of the values of f, by their definitions
IsMean(m, f) ==
  Equal(Mul(m, Frac(Cardinality(DOMAIN f))), FoldFunction(Add, Frac(0), f))
IsVariance(v, m, f) ==
  IF Cardinality(DOMAIN f) < 2 THEN Equal(v, Frac(0))
  ELSE Equal(Mul(v, Frac(Cardinality(DOMAIN f) - 1)),
             FoldFunction(Add, Frac(0), [k \in DOMAIN f |-> Mul(Sub(f[k], m), Sub(f[k], m))]))

\* After the training the normal tree has every node of its periods, with the mean and
\* the deviation of the node's number over all of them, the absent ones as zeros, and
\* of its ratio of responses over those that had the function (initialize_node,
\* cal_avg_std_node, cal_avg_std).
BaselineIsTraining ==
  Idle /\ current_period >= NumPeriod =>
    /\ DOMAIN normal_tree = UNION {Nodes(Training[k]) : k \in DOMAIN Training}
    /\ \A p \in DOMAIN normal_tree :
         LET node == normal_tree[p]
             num == [k \in DOMAIN Training |-> NumIn(k, p)]
             seen == {k \in DOMAIN Training : HasRatio(Training[k], p)}
             ratio == [k \in seen |-> Ratio(Training[k], p)]
         IN  /\ IsMean(node.num.avg, num) /\ IsVariance(node.num.var, node.num.avg, num)
             /\ seen # {} => /\ IsMean(node.ratio.avg, ratio)
                             /\ IsVariance(node.ratio.var, node.ratio.avg, ratio)

Reported(k, p, desc) == [period |-> k, path |-> p, field |-> "", desc |-> desc] \in anomalies
Detected == IF Idle THEN NumPeriod + 1 .. current_period ELSE {}

\* A period that repeats the training, in every node and number, raises no alarm
\* (check_tree, cal_anomaly_score).
RepeatIsQuiet ==
  \A k \in Detected :
    (\A j \in DOMAIN Training : Training[j] = periods[k]) => \A a \in anomalies : a.period # k

\* Of a period after the training, each branch of its tree that the training had not
\* is reported once, at the first node that is new; and a node it lacks is reported if
\* it had the same number in every period of the training and its parent is there
\* (check_tree_level1 to 6, node_new, node_disappear).
BranchesReported ==
  \A k \in Detected :
    /\ \A p \in Nodes(periods[k]) :
         Cardinality({q \in Prefixes(p) : Reported(k, q, "TRAFFIC_NEW")})
           = IF p \in DOMAIN normal_tree THEN 0 ELSE 1
    /\ \A p \in DOMAIN normal_tree \ Nodes(periods[k]) :
         /\ Front(p) \in Nodes(periods[k])
         /\ \A j \in DOMAIN Training : NumIn(j, p) = NumIn(1, p)
         => Reported(k, p, "TRAFFIC_DIS")

=============================================================================
