--------------------------- MODULE AnomalyDetection ---------------------------
(***************************************************************************)
(* The anomaly detection of an ARMORE node (anomaly_detect.bro): the trees *)
(* of the first NumPeriod periods are gathered in a normal tree, which is  *)
(* then averaged; each later tree is compared with it, and what differs    *)
(* more than the threshold allows is logged.                               *)
(*                                                                         *)
(* A node is named by its path, as in TrafficStats.  Of its fields, the    *)
(* number and the ratio of responses are modelled; the bytes and the delay *)
(* are treated as the ratio is.  Averages and squares of deviations are    *)
(* fractions, so that nothing is rounded.  score_calculated and            *)
(* anomaly_detected only pass an anomaly on, and are part of the check.    *)
(***************************************************************************)
EXTENDS Integers, Sequences, SequencesExt, FiniteSets, FiniteSetsExt, Functions, Folds

CONSTANTS
  NumPeriod, \* num_period: periods of training
  Threshold  \* the threshold t of the score, as the integer 1 / (1 - t)

ASSUME AnomalyAssumption == NumPeriod \in Nat \ {0} /\ Threshold \in Nat \ {0}

VARIABLES
  current_period, \* periods seen
  normal_tree,    \* by path, the fields of a node
  anomalies       \* what has been logged: [period, path, field, desc]

anoVars == << current_period, normal_tree, anomalies >>

-----------------------------------------------------------------------------
(* Fractions, with a positive denominator *)

Frac(n) == << n, 1 >>
Sub(a, b) == << a[1] * b[2] - b[1] * a[2], a[2] * b[2] >>
Add(a, b) == << a[1] * b[2] + b[1] * a[2], a[2] * b[2] >>
Mul(a, b) == << a[1] * b[1], a[2] * b[2] >>
Over(a, n) == << a[1], a[2] * n >>
Leq(a, b) == a[1] * b[2] <= b[1] * a[2]
Equal(a, b) == Leq(a, b) /\ Leq(b, a)

-----------------------------------------------------------------------------
(* Nodes *)

\* count_queue, count_avg and the square of std
NewField == [queue |-> << >>, avg |-> Frac(0), var |-> Frac(0)]
NewNode == [num |-> NewField, ratio |-> NewField]

AnoInit ==
  /\ current_period = 0
  /\ normal_tree = [p \in {<< >>} |-> NewNode]
  /\ anomalies = {}

\* The tree of a period has its root even when nothing was counted.
Nodes(tree) == DOMAIN tree.num \cup {<< >>}
Num(tree, p) == IF p \in DOMAIN tree.num THEN tree.num[p] ELSE 0
HasRatio(tree, p) == p \in DOMAIN tree.num_res
Ratio(tree, p) == << tree.num_res[p], tree.num[p] >>

Put(field, x) == [field EXCEPT !.queue = Append(@, x)]

\* The body of a `when` may run on a copy of the frame, and the zero be put in a
\* queue no one sees; it is put once, however many periods the node was absent.
InitializeNode(node, tree, p, kept) ==
  LET late == kept /\ Len(node.num.queue) < current_period
      num == IF late THEN Put(node.num, Frac(0)) ELSE node.num
  IN  [num   |-> Put(num, Frac(Num(tree, p))),
       ratio |-> IF HasRatio(tree, p) THEN Put(node.ratio, Ratio(tree, p)) ELSE node.ratio]

InitializeTree(tree, kept) ==
  [p \in DOMAIN normal_tree \cup Nodes(tree) |->
     IF p \notin Nodes(tree) THEN normal_tree[p]
     ELSE InitializeNode(IF p \in DOMAIN normal_tree THEN normal_tree[p] ELSE NewNode,
                         tree, p, kept)]

\* Faulty variant: the new mean is not used.
Welford_OldMean(acc, x) ==
  LET delta == Sub(x, acc.mean)
  IN  [n |-> acc.n + 1, mean |-> Add(acc.mean, Over(delta, acc.n + 1)),
       m2 |-> Add(acc.m2, Mul(delta, delta))]

Welford(acc, x) ==
  LET delta == Sub(x, acc.mean)
      mean == Add(acc.mean, Over(delta, acc.n + 1))
  IN  [n |-> acc.n + 1, mean |-> mean, m2 |-> Add(acc.m2, Mul(delta, Sub(x, mean)))]

\* cal_avg_std
Averaged(field) ==
  LET acc == FoldLeft(Welford, [n |-> 0, mean |-> Frac(0), m2 |-> Frac(0)], field.queue)
  IN  [field EXCEPT !.avg = acc.mean,
                    !.var = IF acc.n > 1 THEN Over(acc.m2, acc.n - 1) ELSE Frac(0)]

Padded(queue) == queue \o [k \in 1 .. NumPeriod - Len(queue) |-> Frac(0)]

\* calculate_tree: only the number counts the periods the node was absent.
CalculateTree(tree) ==
  [p \in DOMAIN tree |-> [num   |-> Averaged([tree[p].num EXCEPT !.queue = Padded(@)]),
                          ratio |-> Averaged(tree[p].ratio)]]

-----------------------------------------------------------------------------
(* Detection *)

Anomaly(p, field, desc) ==
  [period |-> current_period + 1, path |-> p, field |-> field, desc |-> desc]

Distance2(field, x) == Mul(Sub(x, field.avg), Sub(x, field.avg))

\* Faulty variant: a value at the deviation is outside.
Outside_AtEdge(field, x) == Leq(field.var, Distance2(field, x))

Outside(field, x) == ~Leq(Distance2(field, x), field.var)

\* cal_anomaly_score, and the comparison with the threshold:
\* 1 - std^2 / (x - u)^2 >= t
Scores(field, x) ==
  Outside(field, x) /\ Leq(Mul(Frac(Threshold), field.var), Distance2(field, x))

Direction(field, x) == IF Leq(field.avg, x) THEN "FIELD_TOO_LARGE" ELSE "FIELD_TOO_SMALL"

CheckField(p, name, field, x) ==
  IF Scores(field, x) THEN {Anomaly(p, name, Direction(field, x))} ELSE {}

CheckNode(tree, p) ==
  LET node == normal_tree[p]
  IN  CheckField(p, "number", node.num, Frac(Num(tree, p)))
      \cup (IF HasRatio(tree, p) /\ node.ratio.queue # << >>
            THEN CheckField(p, "response_ratio", node.ratio, Ratio(tree, p)) ELSE {})

\* The nodes the walk visits in both trees; below a node that only one has, it does
\* not go.
Common(tree) ==
  {p \in DOMAIN normal_tree \cap Nodes(tree) :
     \A n \in 0 .. Len(p) : SubSeq(p, 1, n) \in DOMAIN normal_tree \cap Nodes(tree)}

\* Faulty variant: what is below a new node is reported too.
Fringe_AndBelow(paths, tree) == paths \ Common(tree)

Fringe(paths, tree) == {p \in paths \ Common(tree) : Front(p) \in Common(tree)}

NewNodes(tree) ==
  {Anomaly(p, "", "TRAFFIC_NEW") : p \in Fringe(Nodes(tree), tree)}

\* A node that is gone is one whose number is zero.
Disappeared(tree) ==
  {Anomaly(p, "", "TRAFFIC_DIS") :
     p \in {q \in Fringe(DOMAIN normal_tree, tree) : Scores(normal_tree[q].num, Frac(0))}}

CheckTree(tree) ==
  (UNION {CheckNode(tree, p) : p \in Common(tree)}) \cup NewNodes(tree) \cup Disappeared(tree)

\* The handler of process_finish
Train(tree) ==
  /\ current_period < NumPeriod
  /\ \E kept \in BOOLEAN :
       normal_tree' = IF current_period + 1 = NumPeriod
                      THEN CalculateTree(InitializeTree(tree, kept))
                      ELSE InitializeTree(tree, kept)
  /\ current_period' = current_period + 1
  /\ UNCHANGED anomalies

Detect(tree) ==
  /\ current_period >= NumPeriod
  /\ anomalies' = anomalies \cup CheckTree(tree)
  /\ current_period' = current_period + 1
  /\ UNCHANGED normal_tree

ProcessFinish(tree) == Train(tree) \/ Detect(tree)

-----------------------------------------------------------------------------
(* The type *)

AnoTypeOK ==
  /\ current_period \in Nat
  /\ << >> \in DOMAIN normal_tree
  /\ \A p \in DOMAIN normal_tree :
       /\ p # << >> => Front(p) \in DOMAIN normal_tree
       /\ Len(normal_tree[p].num.queue) <= NumPeriod
       /\ normal_tree[p].num.avg[2] > 0 /\ normal_tree[p].ratio.avg[2] > 0
  /\ \A a \in anomalies : a.period \in NumPeriod + 1 .. current_period

=============================================================================
