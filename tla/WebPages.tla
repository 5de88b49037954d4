------------------------------- MODULE WebPages -------------------------------
(***************************************************************************)
(* The pages of the web server that keep a state of their own in the       *)
(* browser: the form of a policy (PolicyForm) and the graph of a time      *)
(* period (GraphView).  A browser shows one of them; they share nothing.   *)
(***************************************************************************)
EXTENDS PolicyForm, GraphView

VARIABLE tab \* what the browser shows

vars == << tab, formVars, graphVars >>

Init ==
  /\ FormInit /\ GraphInit
  /\ tab \in {"form", "graph"}
  /\ tab = "form" => page = "graph"

Next ==
  \/ tab = "form" /\ FormNext /\ UNCHANGED << tab, graphVars >>
  \/ tab = "graph" /\ GraphNext /\ UNCHANGED << tab, formVars >>

Spec == Init /\ [][Next]_vars

=============================================================================
