------------------------------- MODULE Channel -------------------------------
(***************************************************************************)
(* What the middleware promises for one direction: the messages posted for *)
(* an end, numbered in the order they were posted, each arrive there once, *)
(* and in that order as long as there is only one end.  ZeroMQServer is    *)
(* shown to implement one of these to its clients and one from them.       *)
(***************************************************************************)
EXTENDS Naturals, Sequences, Functions

CONSTANTS Ends,    \* where messages arrive (or come from)
          Numbers  \* of messages, in Nat

VARIABLES pending, \* numbers of the messages on their way, per end
          arrived, \* numbers of those that arrived, per end, in that order
          several  \* whether a second end has appeared; anything may change it

Init ==
  /\ pending = [e \in Ends |-> {}]
  /\ arrived = [e \in Ends |-> << >>]

\* A message numbered n, later than any before, sets out.
Post(e, n) ==
  /\ \A m \in pending[e] \cup Range(arrived[e]) : m < n
  /\ pending' = [pending EXCEPT ![e] = @ \cup {n}]
  /\ UNCHANGED arrived

\* A message on its way arrives and is on its way no more.
Arrive(e, n) ==
  /\ n \in pending[e]
  /\ ~several => \A m \in pending[e] : n <= m
  /\ pending' = [pending EXCEPT ![e] = @ \ {n}]
  /\ arrived' = [arrived EXCEPT ![e] = Append(@, n)]

Next ==
  \E e \in Ends, n \in Numbers : Post(e, n) \/ Arrive(e, n)

Spec == Init /\ [][Next]_<< pending, arrived >>

=============================================================================
