---------------------------- MODULE MCZeroMQServer ----------------------------
(***************************************************************************)
(* Small instances of ZeroMQServer for TLC.                                *)
(***************************************************************************)
EXTENDS ZeroMQServer, TLC

CONSTANTS a, b,    \* clients
          w1, w2   \* workers

TwoClients == {a, b}
TwoWorkers == {w1, w2}

\* The first client sends two messages, the second one.
Messages == (a :> 2) @@ (b :> 1)

=============================================================================
