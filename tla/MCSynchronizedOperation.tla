------------------------ MODULE MCSynchronizedOperation ------------------------
(***************************************************************************)
(* A small instance of SynchronizedOperation for TLC.                      *)
(***************************************************************************)
EXTENDS SynchronizedOperation

CONSTANTS c1, c2, h1, h2

MCCallers == {c1, c2}
MCHelpers == {h1, h2}

=============================================================================
