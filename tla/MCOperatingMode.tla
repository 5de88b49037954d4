--------------------------- MODULE MCOperatingMode ---------------------------
(* Finite instance of OperatingMode for TLC.                               *)
EXTENDS OperatingMode

CONSTANTS v1, v2

MCValues == {v1, v2}
=============================================================================
