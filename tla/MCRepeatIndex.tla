--------------------------- MODULE MCRepeatIndex ---------------------------
(* Instances of RepeatIndex for TLC.                                       *)
EXTENDS RepeatIndex

CONSTANTS c1, c2, r1, r2, r3
=============================================================================
