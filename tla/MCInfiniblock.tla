--------------------------- MODULE MCInfiniblock ---------------------------
(* Small instances of Infiniblock for TLC.                                 *)
EXTENDS Infiniblock

CONSTANTS c1, c2, b1, b2
=============================================================================
