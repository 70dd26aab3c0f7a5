---------------------------- MODULE MCSnapQueue ----------------------------
(* Small instances of SnapQueue for TLC: one or two frames, one fork, two  *)
(* trees, one taint.                                                       *)
EXTENDS SnapQueue

CONSTANTS f1, f2, g1, c1, c2, t1
=============================================================================
