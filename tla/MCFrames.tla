------------------------------- MODULE MCFrames -------------------------------
(* A small namespace: a rootfs snap and the two layouts made from it.       *)
EXTENDS Frames, TLC

CONSTANTS r1, r2, f1, f2, f3, p1, p2, s1, a1, a2

Small == {NoSnaps, [c \in Comp |-> IF c = "work" THEN None ELSE s1]}

Symm == Permutations(Frame) \cup Permutations(Proc) \cup Permutations(Argv)
===============================================================================
