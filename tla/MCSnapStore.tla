----------------------------- MODULE MCSnapStore ------------------------------
(* Three snaps in a chain: the third has chunks of the first, the second and *)
(* again the first, so that its download makes the index evict and reload.   *)
EXTENDS SnapStore

CONSTANTS s1, s2, s3, f1, f2, f3, k1, k2, k3, k4, p1, p2

Chain == [s \in Range(SnapOrder) |-> IF s = s1 THEN Base ELSE IF s = s2 THEN s1 ELSE s2]
Three == <<s1, s2, s3>>
Paths == <<f1, f2, f3>>
Trees ==
    [s \in Range(SnapOrder) |-> [f \in {f1, f2, f3} |->
        CASE s = s1 -> IF f = f1 THEN k1 ELSE IF f = f2 THEN None ELSE k3
          [] s = s2 -> IF f = f1 THEN None ELSE IF f = f2 THEN k2 ELSE k4
          [] s = s3 -> IF f = f1 THEN k1 ELSE IF f = f2 THEN k2 ELSE k3]]
Lists == [s \in Range(SnapOrder) |-> CASE s = s1 -> <<f1, f3>> [] s = s2 -> <<f2, f3>> [] s = s3 -> Paths]

\* The first snap has a symlink where the second has the directory of f2.
Linked == [s \in Range(SnapOrder) |-> IF s = s1 THEN {f2} ELSE {}]
NoLinks == [s \in Range(SnapOrder) |-> {}]

\* A base snap that holds a file of its own.
SomeBase ==
    {None, [kind |-> "subvol", files |-> [f \in {f1, f2, f3} |-> IF f = f1 THEN k3 ELSE None],
            links |-> {}, junk |-> FALSE]}

Symm == Permutations(Proc)
===============================================================================
