---------------------------- MODULE BlockDevice ----------------------------
(***************************************************************************)
(* What an NBD export promises its clients about losing power: a block may *)
(* fall back to an older version, never to one older than what the server  *)
(* has vouched for (a FLUSH or a FUA write it acknowledged).               *)
(*                                                                         *)
(* Every write of a block makes a new, higher version of it, and so does a *)
(* TRIM, whose version is a hole.                                          *)
(***************************************************************************)
EXTENDS Naturals

CONSTANT Blocks

VARIABLES
    cur,   \* block -> version a read returns
    low    \* block -> oldest version a power loss may leave

Init ==
    /\ cur = [b \in Blocks |-> 0]
    /\ low = [b \in Blocks |-> 0]

\* A write takes effect; nothing is promised yet.
Write(b) ==
    /\ cur'[b] > cur[b]
    /\ cur' = [cur EXCEPT ![b] = cur'[b]]
    /\ UNCHANGED low

\* The server vouches for versions up to the current ones.
Promise ==
    /\ low' \in [Blocks -> Nat]
    /\ \A b \in Blocks : low[b] <= low'[b] /\ low'[b] <= cur[b]
    /\ UNCHANGED cur

PowerLoss ==
    /\ cur' \in [Blocks -> Nat]
    /\ \A b \in Blocks : low[b] <= cur'[b] /\ cur'[b] <= cur[b]
    /\ UNCHANGED low

Next == (\E b \in Blocks : Write(b)) \/ Promise \/ PowerLoss

Spec == Init /\ [][Next]_<<cur, low>>

=============================================================================
