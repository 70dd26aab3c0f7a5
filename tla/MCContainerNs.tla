--------------------------- MODULE MCContainerNs ---------------------------
(***************************************************************************)
(* Model values for ContainerNs.  Sessions are interchangeable.            *)
(***************************************************************************)
EXTENDS ContainerNs, TLC
CONSTANTS s1, s2, s3, r1
MCSessions == {s1, s2, s3}
MCRootFS == {r1}
Symmetry == Permutations(MCSessions)
=============================================================================
