-------------------------- MODULE MCControlServers --------------------------
(* Small instances of ControlServers for TLC.                              *)
EXTENDS ControlServers

CONSTANTS s1, s2, s3, fa, fb
=============================================================================
