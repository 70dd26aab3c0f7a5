--------------------------- MODULE MCVmxSessions ---------------------------
(* Small instances of VmxSessions for TLC.                                 *)
EXTENDS VmxSessions

CONSTANTS u1, u2, u3, ka, kb, fa, fb
=============================================================================
