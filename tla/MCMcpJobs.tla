----------------------------- MODULE MCMcpJobs -----------------------------
(* Small instances of McpJobs for TLC.                                     *)
EXTENDS McpJobs

CONSTANTS fa, fb, c1, c2, c3
=============================================================================
