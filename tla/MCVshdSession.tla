--------------------------- MODULE MCVshdSession ---------------------------
(***************************************************************************)
(* VshdSession as TLC runs it: every kind of session, and more input than  *)
(* the pipes on the way to the command hold.                               *)
(***************************************************************************)
EXTENDS VshdSession
=============================================================================
