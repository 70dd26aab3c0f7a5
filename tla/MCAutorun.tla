----------------------------- MODULE MCAutorun -----------------------------
(* Small instances of Autorun for TLC.                                     *)
EXTENDS Autorun

CONSTANTS ka, kb, g1, g2, c1, c2
=============================================================================
