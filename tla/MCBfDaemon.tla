----------------------------- MODULE MCBfDaemon -----------------------------
(* A small instance of BfDaemon for TLC.                                     *)
EXTENDS BfDaemon

CONSTANTS p1, p2, c1, c2
=============================================================================
