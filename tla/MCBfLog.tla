------------------------------- MODULE MCBfLog -------------------------------
(* Small instances of BfLog for TLC.                                         *)
EXTENDS BfLog

CONSTANTS u1, u2, p1, p2
=============================================================================
