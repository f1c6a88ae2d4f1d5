----------------------------- MODULE MCBfClient -----------------------------
(* A small instance of BfClient for TLC.                                     *)
EXTENDS BfClient
=============================================================================
