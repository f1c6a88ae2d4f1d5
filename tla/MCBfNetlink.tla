---------------------------- MODULE MCBfNetlink ----------------------------
(* Small instances of BfNetlink for TLC.                                     *)
EXTENDS BfNetlink

CONSTANTS c1, c2, t1, t2, all, some, r1, r2, pin, pout

MCListing == [p \in Pattern |-> IF p = all THEN <<r1, r2>> ELSE <<r2>>]
MCPolicies == <<pin, pout>>
=============================================================================
