------------------------------ MODULE MCBfHash ------------------------------
(* A small instance of BfHash for TLC: two of three keys share a bucket.     *)
EXTENDS BfHash, TLC

CONSTANTS t1, t2, e1, e2, e3, b1, b2

MCKey == {<<1, 1>>, <<1, 2>>, <<2, 2>>}
MCHash == (<<1, 1>> :> b1) @@ (<<1, 2>> :> b1) @@ (<<2, 2>> :> b2)
=============================================================================
