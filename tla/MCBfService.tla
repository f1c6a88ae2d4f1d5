----------------------------- MODULE MCBfService -----------------------------
(* Small instances of BfService for TLC.                                     *)
EXTENDS BfService

CONSTANTS in1, in2, out1, pin, pout

MCPolicies == <<pin, pout>>
MCChainOf == [e \in Entry |-> IF e \in {in1, in2, pin} THEN "INPUT" ELSE "OUTPUT"]
=============================================================================
