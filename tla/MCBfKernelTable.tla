--------------------------- MODULE MCBfKernelTable ---------------------------
(* A small instance of BfKernelTable for TLC.                                *)
EXTENDS BfKernelTable, TLC

CONSTANTS n1, n2, n3, h1, c1, kin1, kin2, kpol, p1

MCChainOf == [k \in Key |-> "INPUT"]

\* The packet passes kin1 by and is decided by kin2, or by the chain's policy.
MCMatches == p1 :> {kin2}

Mk(type, k, policy) == [type |-> type, fr |-> [key |-> k, off |-> "NO", policy |-> policy]]

MCMsg ==
  {Mk("ADD_RULE", kin1, "ACCEPT"), Mk("ADD_RULE", kin2, "DROP")}
    \cup {Mk("DELETE_RULE", k, "DROP") : k \in {kin1, kin2}}
    \cup {Mk("DELETE_ALL_RULES", kpol, "DROP")}
    \cup {Mk("CHAIN_POLICY", kpol, p) : p \in {"DROP", "ACCEPT"}}

Symm == Permutations({n1, n2, n3})
=============================================================================
