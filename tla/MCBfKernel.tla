----------------------------- MODULE MCBfKernel -----------------------------
(* Small instances of BfKernel for TLC.                                     *)
EXTENDS BfKernel, TLC

CONSTANTS n1, n2, h1, c1, kin1, kin2, kout, kall, kpol, p1

MCChainOf == kin1 :> "INPUT" @@ kin2 :> "INPUT" @@ kout :> "OUTPUT" @@ kall :> "ALL"
             @@ kpol :> "INPUT"

\* A packet that passes by kin1 and kout.
MCMatches == [p \in Packet |-> {kin2}]

Mk(type, k, off, policy) == [type |-> type, fr |-> [key |-> k, off |-> off, policy |-> policy]]

\* Rules of both chains and of neither, a policy pseudo rule, a rule that is
\* deleted under a walk and one that is not, an update of both fields at once.
MCMsg ==
  {Mk("ADD_RULE", k, "NO", "DROP") : k \in {kin1, kin2, kout, kall, kpol}}
    \cup {Mk("DELETE_RULE", kin1, "NO", "DROP"), Mk("DELETE_ALL_RULES", kpol, "NO", "DROP")}
    \cup {Mk("UPDATE_RULE", kin1, "YES", "ACCEPT"), Mk("CHAIN_POLICY", kall, "NO", "DROP")}
=============================================================================
