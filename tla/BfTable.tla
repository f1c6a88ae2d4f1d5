------------------------------- MODULE BfTable -------------------------------
(***************************************************************************)
(* What the kernel module promises of its rule table, without lists,       *)
(* pointers or grace periods: two ordered chains that change one rule at a *)
(* time, and a filter whose verdict on a packet is the one that some table *)
(* in force while it decided would have given.                             *)
(***************************************************************************)
EXTENDS Naturals, Sequences, SequencesExt, FiniteSetsExt

CONSTANTS Hook, Packet, Matches, ChainOf,
          Rule \* the rules that may be added

Chain == {"INPUT", "OUTPUT"}
Verdict == {"ACCEPT", "DROP"}

VARIABLES
  table,  \* of each chain, its rules in order
  policy, \* of each chain, what happens to a packet no rule decides
  on,     \* the filter can be switched off as a whole
  ask     \* of each processor, the packet it is deciding

vars == <<table, policy, on, ask>>

\* The first rule that is on and matches decides, else the chain's policy.
Decision(t, pol, c, p) ==
  LET hits == {i \in DOMAIN t[c] : t[c][i].key \in Matches[p] /\ t[c][i].off = "NO"}
  IN IF hits = {} THEN pol[c]
     ELSE IF t[c][Min(hits)].policy = "ACCEPT" THEN "ACCEPT" ELSE "DROP"

Quiet(c, p, v) ==
  [open |-> FALSE, chain |-> c, packet |-> p, could |-> {}, late |-> {}, verdict |-> v]

Open(c, p, could, late) ==
  [open |-> TRUE, chain |-> c, packet |-> p, could |-> could, late |-> late, verdict |-> "ACCEPT"]

\* Every packet being decided may get the verdict of the table as it is now;
\* a policy that changes meanwhile is read when the walk is already over.
Witness ==
  ask' = [h \in Hook |->
    LET a == ask[h] IN
    IF ~a.open THEN a
    ELSE Open(a.chain, a.packet,
              a.could \cup {Decision(table', policy', a.chain, a.packet)},
              IF policy'[a.chain] # policy[a.chain] THEN a.late \cup {policy'[a.chain]} ELSE a.late)]

AddRule(r) ==
  LET c == ChainOf[r.key] IN
  /\ UNCHANGED <<policy, on>>
  /\ c \in Chain
  /\ \A i \in DOMAIN table[c] : table[c][i].key # r.key
  /\ table' = [table EXCEPT ![c] = Append(@, r)]
  /\ Witness

RemoveRule(c, i) ==
  /\ UNCHANGED <<policy, on>>
  /\ table' = [table EXCEPT ![c] = RemoveAt(@, i)]
  /\ Witness

SetPolicy(pol) ==
  /\ policy' = pol
  /\ UNCHANGED <<table, on>>
  /\ Witness

SwitchFilter == on' = ~on /\ UNCHANGED <<table, policy, ask>>

Ask(h, c, p) ==
  /\ ~ask[h].open
  /\ ask' = [ask EXCEPT ![h] =
       IF on THEN Open(c, p, {Decision(table, policy, c, p)}, {}) ELSE Quiet(c, p, "ACCEPT")]
  /\ UNCHANGED <<table, policy, on>>

Decide(h, v) ==
  /\ ask[h].open
  /\ v \in ask[h].could \cup ask[h].late
  /\ ask' = [ask EXCEPT ![h] = Quiet(ask[h].chain, ask[h].packet, v)]
  /\ UNCHANGED <<table, policy, on>>

Init ==
  /\ table = [c \in Chain |-> <<>>]
  /\ policy = [c \in Chain |-> "ACCEPT"]
  /\ on = TRUE
  /\ ask \in [Hook -> {Quiet(c, p, "ACCEPT") : c \in Chain, p \in Packet}]

Next ==
  \/ \E r \in Rule : AddRule(r)
  \/ \E c \in Chain : \E i \in DOMAIN table[c] : RemoveRule(c, i)
  \/ \E pol \in [Chain -> Verdict] : SetPolicy(pol)
  \/ SwitchFilter
  \/ \E h \in Hook, c \in Chain, p \in Packet : Ask(h, c, p)
  \/ \E h \in Hook, v \in Verdict : Decide(h, v)

Spec == Init /\ [][Next]_vars
=============================================================================
