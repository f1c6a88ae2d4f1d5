------------------------------ MODULE BfKernel ------------------------------
(***************************************************************************)
(* The rule store of the kernel module (bf-ko/bf_module.c, nl_int.c): the  *)
(* netlink handler that edits it under nl_mutex, the netfilter hooks that  *)
(* walk it under rcu_read_lock and nothing else, and the grace periods     *)
(* that separate an unlinked rule from its kfree.                          *)
(*                                                                         *)
(* A rule object lives on the full list, in the hash table and, if its     *)
(* chain is INPUT or OUTPUT, on that chain's list.  The lists are          *)
(* sequences; an object that list_del_rcu has taken off its chain keeps    *)
(* its ->next, and a hook that stands on it follows that pointer.          *)
(***************************************************************************)
EXTENDS Naturals, Sequences, SequencesExt

CONSTANTS
  Node,      \* the kmalloc'd filter_rule_list objects: bounds the live rules
  Hook,      \* the processors that may be inside hook_func
  Client,    \* the processes that send netlink messages
  Key,       \* the values of filter_rule_base, compared with memcmp
  PolicyKey, \* the keys for which policy_rule() is true
  ChainOf,   \* the chain field of each key
  Packet,    \* what the packets differ in, as far as the rules can tell
  Matches,   \* the keys whose fields a packet matches
  Msg,       \* the netlink messages the clients send
  InHead, OutHead, \* the list heads lst_fr_in and lst_fr_out
  NoNode, NoReply

Chain == {"INPUT", "OUTPUT"}
Policy == {"ACCEPT", "DROP", "NONE"}
Switch == {"NO", "YES", "NONE"}
Verdict == {"ACCEPT", "DROP"}
FilterRule == [key : Key, off : Switch, policy : Policy]
Error == {"OK", "ALREADY_HAVE_RULE", "MISSING_RULE"}
MsgType == {"ADD_RULE", "UPDATE_RULE", "DELETE_RULE", "DELETE_ALL_RULES",
            "CHAIN_POLICY"}
Step == {"idle", "add", "addchain", "updoff", "updpolicy", "delin", "delout",
         "delhash", "delfull", "flushin", "flushout", "flushfull"}

Cell == Node \cup {InHead, OutHead}

ASSUME CellAssumption ==
  /\ InHead # OutHead
  /\ InHead \notin Node /\ OutHead \notin Node /\ NoNode \notin Node
ASSUME KeyAssumption ==
  /\ PolicyKey \subseteq Key
  /\ ChainOf \in [Key -> {"NONE", "ALL", "INPUT", "OUTPUT"}]
  /\ Matches \in [Packet -> SUBSET Key]
ASSUME SomeAssumption == Client # {} /\ Key # {} /\ Packet # {}
ASSUME MsgAssumption ==
  /\ Msg \subseteq [type : MsgType, fr : FilterRule]
  /\ NoReply \notin Error

VARIABLES
  mem,          \* of each object: "free", "used", "retired" (given to call_rcu)
  rule,         \* the filter rule an object holds
  full, chain,  \* lst_fr, and lst_fr_in and lst_fr_out
  left,         \* the ->next of an object that has left its chain
  hashed,       \* the objects whose entry is in map_fr
  chainPolicy,  \* bf_config.chain_policy
  filterOn,     \* filter_value # 0
  at,           \* the step of the handler that holds nl_mutex; "idle": nobody
  caller, fr, node, \* its sender, the rule it was sent, the object it works on
  reply,        \* the last answer in each client's receive queue
  hook,         \* each processor's hook_func activation
  waits,        \* the read-side sections a retired object still waits for
  sees          \* auxiliary, read by no action: the walks that were under way
                \* when an object left its chain, and still are

lists == <<full, chain, left, hashed>>
store == <<mem, rule, lists>>
handler == <<at, caller, fr, node, reply>>
vars == <<store, chainPolicy, filterOn, handler, hook, waits, sees>>

-----------------------------------------------------------------------------
AnyClient == CHOOSE c \in Client : TRUE
AnyRule == [key |-> CHOOSE k \in Key : TRUE, off |-> "NO", policy |-> "NONE"]

HeadOf(c) == IF c = "INPUT" THEN InHead ELSE OutHead

Walking(h) == hook[h].at \in {"next", "compare"}

\* find_rule(): the entry of map_fr with this key.
Found(k) == {n \in hashed : rule[n].key = k}

\* apply_policy(): whatever is not ACCEPT drops.
ApplyPolicy(p) == IF p = "ACCEPT" THEN "ACCEPT" ELSE "DROP"

\* What ->next of x holds for a walk of chain c.
NextOf(c, x) ==
  IF x = HeadOf(c) THEN IF chain[c] = <<>> THEN x ELSE chain[c][1]
  ELSE IF x \in ToSet(chain[c])
  THEN LET i == CHOOSE i \in DOMAIN chain[c] : chain[c][i] = x
       IN IF i = Len(chain[c]) THEN HeadOf(c) ELSE chain[c][i + 1]
  ELSE left[x]

\* Mutant of ChainDel: the object forgets what came after it.
ChainDelLosesNext(c, i) ==
  LET n == chain[c][i] IN
  /\ left' = [left EXCEPT ![n] = HeadOf(c)]
  /\ chain' = [chain EXCEPT ![c] = RemoveAt(@, i)]
  /\ sees' = [sees EXCEPT ![n] = {h \in Hook : Walking(h)}]

\* list_del_rcu() of the i-th rule of a chain.
ChainDel(c, i) ==
  LET n == chain[c][i] IN
  /\ left' = [left EXCEPT ![n] = NextOf(c, n)]
  /\ chain' = [chain EXCEPT ![c] = RemoveAt(@, i)]
  /\ sees' = [sees EXCEPT ![n] = {h \in Hook : Walking(h)}]

\* Mutant of CallRcu: kfree at once.
CallRcuNoGrace(n) ==
  /\ mem' = [mem EXCEPT ![n] = "retired"]
  /\ waits' = [waits EXCEPT ![n] = {}]

\* call_rcu(): the callback runs when every section open now has closed.
CallRcu(n) ==
  /\ mem' = [mem EXCEPT ![n] = "retired"]
  /\ waits' = [waits EXCEPT ![n] = {h \in Hook : Walking(h)}]

-----------------------------------------------------------------------------
(* The handler.  nl_skb_rcv_msg holds nl_mutex from the first step of a    *)
(* message to its last, in the context of the process that sent it.        *)

Enter(c, m, first) ==
  /\ at = "idle"
  /\ at' = first
  /\ caller' = c
  /\ fr' = m.fr
  /\ UNCHANGED node

\* A message that is answered, or dropped, without touching the lists.
EnterAndLeave ==
  /\ at = "idle"
  /\ UNCHANGED <<at, caller, fr, node>>

Answer(c, code) == reply' = [reply EXCEPT ![c] = code]

\* The handler's locals mean nothing once it has returned.
Forget == caller' = AnyClient /\ fr' = AnyRule /\ node' = NoNode

Leave(code) ==
  /\ at' = "idle"
  /\ Answer(caller, code)
  /\ Forget

Goto(next) ==
  /\ at' = next
  /\ UNCHANGED <<caller, fr, node, reply>>

\* MSG_ADD_RULE with a chain-policy pseudo rule: break, and no answer at all.
RcvAddPolicyRule(c, m) ==
  /\ m.type = "ADD_RULE"
  /\ m.fr.key \in PolicyKey
  /\ EnterAndLeave
  /\ Answer(c, NoReply)
  /\ UNCHANGED <<store, chainPolicy, filterOn, hook, waits, sees>>

RcvAddExisting(c, m) ==
  /\ m.type = "ADD_RULE"
  /\ m.fr.key \notin PolicyKey
  /\ Found(m.fr.key) # {}
  /\ EnterAndLeave
  /\ Answer(c, "ALREADY_HAVE_RULE")
  /\ UNCHANGED <<store, chainPolicy, filterOn, hook, waits, sees>>

\* send_err_ok() comes before add_rule().
RcvAddNew(c, m) ==
  /\ m.type = "ADD_RULE"
  /\ m.fr.key \notin PolicyKey
  /\ Found(m.fr.key) = {}
  /\ \E n \in Node : mem[n] = "free" \* bound: a kmalloc that fails is not modelled
  /\ Enter(c, m, "add")
  /\ Answer(c, "OK")
  /\ UNCHANGED <<store, chainPolicy, filterOn, hook, waits, sees>>

\* add_rule(): kmalloc, the full list, the hash table, ...
AddRule(n) ==
  /\ at = "add"
  /\ mem[n] = "free"
  /\ mem' = [mem EXCEPT ![n] = "used"]
  /\ rule' = [rule EXCEPT ![n] = fr]
  /\ full' = Append(full, n)
  /\ hashed' = hashed \cup {n}
  /\ at' = "addchain"
  /\ node' = n
  /\ UNCHANGED <<chain, left, chainPolicy, filterOn, caller, fr, reply, hook, waits, sees>>

\* Mutants of AddToChain: every rule goes to INPUT; and list_add for list_add_tail.
AddToInput ==
  /\ at = "addchain"
  /\ chain' = [chain EXCEPT !["INPUT"] = Append(@, node)]
  /\ at' = "idle"
  /\ Forget
  /\ UNCHANGED <<mem, rule, full, left, hashed, chainPolicy, filterOn, reply, hook, waits, sees>>

AddToFront ==
  LET c == ChainOf[fr.key] IN
  /\ at = "addchain"
  /\ chain' = IF c \in Chain THEN [chain EXCEPT ![c] = <<node>> \o @] ELSE chain
  /\ at' = "idle"
  /\ Forget
  /\ UNCHANGED <<mem, rule, full, left, hashed, chainPolicy, filterOn, reply, hook, waits, sees>>

\* ... and the chain list, if the rule names one of the two.
AddToChain ==
  LET c == ChainOf[fr.key] IN
  /\ at = "addchain"
  /\ chain' = IF c \in Chain THEN [chain EXCEPT ![c] = Append(@, node)] ELSE chain
  /\ at' = "idle"
  /\ Forget
  /\ UNCHANGED <<mem, rule, full, left, hashed, chainPolicy, filterOn, reply, hook, waits, sees>>

RcvUpdate(c, m) ==
  /\ m.type = "UPDATE_RULE"
  /\ \E n \in Found(m.fr.key) : Enter(c, m, "updoff") /\ Answer(c, NoReply)
  /\ UNCHANGED <<store, chainPolicy, filterOn, hook, waits, sees>>

\* The handler's two assignments, in its order, to a rule the hooks may be reading.
UpdateOff ==
  /\ at = "updoff"
  /\ \E n \in Found(fr.key) :
       rule' = IF fr.off # "NONE" THEN [rule EXCEPT ![n].off = fr.off] ELSE rule
  /\ Goto("updpolicy")
  /\ UNCHANGED <<mem, lists, chainPolicy, filterOn, hook, waits, sees>>

UpdatePolicy ==
  /\ at = "updpolicy"
  /\ \E n \in Found(fr.key) :
       rule' = IF fr.policy # "NONE" THEN [rule EXCEPT ![n].policy = fr.policy] ELSE rule
  /\ Leave("OK")
  /\ UNCHANGED <<mem, lists, chainPolicy, filterOn, hook, waits, sees>>

RcvDelete(c, m) ==
  /\ m.type = "DELETE_RULE"
  /\ Found(m.fr.key) # {}
  /\ Enter(c, m, "delin")
  /\ Answer(c, NoReply)
  /\ UNCHANGED <<store, chainPolicy, filterOn, hook, waits, sees>>

RcvMissing(c, m) ==
  /\ m.type \in {"UPDATE_RULE", "DELETE_RULE"}
  /\ Found(m.fr.key) = {}
  /\ EnterAndLeave
  /\ Answer(c, "MISSING_RULE")
  /\ UNCHANGED <<store, chainPolicy, filterOn, hook, waits, sees>>

\* delete_rule(): the first rule of a chain with this key is unlinked.
DeleteFromChain(c, here, next) ==
  LET same == {i \in DOMAIN chain[c] : rule[chain[c][i]].key = fr.key}
  IN /\ at = here
     /\ IF same = {} THEN UNCHANGED <<chain, left, sees>>
        ELSE \E i \in same : (\A j \in same : i <= j) /\ ChainDel(c, i)
     /\ Goto(next)
     /\ UNCHANGED <<mem, rule, full, hashed, chainPolicy, filterOn, hook, waits>>

DeleteFromIn == DeleteFromChain("INPUT", "delin", "delout")
DeleteFromOut == DeleteFromChain("OUTPUT", "delout", "delhash")

\* Mutant of HashDel: the entry stays.
HashDelForgotten(k) == UNCHANGED hashed

\* hash_table_del_key_safe(): one entry with the key goes.
HashDel(k) ==
  IF Found(k) = {} THEN UNCHANGED hashed
                   ELSE \E n \in Found(k) : hashed' = hashed \ {n}

DeleteFromHash ==
  /\ at = "delhash"
  /\ HashDel(fr.key)
  /\ Goto("delfull")
  /\ UNCHANGED <<mem, rule, full, chain, left, chainPolicy, filterOn, hook, waits, sees>>

\* Every rule of the full list with the key (no break) is unlinked and retired.
DeleteFromFull ==
  /\ at = "delfull"
  /\ \E i \in DOMAIN full :
       /\ rule[full[i]].key = fr.key
       /\ full' = RemoveAt(full, i)
       /\ CallRcu(full[i])
  /\ UNCHANGED <<rule, chain, left, hashed, chainPolicy, filterOn, handler, hook, sees>>

DeleteDone ==
  /\ at = "delfull"
  /\ \A i \in DOMAIN full : rule[full[i]].key # fr.key
  /\ Leave("OK")
  /\ UNCHANGED <<store, chainPolicy, filterOn, hook, waits, sees>>

RcvDeleteAll(c, m) ==
  /\ m.type = "DELETE_ALL_RULES"
  /\ Enter(c, m, "flushin")
  /\ Answer(c, NoReply)
  /\ UNCHANGED <<store, chainPolicy, filterOn, hook, waits, sees>>

\* delete_rules(): one turn of the loop over a chain, or its end.
FlushChain(c, here, next) ==
  /\ at = here
  /\ IF chain[c] = <<>>
     THEN Goto(next) /\ UNCHANGED <<chain, left, sees>>
     ELSE ChainDel(c, 1) /\ UNCHANGED handler
  /\ UNCHANGED <<mem, rule, full, hashed, chainPolicy, filterOn, hook, waits>>

FlushIn == FlushChain("INPUT", "flushin", "flushout")
\* Mutant of FlushOut: the output chain is passed over.
FlushOutForgotten == /\ at = "flushout"
                     /\ Goto("flushfull")
                     /\ UNCHANGED <<store, chainPolicy, filterOn, hook, waits, sees>>

FlushOut == FlushChain("OUTPUT", "flushout", "flushfull")

\* Mutant of FlushFull: the rule is retired but not unlinked.
FlushFullKeepsRule ==
  /\ at = "flushfull"
  /\ full # <<>>
  /\ HashDel(rule[full[1]].key)
  /\ CallRcu(full[1])
  /\ UNCHANGED <<rule, full, chain, left, chainPolicy, filterOn, handler, hook, sees>>

FlushFull ==
  /\ at = "flushfull"
  /\ full # <<>>
  /\ HashDel(rule[full[1]].key)
  /\ full' = Tail(full)
  /\ CallRcu(full[1])
  /\ UNCHANGED <<rule, chain, left, chainPolicy, filterOn, handler, hook, sees>>

FlushDone ==
  /\ at = "flushfull"
  /\ full = <<>>
  /\ Leave("OK")
  /\ UNCHANGED <<store, chainPolicy, filterOn, hook, waits, sees>>

\* set_chain_policy(): an unknown chain is only logged; the answer is OK anyway.
RcvChainPolicy(c, m) ==
  /\ m.type = "CHAIN_POLICY"
  /\ EnterAndLeave
  /\ chainPolicy' = [d \in Chain |-> IF ChainOf[m.fr.key] \in {d, "ALL"}
                                     THEN ApplyPolicy(m.fr.policy)
                                     ELSE chainPolicy[d]]
  /\ Answer(c, "OK")
  /\ UNCHANGED <<store, filterOn, hook, waits, sees>>

-----------------------------------------------------------------------------
(* hook_func, and what it depends on.                                      *)

\* Mutant of SectionEnds: a return without rcu_read_unlock.
SectionNeverEnds(h) == waits' = waits /\ sees' = sees

\* rcu_read_unlock()
SectionEnds(h) ==
  /\ waits' = [n \in Node |-> waits[n] \ {h}]
  /\ sees' = [n \in Node |-> sees[n] \ {h}]

\* A TCP or UDP packet arrives; with the filter switched off it is accepted.
HookBegin(h, c, p) ==
  /\ hook[h].at \in {"idle", "done"}
  /\ hook' = [hook EXCEPT ![h] =
       [at |-> IF filterOn THEN "next" ELSE "done", chain |-> c, packet |-> p,
        cur |-> HeadOf(c), policy |-> "NONE", verdict |-> "ACCEPT"]]
  /\ UNCHANGED <<store, chainPolicy, filterOn, handler, waits, sees>>

\* list_for_each_entry_rcu: load ->next, then loc_policy of the rule it names.
HookNext(h) ==
  LET n == NextOf(hook[h].chain, hook[h].cur)
  IN /\ hook[h].at = "next"
     /\ n # HeadOf(hook[h].chain)
     /\ hook' = [hook EXCEPT ![h].at = "compare", ![h].cur = n,
                             ![h].policy = rule[n].policy]
     /\ UNCHANGED <<store, chainPolicy, filterOn, handler, waits, sees>>

Hits(h) == /\ rule[hook[h].cur].key \in Matches[hook[h].packet]
           /\ rule[hook[h].cur].off = "NO"

HookMatch(h) ==
  /\ hook[h].at = "compare"
  /\ Hits(h)
  /\ hook' = [hook EXCEPT ![h].at = "done", ![h].cur = HeadOf(hook[h].chain),
                          ![h].verdict = ApplyPolicy(hook[h].policy)]
  /\ SectionEnds(h)
  /\ UNCHANGED <<store, chainPolicy, filterOn, handler>>

HookSkip(h) ==
  /\ hook[h].at = "compare"
  /\ ~Hits(h)
  /\ hook' = [hook EXCEPT ![h].at = "next"]
  /\ UNCHANGED <<store, chainPolicy, filterOn, handler, waits, sees>>

\* The walk is over: rcu_read_unlock, and only then the chain's policy is read.
HookEnd(h) ==
  /\ hook[h].at = "next"
  /\ NextOf(hook[h].chain, hook[h].cur) = HeadOf(hook[h].chain)
  /\ hook' = [hook EXCEPT ![h].at = "default", ![h].cur = HeadOf(hook[h].chain)]
  /\ SectionEnds(h)
  /\ UNCHANGED <<store, chainPolicy, filterOn, handler>>

HookDefault(h) ==
  /\ hook[h].at = "default"
  /\ hook' = [hook EXCEPT ![h].at = "done", ![h].verdict = chainPolicy[hook[h].chain]]
  /\ UNCHANGED <<store, chainPolicy, filterOn, handler, waits, sees>>

\* free_rule(), run by RCU once the grace period of n is over.  What the freed
\* memory holds from here on is nobody's business: it is set to a fixed value.
FreeRule(n) ==
  /\ mem[n] = "retired"
  /\ waits[n] = {}
  /\ mem' = [mem EXCEPT ![n] = "free"]
  /\ rule' = [rule EXCEPT ![n] = AnyRule]
  /\ left' = [left EXCEPT ![n] = InHead]
  /\ UNCHANGED <<full, chain, hashed, chainPolicy, filterOn, handler, hook, waits, sees>>

\* skb_write(): the proc entry switches the filter on and off.
SkbWrite ==
  /\ filterOn' = ~filterOn
  /\ UNCHANGED <<store, chainPolicy, handler, hook, waits, sees>>

-----------------------------------------------------------------------------
\* init_module(): empty lists, both policies ACCEPT, the filter on.
Init ==
  /\ mem = [n \in Node |-> "free"]
  /\ rule = [n \in Node |-> AnyRule]
  /\ full = <<>>
  /\ chain = [c \in Chain |-> <<>>]
  /\ left = [n \in Node |-> InHead]
  /\ hashed = {}
  /\ chainPolicy = [c \in Chain |-> "ACCEPT"]
  /\ filterOn = TRUE
  /\ at = "idle"
  /\ caller = AnyClient /\ fr = AnyRule /\ node = NoNode
  /\ reply = [c \in Client |-> NoReply]
  /\ hook = [h \in Hook |->
       [at |-> "idle", chain |-> "INPUT", packet |-> CHOOSE p \in Packet : TRUE,
        cur |-> InHead, policy |-> "NONE", verdict |-> "ACCEPT"]]
  /\ waits = [n \in Node |-> {}]
  /\ sees = [n \in Node |-> {}]

Receive(c, m) ==
  \/ RcvAddPolicyRule(c, m) \/ RcvAddExisting(c, m) \/ RcvAddNew(c, m)
  \/ RcvUpdate(c, m) \/ RcvDelete(c, m) \/ RcvMissing(c, m)
  \/ RcvDeleteAll(c, m) \/ RcvChainPolicy(c, m)

Handle ==
  \/ \E n \in Node : AddRule(n)
  \/ AddToChain
  \/ UpdateOff \/ UpdatePolicy
  \/ DeleteFromIn \/ DeleteFromOut \/ DeleteFromHash \/ DeleteFromFull \/ DeleteDone
  \/ FlushIn \/ FlushOut \/ FlushFull \/ FlushDone

Filter(h) ==
  HookNext(h) \/ HookMatch(h) \/ HookSkip(h) \/ HookEnd(h) \/ HookDefault(h)

Next ==
  \/ \E c \in Client, m \in Msg : Receive(c, m)
  \/ Handle
  \/ \E h \in Hook : Filter(h)
  \/ \E h \in Hook, c \in Chain, p \in Packet : HookBegin(h, c, p)
  \/ \E n \in Node : FreeRule(n)
  \/ SkbWrite

Spec == Init /\ [][Next]_vars

\* A handler runs to its end, a hook decides its packet and RCU calls back;
\* nobody has to send a message or a packet.
FairSpec ==
  /\ Spec
  /\ WF_vars(Handle)
  /\ \A h \in Hook : WF_vars(Filter(h))
  /\ \A n \in Node : WF_vars(FreeRule(n))

-----------------------------------------------------------------------------
(* Properties.                                                             *)

TypeOK ==
  /\ mem \in [Node -> {"free", "used", "retired"}]
  /\ rule \in [Node -> FilterRule]
  /\ full \in Seq(Node)
  /\ chain \in [Chain -> Seq(Node)]
  /\ left \in [Node -> Cell]
  /\ hashed \subseteq Node
  /\ chainPolicy \in [Chain -> Verdict]
  /\ filterOn \in BOOLEAN
  /\ at \in Step
  /\ caller \in Client /\ fr \in FilterRule /\ node \in Node \cup {NoNode}
  /\ reply \in [Client -> Error \cup {NoReply}]
  /\ hook \in [Hook -> [at : {"idle", "next", "compare", "default", "done"},
                        chain : Chain, packet : Packet, cur : Cell,
                        policy : Policy, verdict : Verdict]]
  /\ waits \in [Node -> SUBSET Hook]
  /\ sees \in [Node -> SUBSET Hook]

\* No hook ever stands on a rule that kfree has taken: the grace period begins
\* after the rule has left its chain and ends after the last walk that saw it.
HookOnLiveRule ==
  \A h \in Hook : Walking(h) =>
    hook[h].cur = HeadOf(hook[h].chain) \/
    (hook[h].cur \in Node /\ mem[hook[h].cur] # "free")

\* A walk stays on the chain it began: it can never cross to the other chain's
\* rules or run past its own head, which is the only thing that ends it.
HookOnItsChain ==
  \A h \in Hook : (Walking(h) /\ hook[h].cur \in Node) =>
    ChainOf[rule[hook[h].cur].key] = hook[h].chain

Precedes(s, x, y) == \E i, j \in DOMAIN s : i < j /\ s[i] = x /\ s[j] = y

\* Between two messages the full list, the hash table and the chain lists hold
\* the same rules, one per key; each chain has the full list's rules of that chain,
\* once each, in the order they were added, and nothing that is allocated is on no list.
StoreConsistent ==
  at = "idle" =>
    /\ IsInjective(full) /\ ToSet(full) = hashed
    /\ \A n \in Node : mem[n] = "used" <=> n \in hashed
    /\ \A n, m \in hashed : rule[n].key = rule[m].key => n = m
    /\ \A c \in Chain :
         /\ IsInjective(chain[c]) /\ ToSet(chain[c]) = {n \in hashed : ChainOf[rule[n].key] = c}
         /\ \A n, m \in hashed : Precedes(chain[c], n, m) => Precedes(full, n, m)

InForce(k) == \E c \in Chain : \E i \in DOMAIN chain[c] : rule[chain[c][i]].key = k

\* What the handler leaves behind when it returns.
EffectOfAnswer ==
  (at # "idle" /\ at' = "idle") =>
    /\ reply'[caller] = "OK"
    /\ \A k \in Key : (k = fr.key) =>
         /\ at = "addchain" => (ChainOf[k] \in Chain => InForce(k)') /\ Found(k)' # {}
         /\ at = "updpolicy" =>
              \E n \in Found(k)' : /\ fr.off \in {rule'[n].off, "NONE"}
                                  /\ fr.policy \in {rule'[n].policy, "NONE"}
         /\ at = "delfull" => ~InForce(k)' /\ Found(k)' = {}
    /\ at = "flushfull" => hashed' = {} /\ \A k \in Key : ~InForce(k)'

\* The answer a caller finds when its message returns is the truth about the
\* store at that moment: an added rule is there, a deleted or missing one is
\* nowhere, an update has taken both fields, a flush has left nothing.
AnswerTellsEffect == [][EffectOfAnswer]_vars

-----------------------------------------------------------------------------
(* What makes the two hook properties inductive.                           *)

\* Where walk h of chain c may stand: at the head, on a rule of the chain, or
\* on one that has left the chain since h began.
OnPath(c, x, h) ==
  \/ x = HeadOf(c)
  \/ /\ x \in Node
     /\ ChainOf[rule[x].key] = c
     /\ x \in ToSet(chain[c]) \/ h \in sees[x]

WalkInv == \A h \in Hook : Walking(h) => OnPath(hook[h].chain, hook[h].cur, h)

\* An object that left its chain under h is kept for h, and leads h back to
\* the chain.
SeesInv ==
  \A n \in Node : \A h \in sees[n] :
    /\ Walking(h)
    /\ mem[n] # "free"
    /\ mem[n] = "retired" => h \in waits[n]
    /\ \A c \in Chain : n \notin ToSet(chain[c])
    /\ ChainOf[rule[n].key] \in Chain
    /\ OnPath(ChainOf[rule[n].key], left[n], h)

ChainInv ==
  \A c \in Chain :
    /\ IsInjective(chain[c])
    /\ \A n \in ToSet(chain[c]) :
         mem[n] = "used" /\ ChainOf[rule[n].key] = c /\ n \in hashed

HashInv ==
  /\ \A n \in hashed : mem[n] = "used"
  /\ \A n, m \in hashed : rule[n].key = rule[m].key => n = m

FullInv ==
  /\ IsInjective(full)
  /\ \A n \in ToSet(full) :
       /\ mem[n] = "used"
       /\ n \in hashed \/ (at = "delfull" /\ rule[n].key = fr.key)

\* What the handler has established by each of its steps.
Cleared(c) == \A n \in ToSet(chain[c]) : rule[n].key # fr.key
StepInv ==
  /\ at \in {"add", "delfull"} => Found(fr.key) = {}
  /\ at = "addchain" => /\ node \in hashed
                        /\ rule[node] = fr
                        /\ sees[node] = {}
                        /\ \A c \in Chain : node \notin ToSet(chain[c])
  /\ at \in {"delout", "delhash", "delfull"} => Cleared("INPUT")
  /\ at \in {"delhash", "delfull"} => Cleared("OUTPUT")
  /\ at \in {"flushout", "flushfull"} => chain["INPUT"] = <<>>
  /\ at = "flushfull" => chain["OUTPUT"] = <<>>

\* The handler's steps, the lists and the walks fit together at every moment;
\* HookOnLiveRule and HookOnItsChain follow.
IInv ==
  TypeOK /\ WalkInv /\ SeesInv /\ ChainInv /\ HashInv /\ FullInv /\ StepInv

-----------------------------------------------------------------------------
\* Every message that enters the handler leaves it.
CallReturns == at # "idle" ~> at = "idle"

\* Every retired rule is freed: no walk holds a grace period open for ever.
RetiredIsFreed == \A n \in Node : mem[n] = "retired" ~> mem[n] = "free"
=============================================================================
