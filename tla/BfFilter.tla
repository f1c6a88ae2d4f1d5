------------------------------- MODULE BfFilter -------------------------------
(***************************************************************************)
(* From what is typed at bfctl to what hook_func does with packets and to  *)
(* what bfctl shows: the line is parsed (BfCtl), main.cpp makes one call   *)
(* of it, nl_rcv_msg changes the rules, hook_func (bf-ko/bf_module.c)      *)
(* compares packets with them, and cmds.cpp prints.  BfKernel has the      *)
(* interleavings and leaves open what "matches" means; here a whole        *)
(* command, or a call of the hook, is one step, and the comparisons are    *)
(* the code's, on a little-endian machine.                                 *)
(*                                                                         *)
(* An address is the four bytes that memory holds, first byte first, both  *)
(* in a packet and in a rule (bfctl stores what inet_pton gives).  A port  *)
(* is the number that ntohs makes of the header's field.                   *)
(***************************************************************************)
EXTENDS BfCtl, FiniteSetsExt

CONSTANTS
  Line,   \* what the users type
  File,   \* the rules in each file of rules
  Packet  \* the packets that arrive

Chain == {"INPUT", "OUTPUT"}
Policy == {"ACCEPT", "DROP"}
Rule == [base : Base, off : {"NO", "YES"}, policy : Policy]
Command == {"list", "append", "delete", "flush", "update", "policy", "file"}
Option == {"source", "destination", "sport", "dport", "proto", "off", "jump"}

\* The lines are written as the help writes them: the command first, and once.
ASSUME LineAssumption ==
  \A line \in Line :
    /\ line # <<>> /\ line \in Seq(ToSet(line))
    /\ line[1].opt \in Command /\ \A i \in DOMAIN line \ {1} : line[i].opt \in Option
ASSUME FileAssumption == \A name \in DOMAIN File : File[name] \in Seq(Rule)
ASSUME PacketAssumption ==
  Packet \subseteq [proto : {"TCP", "UDP"}, source : Port, dest : Port, saddr : Address, daddr : Address]

VARIABLES
  chain,       \* of each chain, its rules in order; those of "ALL" are on neither list
  chainPolicy, \* bf_config.chain_policy
  seen,        \* the last thing that somebody saw: a verdict, or what bfctl printed
  given        \* auxiliary: the rules and policies that the lines typed so far ask for

vars == <<chain, chainPolicy, seen, given>>

-----------------------------------------------------------------------------
(* The comparisons of hook_func.                                           *)

Ntohl(a) == Reverse(a)

\* ntohs of a 32-bit field: its low half, swapped, and nothing of its high half.
Ntohs(a) == <<a[2], a[1], 0, 0>>

\* Mutant of UdpHits: the destination port is not looked at.
UdpHitsAnyPort(r, p) ==
  /\ r.base.src_port \in {0, p.source}
  /\ r.base.s_addr \in {Zero, Ntohl(p.saddr)}
  /\ r.base.d_addr \in {Zero, Ntohl(p.saddr)}
  /\ r.off = "NO"

UdpHits(r, p) ==
  /\ r.base.src_port \in {0, p.source}
  /\ r.base.dst_port \in {0, p.dest}
  /\ r.base.s_addr \in {Zero, Ntohl(p.saddr)}
  /\ r.base.d_addr \in {Zero, Ntohl(p.saddr)}
  /\ r.off = "NO"

TcpHits(r, p) ==
  /\ r.base.src_port \in {0, p.source}
  /\ r.base.dst_port \in {0, p.dest}
  /\ r.base.s_addr \in {Zero, Ntohs(p.saddr)}
  /\ r.base.d_addr \in {Zero, Ntohs(p.saddr)}
  /\ r.off = "NO"

Hits(r, p) ==
  /\ r.base.proto = p.proto
  /\ IF p.proto = "UDP" THEN UdpHits(r, p) ELSE TcpHits(r, p)

\* The first rule of the chain that hits decides, else the chain's policy.  Only
\* the branch for UDP hands the packet to the log (from there on it is BfLog's).
HookFunc(c, p) ==
  LET hits == {i \in DOMAIN chain[c] : Hits(chain[c][i], p)} IN
  /\ seen' = [what |-> "verdict", chain |-> c, packet |-> p,
              verdict |-> IF hits = {} THEN chainPolicy[c] ELSE chain[c][Min(hits)].policy,
              logged |-> hits # {} /\ p.proto = "UDP"]
  /\ UNCHANGED <<chain, chainPolicy, given>>

-----------------------------------------------------------------------------
(* What the help of bfctl promises of a line.                              *)

At(line, opt) == {i \in DOMAIN line : line[i].opt = opt}
Given(line, opt, default) == IF At(line, opt) = {} THEN default ELSE line[Max(At(line, opt))].arg

\* What a rule has where the line names nothing.
Default == [proto |-> "UNSET", sport |-> 0, dport |-> 0, source |-> Zero, destination |-> Zero,
            off |-> "NO", jump |-> "DROP"]

Asked(line) ==
  LET Of(opt) == Given(line, opt, Default[opt]) IN
  [base |-> [chain |-> line[1].arg, proto |-> Of("proto"), src_port |-> Of("sport"), dst_port |-> Of("dport"),
             s_addr |-> Of("source"), d_addr |-> Of("destination")],
   off |-> Of("off"), policy |-> Of("jump")]

Wrong(line) ==
  \/ \E i \in DOMAIN line : LET o == line[i] IN
       \/ o.opt \in Command \ {"file"} /\ o.arg \notin {"ALL", "INPUT", "OUTPUT"}
       \/ o.opt = "policy" /\ o.next \notin Policy
       \/ o.opt \in {"source", "destination"} /\ o.arg = Malformed
       \/ o.opt \in {"sport", "dport"} /\ o.arg \notin Port
       \/ o.opt = "proto" /\ o.arg \notin {"ALL", "TCP", "UDP"}
       \/ o.opt = "off" /\ o.arg \notin {"NO", "YES"}
       \/ o.opt = "jump" /\ o.arg \notin Policy
  \/ line[1].opt \in {"append", "delete"} /\ At(line, "proto") = {}

Covers(c, d) == c \in {d, "ALL"}

\* Those of the rules that are wanted, in their order.
Select(rules, wanted) ==
  LET kept[i \in 0..Len(rules)] ==
        IF i = 0 THEN <<>>
        ELSE IF rules[i] \in wanted THEN Append(kept[i - 1], rules[i]) ELSE kept[i - 1]
  IN kept[Len(rules)]

With(rules, r) == IF \E i \in DOMAIN rules : rules[i].base = r.base THEN rules ELSE Append(rules, r)

\* With all rules of a file, one after the other.
WithAll(rules, more) ==
  LET all[i \in 0..Len(more)] == IF i = 0 THEN rules ELSE With(all[i - 1], more[i])
  IN all[Len(more)]

\* "Update matching rule target or/and turn rule on/off": what is not named stays.
Renewed(x, line) ==
  IF x.base # Asked(line).base THEN x
  ELSE [x EXCEPT !.off = Given(line, "off", @), !.policy = Given(line, "jump", @)]

\* The rules that are to be there after a line.
RulesAfter(rules, line) ==
  LET r == Asked(line) IN
  CASE line[1].opt = "append" -> With(rules, r)
    [] line[1].opt = "delete" -> Select(rules, {x \in Rule : x.base # r.base})
    [] line[1].opt = "flush" -> Select(rules, {x \in Rule : ~Covers(r.base.chain, x.base.chain)})
    [] line[1].opt = "update" -> [i \in DOMAIN rules |-> Renewed(rules[i], line)]
    [] line[1].opt = "file" /\ line[1].arg \in DOMAIN File -> WithAll(rules, File[line[1].arg])
    [] OTHER -> rules

Remember(line) ==
  given' = IF Wrong(line) THEN given
           ELSE [rules |-> RulesAfter(given.rules, line),
                 policy |-> [c \in Chain |->
                   IF line[1].opt = "policy" /\ Covers(line[1].arg, c) THEN line[1].next ELSE given.policy[c]]]

-----------------------------------------------------------------------------
(* The commands.                                                           *)

Says(line, said) == seen' = [what |-> "typed", line |-> line, said |-> said]

Held(base) == \E i \in DOMAIN chain[base.chain] : chain[base.chain][i].base = base

RuleOf(s) == [base |-> s.base, off |-> s.off, policy |-> s.policy]

\* MSG_ADD_RULE, in the rules c.
Added(c, r) ==
  IF PolicyRule(r.base) \/ \E i \in DOMAIN c[r.base.chain] : c[r.base.chain][i].base = r.base
  THEN c ELSE [c EXCEPT ![r.base.chain] = Append(@, r)]

\* sendRulesSync: what the kernel has already, or passes over, does not end the transfer.
AddedAll(c, more) ==
  LET all[i \in 0..Len(more)] == IF i = 0 THEN c ELSE Added(all[i - 1], more[i])
  IN all[Len(more)]

\* MSG_UPDATE_RULE: the fields that are not NONE, of the rules with the key.
Change(r, s) ==
  IF r.base # s.base THEN r
  ELSE [r EXCEPT !.off = IF s.off = "NONE" THEN @ ELSE s.off,
                 !.policy = IF s.policy = "NONE" THEN @ ELSE s.policy]

Changed(c, s) == [d \in DOMAIN c |-> [i \in DOMAIN c[d] |-> Change(c[d][i], s)]]

\* Mutant of Without: the loop over the output chain is gone.
WithoutIn(c, base) == [c EXCEPT !["INPUT"] = Select(@, {r \in Rule : r.base # base})]

\* delete_rule()
Without(c, base) == [d \in DOMAIN c |-> Select(c[d], {r \in Rule : r.base # base})]

\* cmds::addRule.  The kernel does not answer to a policy_rule(); bfctl waits, and
\* takes the silence for success.
AddRule(line) ==
  LET s == ParseCmdArgs(line) IN
  /\ s.command = "append"
  /\ chain' = Added(chain, RuleOf(s))
  /\ Says(line, IF ~PolicyRule(s.base) /\ Held(s.base) THEN "have" ELSE "added")
  /\ UNCHANGED chainPolicy

\* cmds::updateRule
UpdateRule(line) ==
  LET s == ParseCmdArgs(line) IN
  /\ s.command = "update"
  /\ chain' = Changed(chain, s)
  /\ Says(line, IF Held(s.base) THEN "updated" ELSE "missing")
  /\ UNCHANGED chainPolicy

\* cmds::deleteRule
DeleteRule(line) ==
  LET s == ParseCmdArgs(line) IN
  /\ s.command = "delete"
  /\ chain' = Without(chain, s.base)
  /\ Says(line, IF Held(s.base) THEN "deleted" ELSE "missing")
  /\ UNCHANGED chainPolicy

\* delete_rules() does not ask for the chain.
DeleteRules(line) ==
  /\ ParseCmdArgs(line).command = "flush"
  /\ chain' = [c \in DOMAIN chain |-> <<>>]
  /\ Says(line, "")
  /\ UNCHANGED chainPolicy

\* set_chain_policy()
PoliciesWith(c, policy) == [d \in Chain |-> IF c \in {d, "ALL"} THEN policy ELSE chainPolicy[d]]

\* cmds::setChainPolicy
ChainPolicy(line) ==
  LET s == ParseCmdArgs(line) IN
  /\ s.command = "policy"
  /\ chainPolicy' = PoliciesWith(s.base.chain, s.policy)
  /\ Says(line, "policy")
  /\ UNCHANGED chain

\* loadFromFile
LoadFromFile(line) ==
  LET s == ParseCmdArgs(line) IN
  /\ s.command = "file"
  /\ chain' = IF s.file \in DOMAIN File THEN AddedAll(chain, File[s.file]) ELSE chain
  /\ Says(line, "")
  /\ UNCHANGED chainPolicy

PrintHelp(line) ==
  /\ ParseCmdArgs(line).command = "help"
  /\ Says(line, "help")
  /\ UNCHANGED <<chain, chainPolicy>>

\* Mutant of FrPattern: the protocol is not compared.
FrPatternAnyProto(r, s) ==
  /\ s.base.chain \in {"NONE", r.base.chain}
  /\ s.base.src_port \in {0, r.base.src_port} /\ s.base.dst_port \in {0, r.base.dst_port}
  /\ s.base.s_addr \in {Zero, r.base.s_addr} /\ s.base.d_addr \in {Zero, r.base.d_addr}
  /\ s.off \in {"NO", r.off} /\ s.policy \in {"DROP", r.policy}

\* fr_pattern: zero is any, also where zero means NO or DROP.
FrPattern(r, s) ==
  /\ s.base.chain \in {"NONE", r.base.chain} /\ s.base.proto \in {"UNSET", r.base.proto}
  /\ s.base.src_port \in {0, r.base.src_port} /\ s.base.dst_port \in {0, r.base.dst_port}
  /\ s.base.s_addr \in {Zero, r.base.s_addr} /\ s.base.d_addr \in {Zero, r.base.d_addr}
  /\ s.off \in {"NO", r.off} /\ s.policy \in {"DROP", r.policy}

\* What list_rules sends for a pattern: all rules if its chain is ALL, and those of
\* INPUT before those of OUTPUT.
Sent(s) ==
  Select(chain["INPUT"] \o chain["OUTPUT"], {r \in Rule : s.base.chain = "ALL" \/ FrPattern(r, s)})

\* The names that are printed; a protocol that has none of its own is "NONE", "ALL" too.
ProtoName(proto) == IF proto = "NOTEXIST" THEN "ALL" ELSE IF proto \in {"TCP", "UDP"} THEN proto ELSE "NONE"
ChainName(c) == IF c \in Chain \cup {"ALL"} THEN c ELSE "NONE"
PolicyName(policy) == IF policy \in Policy THEN policy ELSE "NONE"
SwitchName(off) == IF off \in {"NO", "YES"} THEN off ELSE "NONE"

Printed(r) ==
  [base |-> [r.base EXCEPT !.chain = ChainName(@), !.proto = ProtoName(@)],
   off |-> SwitchName(r.off), policy |-> PolicyName(r.policy)]

\* The rules of a chain as they are printed: out of those that came.
Shown(sent, c) ==
  LET own == Select(sent, {r \in Rule : r.base.chain = c}) IN [i \in DOMAIN own |-> Printed(own[i])]

\* cmds::listRules sorts what it got by chains again, and prints the chains asked for.
ListRules(line) ==
  LET s == ParseCmdArgs(line) IN
  /\ s.command = "list"
  /\ seen' = [what |-> "listing", line |-> line,
              shown |-> [c \in {d \in Chain : Covers(s.base.chain, d)} |->
                           [policy |-> PolicyName(chainPolicy[c]), rules |-> Shown(Sent(s), c)]]]
  /\ UNCHANGED <<chain, chainPolicy>>

-----------------------------------------------------------------------------
Init ==
  /\ chain = [c \in Chain \cup {"ALL"} |-> <<>>]
  /\ chainPolicy = [c \in Chain |-> "ACCEPT"]
  /\ seen = [what |-> "nothing"]
  /\ given = [rules |-> <<>>, policy |-> [c \in Chain |-> "ACCEPT"]]

\* processCommand
ProcessCommand(line) ==
  \/ AddRule(line) \/ UpdateRule(line) \/ DeleteRule(line) \/ DeleteRules(line)
  \/ ChainPolicy(line) \/ LoadFromFile(line) \/ PrintHelp(line) \/ ListRules(line)

Next ==
  \/ \E line \in Line : ProcessCommand(line) /\ Remember(line)
  \/ \E c \in Chain, p \in Packet : HookFunc(c, p)

Spec == Init /\ [][Next]_vars

-----------------------------------------------------------------------------
(* Properties.                                                             *)

\* A packet fits a rule if it has everything that the rule names.
Means(base, p) ==
  /\ base.proto = p.proto
  /\ base.src_port \in {0, p.source} /\ base.dst_port \in {0, p.dest}
  /\ base.s_addr \in {Zero, p.saddr} /\ base.d_addr \in {Zero, p.daddr}

\* A packet gets the policy of the first rule typed that is on and that it fits,
\* else the one typed for its chain, however the rules were changed before, and
\* whatever was listed, refused or loaded in between.
VerdictAsTyped ==
  seen.what = "verdict" =>
    LET meant == {i \in DOMAIN given.rules :
                    /\ given.rules[i].base.chain = seen.chain /\ given.rules[i].off = "NO"
                    /\ Means(given.rules[i].base, seen.packet)}
    IN seen.verdict = IF meant = {} THEN given.policy[seen.chain] ELSE given.rules[Min(meant)].policy

\* A rule has everything that a line names.
HasNamed(line, r) ==
  /\ r.base.proto = Given(line, "proto", r.base.proto)
  /\ r.base.src_port = Given(line, "sport", r.base.src_port)
  /\ r.base.dst_port = Given(line, "dport", r.base.dst_port)
  /\ r.base.s_addr = Given(line, "source", r.base.s_addr)
  /\ r.base.d_addr = Given(line, "destination", r.base.d_addr)
  /\ r.off = Given(line, "off", r.off)
  /\ r.policy = Given(line, "jump", r.policy)

\* bfctl --list shows of each chain asked for, in the order in which they were
\* typed, the rules that have what the line names, and the chain's policy.
ListingAsTyped ==
  seen.what = "listing" =>
    LET line == seen.line IN
    \A c \in Chain :
      Covers(line[1].arg, c) <=>
         /\ c \in DOMAIN seen.shown
         /\ seen.shown[c] =
              [policy |-> given.policy[c],
               rules |-> Select(given.rules, {r \in Rule : r.base.chain = c /\ HasNamed(line, r)})]

\* What bfctl prints of its command is so: the rule is there with what was typed, or
\* has what an update names, or was there before, or is gone.
ReportIsTrue ==
  seen.what = "typed" =>
    LET r == Asked(seen.line)
        there == UNION {ToSet(chain[c]) : c \in DOMAIN chain}
    IN CASE seen.said = "added" -> r \in there
         [] seen.said = "updated" -> \E x \in there : x.base = r.base /\ HasNamed(seen.line, x)
         [] seen.said = "have" -> \E x \in there : x.base = r.base
         [] seen.said \in {"deleted", "missing"} -> \A x \in there : x.base # r.base
         [] OTHER -> TRUE

-----------------------------------------------------------------------------
(* What the theorems suppose of the lines and files, each of them because  *)
(* bfctl or the kernel otherwise does not do what the help says.           *)

\* bfctl tells a malformed address and goes on without it, it cuts ports to 16 bits,
\* and it takes an --off for the --proto that a line must have.
WellFormed(line) ==
  /\ \A i \in DOMAIN line :
       /\ line[i].opt \in {"source", "destination"} => line[i].arg \in Address
       /\ line[i].opt \in {"sport", "dport"} => line[i].arg \in Port
  /\ line[1].opt \in {"append", "delete"} /\ At(line, "proto") = {} => At(line, "off") = {}

\* The kernel flushes all chains, whichever is named; a --jump changes what a --policy
\* says; and an update gives what it does not name the value 0, which is NO or DROP
\* (parse_cmd_args clears the rule), against the "or/and" of the help.
Obeyed(line) ==
  /\ line[1].opt = "update" => At(line, "off") # {} /\ At(line, "jump") # {}
  /\ line[1].opt = "flush" => line[1].arg \notin Chain
  /\ line[1].opt = "policy" => At(line, "jump") = {}

\* hook_func compares both addresses of a rule with the source of the packet, byte
\* by byte the other way round, or cut to 16 bits.
Unaddressed(line) == line[1].opt = "append" => At(line, "source") = {} /\ At(line, "destination") = {}

\* fr_pattern takes a zero, NO and DROP for any, the pattern of all chains has no other
\* part, and the protocol ALL is printed as NONE.
Listed(line) ==
  /\ line[1].opt = "append" =>
       \A i \in At(line, "proto") : line[i].arg # "ALL"
  /\ line[1].opt = "list" =>
       /\ line[1].arg = "ALL" => Len(line) = 1
       /\ \A i \in DOMAIN line \ {1} : line[i].arg # Default[line[i].opt]

FileRule == UNION {ToSet(File[name]) : name \in DOMAIN File}

WellFormedLines == \A line \in Line : WellFormed(line)

\* The kernel passes over a policy_rule() in a file.
ObeyedLines ==
  /\ \A line \in Line : WellFormed(line) /\ Obeyed(line)
  /\ \A r \in FileRule : ~PolicyRule(r.base)

UnaddressedLines ==
  /\ \A line \in Line : Unaddressed(line)
  /\ \A r \in FileRule : r.base.s_addr = Zero /\ r.base.d_addr = Zero

ListedLines ==
  /\ \A line \in Line : Listed(line)
  /\ \A r \in FileRule : r.base.proto \in {"TCP", "UDP"}
=============================================================================
