--------------------------------- MODULE BfCtl ---------------------------------
(***************************************************************************)
(* What bfctl makes of a command line (bfctl/utils.cpp): the options are   *)
(* taken one after the other, each overwrites a part of one rule, and the  *)
(* last one that sets the command wins, errors included.                   *)
(*                                                                         *)
(* A line is the sequence of what getopt_long() yields, each option by its *)
(* long name.  --source and --destination have an address; what inet_pton  *)
(* does not take is Malformed.  --sport and --dport have the number that   *)
(* atoi makes of their word.  The other options have a name; next is the   *)
(* word after it, "" if there is none or it is an option.  The letter -j   *)
(* is missing here: getopt is told that it has no argument (utils.cpp:62), *)
(* and get_policy compares NULL with a name.                               *)
(***************************************************************************)
EXTENDS Naturals, Sequences, SequencesExt

Byte == 0..255
Address == [1..4 -> Byte]
Zero == <<0, 0, 0, 0>>
Malformed == <<>>
Port == 0..2^16 - 1

\* "UNSET" is what memset leaves, "NOTEXIST" what get_proto cannot find.
Base == [chain : {"NONE", "ALL", "INPUT", "OUTPUT"}, proto : {"UNSET", "ALL", "TCP", "UDP", "NOTEXIST"},
         src_port : Port, dst_port : Port, s_addr : Address, d_addr : Address]
NoBase == [chain |-> "NONE", proto |-> "UNSET", src_port |-> 0, dst_port |-> 0,
           s_addr |-> Zero, d_addr |-> Zero]

\* policy_rule()
PolicyRule(base) == [base EXCEPT !.chain = "NONE"] = NoBase

-----------------------------------------------------------------------------
GetChain(w) == IF w \in {"ALL", "INPUT", "OUTPUT"} THEN w ELSE "NONE"
GetProto(w) == IF w \in {"ALL", "TCP", "UDP"} THEN w ELSE "NOTEXIST"
GetPolicy(w) == IF w \in {"ACCEPT", "DROP"} THEN w ELSE "NONE"
GetSwitch(w) == IF w \in {"NO", "YES"} THEN w ELSE "NONE"

\* A parsed line: the command, the rule, and whether --proto or --off was there.
Blank == [command |-> "help", base |-> NoBase, off |-> "NO", policy |-> "DROP",
          file |-> "", mandatory |-> FALSE]

Refuse(s, wrong) == IF wrong THEN [s EXCEPT !.command = "help"] ELSE s

\* --list, --append, --delete, --flush, --update
WithCommand(s, command, chain) ==
  Refuse([s EXCEPT !.command = command, !.base.chain = chain], chain = "NONE")

WithFile(s, name) == [s EXCEPT !.command = "file", !.file = name]

\* A malformed address is told, and passed over.
WithSource(s, a) == IF a = Malformed THEN s ELSE [s EXCEPT !.base.s_addr = a]
WithDestination(s, a) == IF a = Malformed THEN s ELSE [s EXCEPT !.base.d_addr = a]

WithSport(s, n) == [s EXCEPT !.base.src_port = n % 2^16]
WithDport(s, n) == [s EXCEPT !.base.dst_port = n % 2^16]

WithOff(s, off) == Refuse([s EXCEPT !.off = off, !.mandatory = TRUE], off = "NONE")

WithProto(s, proto) ==
  Refuse([s EXCEPT !.base.proto = proto, !.mandatory = TRUE], proto = "NOTEXIST")

WithJump(s, policy) == Refuse([s EXCEPT !.policy = policy], policy = "NONE")

\* --policy takes the next word, too; without one it sets no command.
WithPolicy(s, chain, next) ==
  LET t == [s EXCEPT !.base.chain = chain] IN
  IF chain = "NONE" THEN Refuse(t, TRUE)
  ELSE IF next = "" THEN t
  ELSE Refuse([t EXCEPT !.policy = GetPolicy(next), !.command = "policy"], GetPolicy(next) = "NONE")

Step(s, o) ==
  CASE o.opt \in {"list", "append", "delete", "flush", "update"} -> WithCommand(s, o.opt, GetChain(o.arg))
    [] o.opt = "file" -> WithFile(s, o.arg)
    [] o.opt = "policy" -> WithPolicy(s, GetChain(o.arg), o.next)
    [] o.opt = "source" -> WithSource(s, o.arg)
    [] o.opt = "destination" -> WithDestination(s, o.arg)
    [] o.opt = "sport" -> WithSport(s, o.arg)
    [] o.opt = "dport" -> WithDport(s, o.arg)
    [] o.opt = "proto" -> WithProto(s, GetProto(o.arg))
    [] o.opt = "off" -> WithOff(s, GetSwitch(o.arg))
    [] o.opt = "jump" -> WithJump(s, GetPolicy(o.arg))

ParseCmdArgs(line) ==
  LET parsed[i \in 0..Len(line)] == IF i = 0 THEN Blank ELSE Step(parsed[i - 1], line[i])
      s == parsed[Len(line)]
  IN Refuse(s, ~s.mandatory /\ s.command \in {"append", "delete"})
=============================================================================
