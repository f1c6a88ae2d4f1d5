----------------------------- MODULE BfPacketProofs -----------------------------
(***************************************************************************)
(* Theorems about what becomes of a packet.  BfFilter: bfctl reports what  *)
(* it has done, its listings and the verdicts of hook_func follow what was *)
(* typed.  BfLog: the module unloads in the right order on any number of   *)
(* processors, and on one processor the log is in order and what is on it  *)
(* is freed once, whatever the number of packets and subscribers.          *)
(***************************************************************************)
EXTENDS BfFilter, BfLog, WellFoundedInduction, SequenceTheorems, TLAPS

-----------------------------------------------------------------------------
(* Induction, over sets instead of predicates.                             *)

(* A set of naturals has a least element. *)
LEMMA LeastNatural ==
  ASSUME NEW T, T \subseteq Nat, T # {}
  PROVE  \E x \in T : \A y \in T : x <= y
<1> DEFINE R == {p \in Nat \X Nat : p[1] < p[2]}
<1>1. IsWellFoundedOn(R, Nat)
  BY NatLessThanWellFounded DEF OpToRel
<1>2. \E x \in T : \A y \in T : ~ (<<y, x>> \in R)
  <2> HIDE DEF R
  <2> QED BY <1>1, WFMin
<1>3. \A x \in Nat, y \in Nat : y < x => <<y, x>> \in R
  OBVIOUS
<1>4. PICK x \in T : \A y \in T : ~ (<<y, x>> \in R)
  BY <1>2
<1> HIDE DEF R
<1>5. \A y \in T : ~(y < x)
  BY <1>3, <1>4
<1>6. \A y \in T : x <= y
  BY <1>5, x \in Nat
<1> QED BY <1>6

LEMMA NatBySets ==
  ASSUME NEW T, 0 \in T, \A n \in Nat : n \in T => n + 1 \in T
  PROVE  \A n \in Nat : n \in T
<1> DEFINE U == {n \in Nat : n \notin T}
<1>1. SUFFICES ASSUME U # {}
               PROVE  FALSE
  OBVIOUS
<1>2. U \subseteq Nat
  OBVIOUS
<1>3. PICK x \in U : \A y \in U : x <= y
  <2> HIDE DEF U
  <2> QED BY <1>1, <1>2, LeastNatural
<1>4. x \in Nat /\ x \notin T /\ x # 0
  OBVIOUS
<1>5. x - 1 \in Nat /\ x - 1 \notin U
  <2>1. x - 1 \in Nat /\ ~(x <= x - 1)
    BY <1>4
  <2> HIDE DEF U
  <2> QED BY <1>3, <2>1
<1>6. x - 1 \in T
  BY <1>5
<1>7. (x - 1) + 1 = x
  BY <1>4
<1> QED BY <1>4, <1>5, <1>6, <1>7

LEMMA SeqBySets ==
  ASSUME NEW S, NEW Q, << >> \in Q,
         \A s \in Seq(S), e \in S : s \in Q => Append(s, e) \in Q
  PROVE  \A s \in Seq(S) : s \in Q
<1> DEFINE T == {n \in Nat : \A s \in Seq(S) : Len(s) = n => s \in Q}
<1>1. 0 \in T
  <2>1. \A s \in Seq(S) : Len(s) = 0 => s = << >>
    OBVIOUS
  <2> QED BY <2>1
<1>2. \A n \in Nat : n \in T => n + 1 \in T
  <2>1. SUFFICES ASSUME NEW n \in Nat, n \in T, NEW s \in Seq(S), Len(s) = n + 1
                 PROVE  s \in Q
    OBVIOUS
  <2>2. SubSeq(s, 1, n) \in Seq(S) /\ Len(SubSeq(s, 1, n)) = n
    BY <2>1
  <2>3. SubSeq(s, 1, n) \in Q
    BY <2>1, <2>2
  <2>4. s[n + 1] \in S
    BY <2>1
  <2>5. s = Append(SubSeq(s, 1, n), s[n + 1])
    BY <2>1, <2>2, <2>4
  <2>6. Append(SubSeq(s, 1, n), s[n + 1]) \in Q
    BY <2>2, <2>3, <2>4
  <2> QED BY <2>5, <2>6
<1>3. \A n \in Nat : n \in T
  <2> HIDE DEF T
  <2> QED BY <1>1, <1>2, NatBySets
<1> QED BY <1>3

-----------------------------------------------------------------------------
(* What parse_cmd_args makes of a line.                                    *)

\* The last of the first n options that is called opt.
Among(line, n, opt) == {i \in 1..n : line[i].opt = opt}
LastOf(line, n, opt, default) ==
  IF Among(line, n, opt) = {} THEN default ELSE line[Max(Among(line, n, opt))].arg

LEMMA LastStep ==
  ASSUME NEW line, NEW n \in Nat, NEW opt, NEW default
  PROVE  LastOf(line, n + 1, opt, default) =
           IF line[n + 1].opt = opt THEN line[n + 1].arg ELSE LastOf(line, n, opt, default)
<1>1. CASE line[n + 1].opt = opt
  <2>1. PICK A : A = Among(line, n + 1, opt)
    OBVIOUS
  <2>2. n + 1 \in A /\ \A i \in A : i \in Nat /\ n + 1 >= i
    BY <1>1, <2>1 DEF Among
  <2>3. Max(A) = n + 1
    <3>1. \A x \in A : (\A y \in A : x >= y) => x = n + 1
      BY <2>2
    <3> QED BY <2>2, <3>1 DEF Max
  <2> QED BY <1>1, <2>1, <2>2, <2>3 DEF LastOf
<1>2. CASE line[n + 1].opt # opt
  <2>1. \A i : i \in 1..(n + 1) <=> i \in 1..n \/ i = n + 1
    OBVIOUS
  <2>2. Among(line, n + 1, opt) = Among(line, n, opt)
    BY <1>2, <2>1 DEF Among
  <2> QED BY <1>2, <2>2 DEF LastOf
<1> QED BY <1>1, <1>2

LEMMA LastNone ==
  ASSUME NEW line, NEW opt, NEW default
  PROVE  LastOf(line, 0, opt, default) = default
BY DEF LastOf, Among

LEMMA LastFirst ==
  ASSUME NEW line, NEW opt, NEW default, line[1].opt # opt
  PROVE  LastOf(line, 1, opt, default) = default
<1>1. LastOf(line, 0 + 1, opt, default) = LastOf(line, 0, opt, default)
  <2>1. 0 \in Nat /\ 0 + 1 = 1
    OBVIOUS
  <2> QED BY <2>1, LastStep
<1>2. 0 + 1 = 1
  OBVIOUS
<1> QED BY <1>1, <1>2, LastNone

\* The options of which the parser tells the help.
Refused(o) ==
  \/ o.opt \in Command \ {"file"} /\ o.arg \notin {"ALL", "INPUT", "OUTPUT"}
  \/ o.opt = "policy" /\ o.next \notin Policy
  \/ o.opt = "proto" /\ o.arg \notin {"ALL", "TCP", "UDP"}
  \/ o.opt = "off" /\ o.arg \notin {"NO", "YES"}
  \/ o.opt = "jump" /\ o.arg \notin Policy

\* A rule put together from its parts, and the state of the parser.
BaseOf(c, proto, sport, dport, s, d) ==
  [chain |-> c, proto |-> proto, src_port |-> sport, dst_port |-> dport, s_addr |-> s, d_addr |-> d]
StateOf(command, base, off, policy, name, mandatory) ==
  [command |-> command, base |-> base, off |-> off, policy |-> policy, file |-> name, mandatory |-> mandatory]

\* The state after the first n options, none of them refused.
After(line, n) ==
  LET command == line[1].opt IN
  StateOf(command,
          BaseOf(IF command = "file" THEN "NONE" ELSE line[1].arg, LastOf(line, n, "proto", "UNSET"),
                 LastOf(line, n, "sport", 0), LastOf(line, n, "dport", 0),
                 LastOf(line, n, "source", Zero), LastOf(line, n, "destination", Zero)),
          LastOf(line, n, "off", "NO"),
          LastOf(line, n, "jump", IF command = "policy" THEN line[1].next ELSE "DROP"),
          IF command = "file" THEN line[1].arg ELSE "",
          Among(line, n, "proto") # {} \/ Among(line, n, "off") # {})

ParsedUpTo(line, n, s) ==
  IF \E i \in 1..n : Refused(line[i])
  THEN s.command = "help" /\ DOMAIN s = DOMAIN Blank
  ELSE s = After(line, n)

LEMMA StepIs ==
  ASSUME NEW s, NEW o
  PROVE  /\ o.opt \in {"list", "append", "delete", "flush", "update"} =>
              Step(s, o) = WithCommand(s, o.opt, GetChain(o.arg))
         /\ o.opt = "file" => Step(s, o) = WithFile(s, o.arg)
         /\ o.opt = "policy" => Step(s, o) = WithPolicy(s, GetChain(o.arg), o.next)
         /\ o.opt = "source" => Step(s, o) = WithSource(s, o.arg)
         /\ o.opt = "destination" => Step(s, o) = WithDestination(s, o.arg)
         /\ o.opt = "sport" => Step(s, o) = WithSport(s, o.arg)
         /\ o.opt = "dport" => Step(s, o) = WithDport(s, o.arg)
         /\ o.opt = "proto" => Step(s, o) = WithProto(s, GetProto(o.arg))
         /\ o.opt = "off" => Step(s, o) = WithOff(s, GetSwitch(o.arg))
         /\ o.opt = "jump" => Step(s, o) = WithJump(s, GetPolicy(o.arg))
BY DEF Step

LEMMA PortFits ==
  ASSUME NEW n \in Port
  PROVE  n % 2^16 = n
BY DEF Port

LEMMA NotMalformed ==
  ASSUME NEW a \in Address
  PROVE  a # Malformed
<1>1. 1 \in DOMAIN a
  BY DEF Address
<1>2. DOMAIN Malformed = {}
  BY DEF Malformed
<1> QED BY <1>1, <1>2

LEMMA AmongStep ==
  ASSUME NEW line, NEW n \in Nat, NEW opt
  PROVE  Among(line, n + 1, opt) # {} <=> Among(line, n, opt) # {} \/ line[n + 1].opt = opt
<1>1. \A i : i \in 1..(n + 1) <=> i \in 1..n \/ i = n + 1
  OBVIOUS
<1> QED BY <1>1 DEF Among

\* The options after the command leave it what it is, unless they are refused.
LEMMA AfterStep ==
  ASSUME NEW line, NEW n \in Nat, NEW o, o = line[n + 1], o.opt \in Option, ~Refused(o),
         o.opt \in {"source", "destination"} => o.arg \in Address,
         o.opt \in {"sport", "dport"} => o.arg \in Port,
         NEW s, s = After(line, n)
  PROVE  Step(s, o) = After(line, n + 1)
<1>1. PICK command : command = line[1].opt
  OBVIOUS
<1>2. PICK c : c = IF command = "file" THEN "NONE" ELSE line[1].arg
  OBVIOUS
<1>3. PICK name : name = IF command = "file" THEN line[1].arg ELSE ""
  OBVIOUS
<1>4. PICK drop : drop = IF command = "policy" THEN line[1].next ELSE "DROP"
  OBVIOUS
<1> DEFINE
  State(m) ==
    StateOf(command,
            BaseOf(c, LastOf(line, m, "proto", "UNSET"), LastOf(line, m, "sport", 0), LastOf(line, m, "dport", 0),
                   LastOf(line, m, "source", Zero), LastOf(line, m, "destination", Zero)),
            LastOf(line, m, "off", "NO"), LastOf(line, m, "jump", drop), name,
            Among(line, m, "proto") # {} \/ Among(line, m, "off") # {})
<1>5. After(line, n) = State(n) /\ After(line, n + 1) = State(n + 1)
  BY <1>1, <1>2, <1>3, <1>4, Zenon DEF After
<1>6. PICK proto, sport, dport, source, destination, off, jump, mandatory :
        /\ proto = LastOf(line, n, "proto", "UNSET") /\ sport = LastOf(line, n, "sport", 0)
        /\ dport = LastOf(line, n, "dport", 0) /\ source = LastOf(line, n, "source", Zero)
        /\ destination = LastOf(line, n, "destination", Zero)
        /\ off = LastOf(line, n, "off", "NO") /\ jump = LastOf(line, n, "jump", drop)
        /\ mandatory = (Among(line, n, "proto") # {} \/ Among(line, n, "off") # {})
  OBVIOUS
<1>7. s = StateOf(command, BaseOf(c, proto, sport, dport, source, destination), off, jump, name, mandatory)
  BY <1>5, <1>6, Zenon
<1>8. PICK proto1, sport1, dport1, source1, destination1, off1, jump1, mandatory1 :
        /\ proto1 = LastOf(line, n + 1, "proto", "UNSET") /\ sport1 = LastOf(line, n + 1, "sport", 0)
        /\ dport1 = LastOf(line, n + 1, "dport", 0) /\ source1 = LastOf(line, n + 1, "source", Zero)
        /\ destination1 = LastOf(line, n + 1, "destination", Zero)
        /\ off1 = LastOf(line, n + 1, "off", "NO") /\ jump1 = LastOf(line, n + 1, "jump", drop)
        /\ mandatory1 = (Among(line, n + 1, "proto") # {} \/ Among(line, n + 1, "off") # {})
  OBVIOUS
<1>9. After(line, n + 1) =
        StateOf(command, BaseOf(c, proto1, sport1, dport1, source1, destination1), off1, jump1, name, mandatory1)
  BY <1>5, <1>8, Zenon
<1>10. /\ proto1 = IF o.opt = "proto" THEN o.arg ELSE proto
       /\ sport1 = IF o.opt = "sport" THEN o.arg ELSE sport
       /\ dport1 = IF o.opt = "dport" THEN o.arg ELSE dport
       /\ source1 = IF o.opt = "source" THEN o.arg ELSE source
       /\ destination1 = IF o.opt = "destination" THEN o.arg ELSE destination
       /\ off1 = IF o.opt = "off" THEN o.arg ELSE off
       /\ jump1 = IF o.opt = "jump" THEN o.arg ELSE jump
  BY <1>6, <1>8, LastStep
<1>11. /\ mandatory \in BOOLEAN /\ mandatory1 \in BOOLEAN
       /\ mandatory1 <=> mandatory \/ o.opt \in {"proto", "off"}
  <2>1. mandatory \in BOOLEAN /\ mandatory1 \in BOOLEAN
    BY <1>6, <1>8, Zenon
  <2>2. mandatory <=> Among(line, n, "proto") # {} \/ Among(line, n, "off") # {}
    BY <1>6, Zenon
  <2>3. mandatory1 <=> Among(line, n + 1, "proto") # {} \/ Among(line, n + 1, "off") # {}
    BY <1>8, Zenon
  <2>4. /\ Among(line, n + 1, "proto") # {} <=> Among(line, n, "proto") # {} \/ o.opt = "proto"
        /\ Among(line, n + 1, "off") # {} <=> Among(line, n, "off") # {} \/ o.opt = "off"
    BY AmongStep
  <2> QED BY ONLY <2>1, <2>2, <2>3, <2>4
<1>12. mandatory1 = IF o.opt \in {"proto", "off"} THEN TRUE ELSE mandatory
  BY ONLY <1>11
<1>13. o.opt = "source" =>
         Step(s, o) =
           StateOf(command, BaseOf(c, proto, sport, dport, o.arg, destination), off, jump, name, mandatory)
  <2>1. o.arg \in Address => o.arg # Malformed
    BY NotMalformed
  <2>2. o.arg # Malformed =>
          WithSource(s, o.arg) =
            StateOf(command, BaseOf(c, proto, sport, dport, o.arg, destination), off, jump, name, mandatory)
    BY ONLY <1>7 DEF StateOf, BaseOf, WithSource
  <2>3. o.opt = "source" => Step(s, o) = WithSource(s, o.arg)
    BY StepIs
  <2> QED BY <2>1, <2>2, <2>3
<1>14. o.opt = "destination" =>
         Step(s, o) =
           StateOf(command, BaseOf(c, proto, sport, dport, source, o.arg), off, jump, name, mandatory)
  <2>1. o.arg \in Address => o.arg # Malformed
    BY NotMalformed
  <2>2. o.arg # Malformed =>
          WithDestination(s, o.arg) =
            StateOf(command, BaseOf(c, proto, sport, dport, source, o.arg), off, jump, name, mandatory)
    BY ONLY <1>7 DEF StateOf, BaseOf, WithDestination
  <2>3. o.opt = "destination" => Step(s, o) = WithDestination(s, o.arg)
    BY StepIs
  <2> QED BY <2>1, <2>2, <2>3
<1>15. o.opt = "sport" =>
         Step(s, o) =
           StateOf(command, BaseOf(c, proto, o.arg, dport, source, destination), off, jump, name, mandatory)
  <2>1. [s EXCEPT !.base.src_port = o.arg] =
          StateOf(command, BaseOf(c, proto, o.arg, dport, source, destination), off, jump, name, mandatory)
    BY ONLY <1>7 DEF StateOf, BaseOf
  <2>2. o.arg \in Port => WithSport(s, o.arg) = [s EXCEPT !.base.src_port = o.arg]
    BY ONLY PortFits DEF WithSport
  <2>3. o.opt = "sport" => Step(s, o) = WithSport(s, o.arg)
    BY StepIs
  <2> QED BY <2>1, <2>2, <2>3
<1>16. o.opt = "dport" =>
         Step(s, o) =
           StateOf(command, BaseOf(c, proto, sport, o.arg, source, destination), off, jump, name, mandatory)
  <2>1. [s EXCEPT !.base.dst_port = o.arg] =
          StateOf(command, BaseOf(c, proto, sport, o.arg, source, destination), off, jump, name, mandatory)
    BY ONLY <1>7 DEF StateOf, BaseOf
  <2>2. o.arg \in Port => WithDport(s, o.arg) = [s EXCEPT !.base.dst_port = o.arg]
    BY ONLY PortFits DEF WithDport
  <2>3. o.opt = "dport" => Step(s, o) = WithDport(s, o.arg)
    BY StepIs
  <2> QED BY <2>1, <2>2, <2>3
<1>17. o.opt = "proto" =>
         Step(s, o) =
           StateOf(command, BaseOf(c, o.arg, sport, dport, source, destination), off, jump, name, TRUE)
  <2>1. o.opt = "proto" => GetProto(o.arg) = o.arg /\ o.arg # "NOTEXIST"
    BY DEF Refused, GetProto
  <2>2. o.arg # "NOTEXIST" =>
          WithProto(s, o.arg) =
            StateOf(command, BaseOf(c, o.arg, sport, dport, source, destination), off, jump, name, TRUE)
    BY ONLY <1>7 DEF StateOf, BaseOf, WithProto, Refuse
  <2>3. o.opt = "proto" => Step(s, o) = WithProto(s, GetProto(o.arg))
    BY StepIs
  <2> QED BY <2>1, <2>2, <2>3
<1>18. o.opt = "off" =>
         Step(s, o) =
           StateOf(command, BaseOf(c, proto, sport, dport, source, destination), o.arg, jump, name, TRUE)
  <2>1. o.opt = "off" => GetSwitch(o.arg) = o.arg /\ o.arg # "NONE"
    BY DEF Refused, GetSwitch
  <2>2. o.arg # "NONE" =>
          WithOff(s, o.arg) =
            StateOf(command, BaseOf(c, proto, sport, dport, source, destination), o.arg, jump, name, TRUE)
    BY ONLY <1>7 DEF StateOf, BaseOf, WithOff, Refuse
  <2>3. o.opt = "off" => Step(s, o) = WithOff(s, GetSwitch(o.arg))
    BY StepIs
  <2> QED BY <2>1, <2>2, <2>3
<1>19. o.opt = "jump" =>
         Step(s, o) =
           StateOf(command, BaseOf(c, proto, sport, dport, source, destination), off, o.arg, name, mandatory)
  <2>1. o.opt = "jump" => GetPolicy(o.arg) = o.arg /\ o.arg # "NONE"
    BY DEF Refused, GetPolicy, Policy
  <2>2. o.arg # "NONE" =>
          WithJump(s, o.arg) =
            StateOf(command, BaseOf(c, proto, sport, dport, source, destination), off, o.arg, name, mandatory)
    BY ONLY <1>7 DEF StateOf, BaseOf, WithJump, Refuse
  <2>3. o.opt = "jump" => Step(s, o) = WithJump(s, GetPolicy(o.arg))
    BY StepIs
  <2> QED BY <2>1, <2>2, <2>3
<1>20. o.opt \in {"source", "destination", "sport", "dport", "proto", "off", "jump"}
  BY DEF Option
<1> HIDE DEF State
<1> QED BY ONLY <1>9, <1>10, <1>12, <1>13, <1>14, <1>15, <1>16, <1>17, <1>18, <1>19, <1>20

LEMMA BlankDomain ==
  /\ Blank = StateOf("help", BaseOf("NONE", "UNSET", 0, 0, Zero, Zero), "NO", "DROP", "", FALSE)
  /\ DOMAIN Blank = {"command", "base", "off", "policy", "file", "mandatory"}
BY DEF Blank, NoBase, StateOf, BaseOf

\* A line that has been refused stays so; a refused option refuses it.
LEMMA RefusedStep ==
  ASSUME NEW s, NEW o, DOMAIN s = DOMAIN Blank, o.opt \in Option, s.command = "help" \/ Refused(o)
  PROVE  Step(s, o).command = "help" /\ DOMAIN Step(s, o) = DOMAIN Blank
<1>1. "command" \in DOMAIN s /\ "policy" \in DOMAIN s
  BY BlankDomain
<1>2. ASSUME o.opt = "source" PROVE Step(s, o).command = "help" /\ DOMAIN Step(s, o) = DOMAIN Blank
  <2>1. Step(s, o) = WithSource(s, o.arg) /\ s.command = "help"
    BY <1>2, StepIs DEF Refused, Command
  <2> QED BY <1>1, <2>1 DEF WithSource
<1>3. ASSUME o.opt = "destination" PROVE Step(s, o).command = "help" /\ DOMAIN Step(s, o) = DOMAIN Blank
  <2>1. Step(s, o) = WithDestination(s, o.arg) /\ s.command = "help"
    BY <1>3, StepIs DEF Refused, Command
  <2> QED BY <1>1, <2>1 DEF WithDestination
<1>4. ASSUME o.opt = "sport" PROVE Step(s, o).command = "help" /\ DOMAIN Step(s, o) = DOMAIN Blank
  <2>1. Step(s, o) = WithSport(s, o.arg) /\ s.command = "help"
    BY <1>4, StepIs DEF Refused, Command
  <2> QED BY <1>1, <2>1 DEF WithSport
<1>5. ASSUME o.opt = "dport" PROVE Step(s, o).command = "help" /\ DOMAIN Step(s, o) = DOMAIN Blank
  <2>1. Step(s, o) = WithDport(s, o.arg) /\ s.command = "help"
    BY <1>5, StepIs DEF Refused, Command
  <2> QED BY <1>1, <2>1 DEF WithDport
<1>6. ASSUME o.opt = "proto" PROVE Step(s, o).command = "help" /\ DOMAIN Step(s, o) = DOMAIN Blank
  <2>1. PICK z : z = [s EXCEPT !.base.proto = GetProto(o.arg), !.mandatory = TRUE]
    OBVIOUS
  <2>2. DOMAIN z = DOMAIN s /\ z.command = s.command
    BY <1>1, <2>1
  <2>3. Step(s, o) = IF GetProto(o.arg) = "NOTEXIST" THEN [z EXCEPT !.command = "help"] ELSE z
    BY <1>6, <2>1, StepIs, Zenon DEF WithProto, Refuse
  <2>4. Refused(o) => GetProto(o.arg) = "NOTEXIST"
    BY <1>6 DEF Refused, Command, GetProto
  <2> QED BY <1>1, <2>2, <2>3, <2>4
<1>7. ASSUME o.opt = "off" PROVE Step(s, o).command = "help" /\ DOMAIN Step(s, o) = DOMAIN Blank
  <2>1. PICK z : z = [s EXCEPT !.off = GetSwitch(o.arg), !.mandatory = TRUE]
    OBVIOUS
  <2>2. DOMAIN z = DOMAIN s /\ z.command = s.command
    BY <1>1, <2>1
  <2>3. Step(s, o) = IF GetSwitch(o.arg) = "NONE" THEN [z EXCEPT !.command = "help"] ELSE z
    BY <1>7, <2>1, StepIs, Zenon DEF WithOff, Refuse
  <2>4. Refused(o) => GetSwitch(o.arg) = "NONE"
    BY <1>7 DEF Refused, Command, GetSwitch
  <2> QED BY <1>1, <2>2, <2>3, <2>4
<1>8. ASSUME o.opt = "jump" PROVE Step(s, o).command = "help" /\ DOMAIN Step(s, o) = DOMAIN Blank
  <2>1. PICK z : z = [s EXCEPT !.policy = GetPolicy(o.arg)]
    OBVIOUS
  <2>2. DOMAIN z = DOMAIN s /\ z.command = s.command
    BY <1>1, <2>1
  <2>3. Step(s, o) = IF GetPolicy(o.arg) = "NONE" THEN [z EXCEPT !.command = "help"] ELSE z
    BY <1>8, <2>1, StepIs, Zenon DEF WithJump, Refuse
  <2>4. Refused(o) => GetPolicy(o.arg) = "NONE"
    BY <1>8 DEF Refused, Command, GetPolicy, Policy
  <2> QED BY <1>1, <2>2, <2>3, <2>4
<1> QED BY <1>2, <1>3, <1>4, <1>5, <1>6, <1>7, <1>8 DEF Option

LEMMA StateDomain ==
  ASSUME NEW command, NEW base, NEW off, NEW policy, NEW name, NEW mandatory
  PROVE  DOMAIN StateOf(command, base, off, policy, name, mandatory) = DOMAIN Blank
BY BlankDomain DEF StateOf

\* The first option is the command.
LEMMA FirstStep ==
  ASSUME NEW line, NEW o, o = line[1], o.opt \in Command
  PROVE  ParsedUpTo(line, 1, Step(Blank, o))
<1>3. (\E i \in 1..1 : Refused(line[i])) <=> Refused(o)
  OBVIOUS
<1>4. After(line, 1) =
        StateOf(o.opt, BaseOf(IF o.opt = "file" THEN "NONE" ELSE o.arg, "UNSET", 0, 0, Zero, Zero), "NO",
                IF o.opt = "policy" THEN o.next ELSE "DROP", IF o.opt = "file" THEN o.arg ELSE "", FALSE)
  <2>1. \A opt \in Option : o.opt # opt
    BY DEF Command, Option
  <2>2. \A opt \in Option : \A default : LastOf(line, 1, opt, default) = default
    BY <2>1, LastFirst
  <2>3. \A opt \in Option : Among(line, 1, opt) = {}
    BY <2>1 DEF Among
  <2>4. (Among(line, 1, "proto") # {} \/ Among(line, 1, "off") # {}) = FALSE
    BY <2>3 DEF Option
  <2>5. {"proto", "sport", "dport", "source", "destination", "off", "jump"} \subseteq Option
    BY DEF Option
  <2> QED BY <2>2, <2>4, <2>5, Zenon DEF After
<1>5. CASE o.opt \in {"list", "append", "delete", "flush", "update"}
  <2>1. Step(Blank, o) = WithCommand(Blank, o.opt, GetChain(o.arg))
    BY <1>5, StepIs
  <2>2. PICK c : c = GetChain(o.arg)
    OBVIOUS
  <2>3. PICK z : z = StateOf(o.opt, BaseOf(c, "UNSET", 0, 0, Zero, Zero), "NO", "DROP", "", FALSE)
    OBVIOUS
  <2>4. [Blank EXCEPT !.command = o.opt, !.base.chain = c] = z
    <3>1. PICK u : u = [Blank EXCEPT !.command = o.opt, !.base.chain = c]
      OBVIOUS
    <3>2. u = StateOf(o.opt, BaseOf(c, "UNSET", 0, 0, Zero, Zero), "NO", "DROP", "", FALSE)
      BY ONLY <3>1 DEF Blank, NoBase, StateOf, BaseOf
    <3> QED BY <2>3, <3>1, <3>2
  <2>5. Step(Blank, o) = IF c = "NONE" THEN [z EXCEPT !.command = "help"] ELSE z
    BY <2>1, <2>2, <2>4, Zenon DEF WithCommand, Refuse
  <2>6. DOMAIN z = DOMAIN Blank /\ "command" \in DOMAIN z
    <3>1. DOMAIN z = DOMAIN Blank
      BY ONLY <2>3, StateDomain, Zenon
    <3> QED BY <3>1, BlankDomain
  <2>7. CASE Refused(o)
    <3>1. c = "NONE"
      BY <1>5, <2>2, <2>7 DEF Refused, GetChain
    <3>2. Step(Blank, o).command = "help" /\ DOMAIN Step(Blank, o) = DOMAIN Blank
      BY <2>5, <2>6, <3>1
    <3> QED BY <1>3, <2>7, <3>2 DEF ParsedUpTo
  <2>8. CASE ~Refused(o)
    <3>1. c = o.arg /\ c # "NONE"
      BY <1>5, <2>2, <2>8 DEF Refused, GetChain, Command
    <3>2. Step(Blank, o) = After(line, 1)
      BY <1>4, <1>5, <2>3, <2>5, <3>1
    <3> QED BY <1>3, <2>8, <3>2 DEF ParsedUpTo
  <2> QED BY <2>7, <2>8
<1>6. CASE o.opt = "file"
  <2>1. Step(Blank, o) = [Blank EXCEPT !.command = "file", !.file = o.arg]
    BY <1>6, StepIs DEF WithFile
  <2>2. Step(Blank, o) = StateOf("file", BaseOf("NONE", "UNSET", 0, 0, Zero, Zero), "NO", "DROP", o.arg, FALSE)
    BY <2>1 DEF Blank, NoBase, StateOf, BaseOf
  <2>3. ~Refused(o)
    BY <1>6 DEF Refused
  <2>4. Step(Blank, o) = After(line, 1)
    BY <1>4, <1>6, <2>2
  <2> QED BY <1>3, <2>3, <2>4 DEF ParsedUpTo
<1>7. CASE o.opt = "policy"
  <2>1. PICK c : c = GetChain(o.arg)
    OBVIOUS
  <2>2. PICK t : t = StateOf("help", BaseOf(c, "UNSET", 0, 0, Zero, Zero), "NO", "DROP", "", FALSE)
    OBVIOUS
  <2>3. [Blank EXCEPT !.base.chain = c] = t
    <3>1. PICK u : u = [Blank EXCEPT !.base.chain = c]
      OBVIOUS
    <3>2. u = StateOf("help", BaseOf(c, "UNSET", 0, 0, Zero, Zero), "NO", "DROP", "", FALSE)
      BY ONLY <3>1 DEF Blank, NoBase, StateOf, BaseOf
    <3> QED BY <2>2, <3>1, <3>2
  <2>4. PICK p : p = GetPolicy(o.next)
    OBVIOUS
  <2>5. PICK z : z = StateOf("policy", BaseOf(c, "UNSET", 0, 0, Zero, Zero), "NO", p, "", FALSE)
    OBVIOUS
  <2>6. [t EXCEPT !.policy = p, !.command = "policy"] = z
    <3>1. PICK u : u = [t EXCEPT !.policy = p, !.command = "policy"]
      OBVIOUS
    <3>2. u = StateOf("policy", BaseOf(c, "UNSET", 0, 0, Zero, Zero), "NO", p, "", FALSE)
      BY ONLY <2>2, <3>1 DEF StateOf
    <3> QED BY <2>5, <3>1, <3>2
  <2>7. Step(Blank, o) = IF c = "NONE" THEN [t EXCEPT !.command = "help"]
                         ELSE IF o.next = "" THEN t
                         ELSE IF p = "NONE" THEN [z EXCEPT !.command = "help"] ELSE z
    <3>1. Step(Blank, o) = WithPolicy(Blank, c, o.next)
      BY <1>7, <2>1, StepIs
    <3> QED BY <2>3, <2>4, <2>6, <3>1, Zenon DEF WithPolicy, Refuse
  <2>8. /\ DOMAIN z = DOMAIN Blank /\ DOMAIN t = DOMAIN Blank /\ "command" \in DOMAIN Blank
        /\ t.command = "help"
    <3>1. t.command = "help"
      BY <2>2 DEF StateOf
    <3>2. DOMAIN z = DOMAIN Blank
      BY ONLY <2>5, StateDomain, Zenon
    <3>3. DOMAIN t = DOMAIN Blank
      BY ONLY <2>2, StateDomain, Zenon
    <3> QED BY <3>1, <3>2, <3>3, BlankDomain
  <2>9. CASE Refused(o)
    <3>1. c = "NONE" \/ p = "NONE"
      BY <1>7, <2>1, <2>4, <2>9 DEF Refused, GetChain, GetPolicy, Policy
    <3>2. Step(Blank, o).command = "help" /\ DOMAIN Step(Blank, o) = DOMAIN Blank
      BY <2>7, <2>8, <3>1
    <3> QED BY <1>3, <2>9, <3>2 DEF ParsedUpTo
  <2>10. CASE ~Refused(o)
    <3>1. c = o.arg /\ c # "NONE" /\ p = o.next /\ p # "NONE" /\ o.next # ""
      BY <1>7, <2>1, <2>4, <2>10 DEF Refused, GetChain, GetPolicy, Policy, Command
    <3>2. Step(Blank, o) = After(line, 1)
      BY <1>4, <1>7, <2>5, <2>7, <3>1
    <3> QED BY <1>3, <2>10, <3>2 DEF ParsedUpTo
  <2> QED BY <2>9, <2>10
<1> QED BY <1>5, <1>6, <1>7 DEF Command

\* f has the states of the parser, from none of the options to n of them.
IsParse(f, n, line) == f = [i \in 0..n |-> IF i = 0 THEN Blank ELSE Step(f[i - 1], line[i])]

LEMMA ParseExists ==
  ASSUME NEW line
  PROVE  \A n \in Nat : \E f : IsParse(f, n, line)
<1> DEFINE T == {n \in Nat : \E f : IsParse(f, n, line)}
<1>1. 0 \in T
  <2>1. PICK f : f = [i \in 0..0 |-> Blank]
    OBVIOUS
  <2>2. IsParse(f, 0, line)
    BY <2>1 DEF IsParse
  <2> QED BY <2>2
<1>2. ASSUME NEW n \in Nat, n \in T PROVE n + 1 \in T
  <2>1. PICK f : IsParse(f, n, line)
    BY <1>2
  <2>2. PICK new : new = Step(f[n], line[n + 1])
    OBVIOUS
  <2>3. PICK g : g = [i \in 0..(n + 1) |-> IF i = n + 1 THEN new ELSE f[i]]
    OBVIOUS
  <2>4. ASSUME NEW i \in 0..(n + 1)
        PROVE  g[i] = IF i = 0 THEN Blank ELSE Step(g[i - 1], line[i])
    <3>1. CASE i = n + 1
      <4>1. i # 0 /\ i - 1 = n /\ n \in 0..(n + 1) /\ n # n + 1
        BY <3>1
      <4>2. g[n] = f[n] /\ g[i] = new
        BY <2>3, <3>1, <4>1
      <4> QED BY <2>2, <3>1, <4>1, <4>2
    <3>2. CASE i \in 0..n
      <4>1. i # n + 1 /\ (i # 0 => i - 1 \in 0..n /\ i - 1 \in 0..(n + 1) /\ i - 1 # n + 1)
        BY <3>2
      <4>2. g[i] = f[i] /\ (i # 0 => g[i - 1] = f[i - 1])
        BY <2>3, <4>1
      <4>3. f[i] = IF i = 0 THEN Blank ELSE Step(f[i - 1], line[i])
        BY <2>1, <3>2 DEF IsParse
      <4> QED BY <4>2, <4>3
    <3>3. i \in 0..n \/ i = n + 1
      OBVIOUS
    <3> QED BY <3>1, <3>2, <3>3
  <2>5. IsParse(g, n + 1, line)
    <3>1. g = [i \in 0..(n + 1) |-> g[i]]
      BY <2>3
    <3> QED BY <2>4, <3>1 DEF IsParse
  <2> QED BY <2>5
<1>3. \A n \in Nat : n \in T
  <2>1. \A n \in Nat : n \in T => n + 1 \in T
    BY <1>2
  <2> HIDE DEF T
  <2> QED BY <1>1, <2>1, NatBySets
<1> QED BY <1>3

LEMMA ParseIs ==
  ASSUME NEW line, Len(line) \in Nat
  PROVE  \E f : /\ IsParse(f, Len(line), line)
                /\ ParseCmdArgs(line) =
                     Refuse(f[Len(line)], ~f[Len(line)].mandatory /\ f[Len(line)].command \in {"append", "delete"})
<1> DEFINE parsed == CHOOSE f : f = [i \in 0..Len(line) |-> IF i = 0 THEN Blank ELSE Step(f[i - 1], line[i])]
<1>1. IsParse(parsed, Len(line), line)
  <2>1. \E f : IsParse(f, Len(line), line)
    BY ParseExists
  <2> QED BY <2>1 DEF IsParse
<1>2. ParseCmdArgs(line) =
        Refuse(parsed[Len(line)], ~parsed[Len(line)].mandatory /\ parsed[Len(line)].command \in {"append", "delete"})
  BY Zenon DEF ParseCmdArgs
<1> HIDE DEF parsed
<1> QED BY <1>1, <1>2

LEMMA LineShape ==
  ASSUME NEW line \in Line
  PROVE  /\ Len(line) \in Nat /\ Len(line) >= 1 /\ DOMAIN line = 1..Len(line)
         /\ line[1].opt \in Command
         /\ \A i \in 2..Len(line) : line[i].opt \in Option
<1>1. /\ line # <<>> /\ line \in Seq(ToSet(line)) /\ line[1].opt \in Command
      /\ \A i \in DOMAIN line \ {1} : line[i].opt \in Option
  BY LineAssumption
<1>2. Len(line) \in Nat /\ DOMAIN line = 1..Len(line) /\ Len(line) # 0
  <2>1. PICK S : S = ToSet(line)
    OBVIOUS
  <2>2. line \in Seq(S) /\ line # <<>>
    BY <1>1, <2>1
  <2> QED BY <2>2
<1> QED BY <1>1, <1>2

LEMMA ParsedStep ==
  ASSUME NEW line, NEW n \in Nat, NEW o, o = line[n + 1], o.opt \in Option,
         o.opt \in {"source", "destination"} => o.arg \in Address,
         o.opt \in {"sport", "dport"} => o.arg \in Port,
         NEW s, ParsedUpTo(line, n, s)
  PROVE  ParsedUpTo(line, n + 1, Step(s, o))
<1>1. (\E i \in 1..(n + 1) : Refused(line[i])) <=> (\E i \in 1..n : Refused(line[i])) \/ Refused(o)
  <2>1. \A i : i \in 1..(n + 1) <=> i \in 1..n \/ i = n + 1
    OBVIOUS
  <2> QED BY <2>1
<1>2. CASE \E i \in 1..n : Refused(line[i])
  <2>1. Step(s, o).command = "help" /\ DOMAIN Step(s, o) = DOMAIN Blank
    BY <1>2, RefusedStep DEF ParsedUpTo
  <2> QED BY <1>1, <1>2, <2>1 DEF ParsedUpTo
<1>3. CASE ~(\E i \in 1..n : Refused(line[i])) /\ Refused(o)
  <2>1. s = After(line, n)
    BY <1>3 DEF ParsedUpTo
  <2>2. DOMAIN After(line, n) = DOMAIN Blank
    BY BlankDomain DEF After, StateOf
  <2>3. Step(s, o).command = "help" /\ DOMAIN Step(s, o) = DOMAIN Blank
    BY <1>3, <2>1, <2>2, RefusedStep
  <2> QED BY <1>1, <1>3, <2>3 DEF ParsedUpTo
<1>4. CASE ~(\E i \in 1..n : Refused(line[i])) /\ ~Refused(o)
  <2>1. s = After(line, n)
    BY <1>4 DEF ParsedUpTo
  <2>2. Step(s, o) = After(line, n + 1)
    BY <1>4, <2>1, AfterStep
  <2> QED BY <1>1, <1>4, <2>2 DEF ParsedUpTo
<1> QED BY <1>2, <1>3, <1>4

LEMMA ParsedAll ==
  ASSUME NEW line \in Line, WellFormed(line), NEW f, IsParse(f, Len(line), line)
  PROVE  ParsedUpTo(line, Len(line), f[Len(line)])
<1>1. PICK N \in Nat : N = Len(line) /\ N >= 1
  BY LineShape
<1> DEFINE T == {n \in Nat : n + 1 <= N => ParsedUpTo(line, n + 1, f[n + 1])}
<1>2. \A i \in 1..N : f[i] = Step(f[i - 1], line[i])
  <2>1. \A i \in 1..N : i \in 0..N /\ i # 0
    BY <1>1
  <2> QED BY <1>1, <2>1 DEF IsParse
<1>3. 0 \in T
  <2>1. f[0] = Blank /\ f[1] = Step(f[0], line[1])
    <3>1. 1 \in 1..N /\ 1 - 1 = 0 /\ 0 \in 0..N
      BY <1>1
    <3>2. f[1] = Step(f[1 - 1], line[1])
      BY <1>2, <3>1
    <3> QED BY <1>1, <3>1, <3>2 DEF IsParse
  <2>2. line[1].opt \in Command
    BY LineShape
  <2>3. ParsedUpTo(line, 1, f[1])
    BY <2>1, <2>2, FirstStep
  <2> QED BY <2>3
<1>4. ASSUME NEW n \in Nat, n \in T PROVE n + 1 \in T
  <2>1. SUFFICES ASSUME n + 1 + 1 <= N
                 PROVE  ParsedUpTo(line, n + 1 + 1, f[n + 1 + 1])
    OBVIOUS
  <2>2. PICK m \in Nat : m = n + 1 /\ m >= 1 /\ m + 1 <= N
    BY <2>1
  <2>3. ParsedUpTo(line, m, f[m])
    BY <1>4, <2>2
  <2>4. PICK o : o = line[m + 1]
    OBVIOUS
  <2>5. f[m + 1] = Step(f[m], o)
    <3>1. m + 1 \in 1..N /\ (m + 1) - 1 = m
      BY <2>2
    <3>2. f[m + 1] = Step(f[(m + 1) - 1], line[m + 1])
      BY <1>2, <3>1
    <3> QED BY <2>4, <3>1, <3>2
  <2>6. /\ o.opt \in Option
        /\ o.opt \in {"source", "destination"} => o.arg \in Address
        /\ o.opt \in {"sport", "dport"} => o.arg \in Port
    <3>1. m + 1 \in 2..Len(line) /\ m + 1 \in 1..Len(line)
      BY <1>1, <2>2
    <3>2. m + 1 \in DOMAIN line
      BY <3>1, LineShape
    <3> QED BY <2>4, <3>1, <3>2, LineShape DEF WellFormed
  <2>7. ParsedUpTo(line, m + 1, Step(f[m], o))
    BY <2>3, <2>4, <2>6, ParsedStep
  <2> HIDE DEF T
  <2> QED BY <2>2, <2>5, <2>7
<1>5. \A n \in Nat : n \in T
  <2>1. \A n \in Nat : n \in T => n + 1 \in T
    BY <1>4
  <2> HIDE DEF T
  <2> QED BY <1>3, <2>1, NatBySets
<1>6. N - 1 \in Nat /\ (N - 1) + 1 = N
  BY <1>1
<1>7. (N - 1) + 1 <= N => ParsedUpTo(line, (N - 1) + 1, f[(N - 1) + 1])
  BY <1>5, <1>6
<1> QED BY <1>1, <1>6, <1>7

LEMMA LastIsGiven ==
  ASSUME NEW line \in Line, NEW opt, NEW default
  PROVE  /\ Among(line, Len(line), opt) = At(line, opt)
         /\ LastOf(line, Len(line), opt, default) = Given(line, opt, default)
<1>1. Among(line, Len(line), opt) = At(line, opt)
  BY LineShape DEF Among, At
<1> QED BY <1>1, Zenon DEF LastOf, Given

\* What a line gives is of the kind that its options are of.
LEMMA GivenIn ==
  ASSUME NEW line \in Line, NEW opt, NEW S, NEW default \in S,
         \A i \in DOMAIN line : line[i].opt = opt => line[i].arg \in S
  PROVE  Given(line, opt, default) \in S
<1>1. PICK N \in Nat : N = Len(line) /\ DOMAIN line = 1..N
  BY LineShape
<1> DEFINE T == {n \in Nat : n <= N => LastOf(line, n, opt, default) \in S}
<1>2. 0 \in T
  BY LastNone
<1>3. ASSUME NEW n \in Nat, n \in T PROVE n + 1 \in T
  <2>1. SUFFICES ASSUME n + 1 <= N PROVE LastOf(line, n + 1, opt, default) \in S
    OBVIOUS
  <2>2. n + 1 \in DOMAIN line
    BY <1>1, <2>1
  <2>3. LastOf(line, n, opt, default) \in S
    BY <1>1, <1>3, <2>1
  <2>4. LastOf(line, n + 1, opt, default) =
          IF line[n + 1].opt = opt THEN line[n + 1].arg ELSE LastOf(line, n, opt, default)
    BY LastStep
  <2>5. line[n + 1].opt = opt => line[n + 1].arg \in S
    BY <2>2
  <2> QED BY <2>3, <2>4, <2>5
<1>4. \A n \in Nat : n \in T
  <2>1. \A n \in Nat : n \in T => n + 1 \in T
    BY <1>3
  <2> HIDE DEF T
  <2> QED BY <1>2, <2>1, NatBySets
<1>5. LastOf(line, N, opt, default) \in S
  BY <1>4
<1> QED BY <1>1, <1>5, LastIsGiven

LEMMA GivenNone ==
  ASSUME NEW line \in Line, NEW opt, NEW default, At(line, opt) = {}
  PROVE  Given(line, opt, default) = default
BY DEF Given

\* What a line is understood to say: the help, if anything is wrong with it, else what
\* it asks for.
LEMMA WrongIs ==
  ASSUME NEW line \in Line, WellFormed(line)
  PROVE  Wrong(line) <=>
           \/ \E i \in 1..Len(line) : Refused(line[i])
           \/ line[1].opt \in {"append", "delete"} /\ At(line, "proto") = {}
<1>1. DOMAIN line = 1..Len(line)
  BY LineShape
<1>2. \A i \in 1..Len(line) :
        /\ line[i].opt \in {"source", "destination"} => line[i].arg # Malformed
        /\ line[i].opt \in {"sport", "dport"} => line[i].arg \in Port
  BY <1>1, NotMalformed DEF WellFormed
<1> QED BY <1>1, <1>2 DEF Wrong, Refused

LEMMA AfterFields ==
  ASSUME NEW line \in Line, NEW n, NEW s, s = After(line, n)
  PROVE  /\ s.command = line[1].opt
         /\ s.base = BaseOf(IF line[1].opt = "file" THEN "NONE" ELSE line[1].arg,
                       LastOf(line, n, "proto", "UNSET"), LastOf(line, n, "sport", 0),
                       LastOf(line, n, "dport", 0), LastOf(line, n, "source", Zero),
                       LastOf(line, n, "destination", Zero))
         /\ s.off = LastOf(line, n, "off", "NO")
         /\ s.policy = LastOf(line, n, "jump", IF line[1].opt = "policy" THEN line[1].next ELSE "DROP")
         /\ line[1].opt = "file" => s.file = line[1].arg
         /\ s.mandatory <=> Among(line, n, "proto") # {} \/ Among(line, n, "off") # {}
BY DEF After, StateOf

LEMMA AskedIs ==
  ASSUME NEW line \in Line
  PROVE  /\ Asked(line).base =
              BaseOf(line[1].arg, Given(line, "proto", "UNSET"), Given(line, "sport", 0),
                     Given(line, "dport", 0), Given(line, "source", Zero), Given(line, "destination", Zero))
         /\ Asked(line).off = Given(line, "off", "NO")
         /\ Asked(line).policy = Given(line, "jump", "DROP")
         /\ Asked(line) = [base |-> Asked(line).base, off |-> Asked(line).off, policy |-> Asked(line).policy]
BY DEF Asked, BaseOf, Default

LEMMA Understood ==
  ASSUME NEW line \in Line, WellFormed(line)
  PROVE  /\ Wrong(line) => ParseCmdArgs(line).command = "help"
         /\ ~Wrong(line) =>
              /\ ParseCmdArgs(line).command = line[1].opt
              /\ line[1].opt # "file" => ParseCmdArgs(line).base = Asked(line).base
              /\ ParseCmdArgs(line).off = Asked(line).off
              /\ line[1].opt # "policy" => ParseCmdArgs(line).policy = Asked(line).policy
              /\ line[1].opt = "policy" => ParseCmdArgs(line).policy = Given(line, "jump", line[1].next)
              /\ line[1].opt = "file" => ParseCmdArgs(line).file = line[1].arg
<1>1. Len(line) \in Nat
  BY LineShape
<1>2. PICK f : /\ IsParse(f, Len(line), line)
               /\ ParseCmdArgs(line) =
                    Refuse(f[Len(line)], ~f[Len(line)].mandatory /\ f[Len(line)].command \in {"append", "delete"})
  BY <1>1, ParseIs
<1>3. PICK s : s = f[Len(line)]
  OBVIOUS
<1>4. ParsedUpTo(line, Len(line), s)
  BY <1>2, <1>3, ParsedAll
<1>5. ParseCmdArgs(line) =
        IF ~s.mandatory /\ s.command \in {"append", "delete"} THEN [s EXCEPT !.command = "help"] ELSE s
  BY <1>2, <1>3, Zenon DEF Refuse
<1>6. CASE \E i \in 1..Len(line) : Refused(line[i])
  <2>1. s.command = "help"
    BY <1>4, <1>6 DEF ParsedUpTo
  <2>2. ParseCmdArgs(line) = s
    BY <1>5, <2>1
  <2> QED BY <1>6, <2>1, <2>2, WrongIs
<1>7. CASE ~(\E i \in 1..Len(line) : Refused(line[i]))
  <2>1. s = After(line, Len(line))
    BY <1>4, <1>7 DEF ParsedUpTo
  <2>2. DOMAIN s = DOMAIN Blank /\ "command" \in DOMAIN s
    BY <2>1, BlankDomain DEF After, StateOf
  <2>3. s.command = line[1].opt /\ (s.mandatory <=> At(line, "proto") # {} \/ At(line, "off") # {})
    BY <2>1, AfterFields, LastIsGiven
  <2>4. Wrong(line) <=> line[1].opt \in {"append", "delete"} /\ At(line, "proto") = {}
    BY <1>7, WrongIs
  <2>5. line[1].opt \in {"append", "delete"} /\ At(line, "proto") = {} => At(line, "off") = {}
    BY DEF WellFormed
  <2>6. CASE Wrong(line)
    <3>1. ParseCmdArgs(line) = [s EXCEPT !.command = "help"]
      BY <1>5, <2>3, <2>4, <2>5, <2>6
    <3> QED BY <2>2, <2>6, <3>1
  <2>7. CASE ~Wrong(line)
    <3>1. ParseCmdArgs(line) = s
      BY <1>5, <2>3, <2>4, <2>7
    <3>2. line[1].opt # "file" => s.base = Asked(line).base
      BY <2>1, AfterFields, LastIsGiven, AskedIs
    <3>3. s.off = Asked(line).off
      BY <2>1, AfterFields, LastIsGiven, AskedIs
    <3>4. line[1].opt # "policy" => s.policy = Asked(line).policy
      BY <2>1, AfterFields, LastIsGiven, AskedIs
    <3>5. line[1].opt = "policy" => s.policy = Given(line, "jump", line[1].next)
      BY <2>1, AfterFields, LastIsGiven
    <3>6. line[1].opt = "file" => s.file = line[1].arg
      BY <2>1, AfterFields
    <3> QED BY <2>3, <2>7, <3>1, <3>2, <3>3, <3>4, <3>5, <3>6
  <2> QED BY <2>6, <2>7
<1> QED BY <1>6, <1>7

\* A line that is not wrong asks for a rule of a chain.
LEMMA AskedType ==
  ASSUME NEW line \in Line, WellFormed(line), ~Wrong(line)
  PROVE  /\ line[1].opt # "file" => Asked(line) \in Rule /\ line[1].arg \in {"ALL", "INPUT", "OUTPUT"}
         /\ Asked(line).base.chain = line[1].arg
         /\ line[1].opt \in {"append", "delete"} => Asked(line).base.proto \in {"ALL", "TCP", "UDP"}
         /\ line[1].opt = "policy" => line[1].next \in Policy
<1>1. DOMAIN line = 1..Len(line) /\ 1 \in DOMAIN line /\ line[1].opt \in Command
  BY LineShape
<1>2. \A i \in DOMAIN line : ~Refused(line[i])
  BY <1>1, WrongIs
<1>3. Zero \in Address /\ 0 \in Port
  BY DEF Zero, Address, Byte, Port
<1>4. /\ Given(line, "sport", 0) \in Port /\ Given(line, "dport", 0) \in Port
      /\ Given(line, "source", Zero) \in Address /\ Given(line, "destination", Zero) \in Address
  BY <1>3, GivenIn DEF WellFormed
<1>0. \A i \in DOMAIN line :
        /\ line[i].opt = "proto" => line[i].arg \in {"ALL", "TCP", "UDP"}
        /\ line[i].opt = "off" => line[i].arg \in {"NO", "YES"}
        /\ line[i].opt = "jump" => line[i].arg \in Policy
  BY <1>2 DEF Refused
<1>5. Given(line, "proto", "UNSET") \in {"UNSET", "ALL", "TCP", "UDP"}
  <2>1. \A i \in DOMAIN line : line[i].opt = "proto" => line[i].arg \in {"UNSET", "ALL", "TCP", "UDP"}
    BY <1>0
  <2> QED BY <2>1, GivenIn
<1>6. Given(line, "off", "NO") \in {"NO", "YES"}
  <2>1. \A i \in DOMAIN line : line[i].opt = "off" => line[i].arg \in {"NO", "YES"}
    BY <1>0
  <2> QED BY <2>1, GivenIn
<1>7. Given(line, "jump", "DROP") \in Policy
  <2>1. "DROP" \in Policy
    BY DEF Policy
  <2> QED BY <1>0, <2>1, GivenIn
<1>8. line[1].opt # "file" => line[1].arg \in {"ALL", "INPUT", "OUTPUT"}
  BY <1>1, <1>2 DEF Refused
<1>9. line[1].opt \in {"append", "delete"} => Given(line, "proto", "UNSET") \in {"ALL", "TCP", "UDP"}
  <2>1. SUFFICES ASSUME line[1].opt \in {"append", "delete"}
                 PROVE  Given(line, "proto", "UNSET") \in {"ALL", "TCP", "UDP"}
    OBVIOUS
  <2>2. At(line, "proto") # {}
    BY <2>1, WrongIs
  <2>3. Given(line, "proto", "UNSET") = Given(line, "proto", "TCP")
    BY <2>2 DEF Given
  <2>4. Given(line, "proto", "TCP") \in {"ALL", "TCP", "UDP"}
    <3>1. \A i \in DOMAIN line : line[i].opt = "proto" => line[i].arg \in {"ALL", "TCP", "UDP"}
      BY <1>0
    <3> QED BY <3>1, GivenIn
  <2> QED BY <2>3, <2>4
<1>10. Asked(line).base.chain = line[1].arg /\ Asked(line).base.proto = Given(line, "proto", "UNSET")
  BY DEF Asked, Default
<1>11. line[1].opt # "file" => Asked(line) \in Rule
  <2>1. line[1].opt # "file" => Asked(line).base \in Base
    <3>1. SUFFICES ASSUME line[1].opt # "file" PROVE Asked(line).base \in Base
      OBVIOUS
    <3>2. PICK c, proto, sport, dport, s, d :
            /\ c = line[1].arg /\ proto = Given(line, "proto", "UNSET") /\ sport = Given(line, "sport", 0)
            /\ dport = Given(line, "dport", 0) /\ s = Given(line, "source", Zero)
            /\ d = Given(line, "destination", Zero)
      OBVIOUS
    <3>3. Asked(line).base = BaseOf(c, proto, sport, dport, s, d)
      BY ONLY <3>2, AskedIs, line \in Line
    <3>4. /\ c \in {"ALL", "INPUT", "OUTPUT"} /\ proto \in {"UNSET", "ALL", "TCP", "UDP"}
          /\ sport \in Port /\ dport \in Port /\ s \in Address /\ d \in Address
      BY <1>4, <1>5, <1>8, <3>1, <3>2
    <3>5. BaseOf(c, proto, sport, dport, s, d) \in Base
      BY ONLY <3>4 DEF BaseOf, Base
    <3> QED BY <3>3, <3>5
  <2>2. Asked(line).off \in {"NO", "YES"} /\ Asked(line).policy \in Policy
    BY <1>6, <1>7, AskedIs
  <2> QED BY <2>1, <2>2, AskedIs DEF Rule
<1>12. line[1].opt = "policy" => line[1].next \in Policy
  BY <1>1, <1>2 DEF Refused
<1> QED BY <1>8, <1>9, <1>10, <1>11, <1>12

-----------------------------------------------------------------------------
(* What Select does to sequences.                                          *)

\* f is the function that Select computes, on 0..n.
Keeps(f, n, entries, wanted) ==
  \A i \in 0..n :
    f[i] = IF i = 0 THEN << >>
           ELSE IF entries[i] \in wanted THEN Append(f[i - 1], entries[i]) ELSE f[i - 1]

LEMMA KeepsExists ==
  ASSUME NEW S, NEW s \in Seq(S), NEW P
  PROVE  \A n \in 0..Len(s) : \E f \in [0..n -> Seq(S)] : Keeps(f, n, s, P)
<1> DEFINE T == {n \in Nat : n <= Len(s) => \E f \in [0..n -> Seq(S)] : Keeps(f, n, s, P)}
<1>1. 0 \in T
  <2>1. [i \in 0..0 |-> << >>] \in [0..0 -> Seq(S)]
    OBVIOUS
  <2>2. Keeps([i \in 0..0 |-> << >>], 0, s, P)
    BY DEF Keeps
  <2> QED BY <2>1, <2>2
<1>2. \A n \in Nat : n \in T => n + 1 \in T
  <2>1. SUFFICES ASSUME NEW n \in Nat, n \in T, n + 1 <= Len(s)
                 PROVE  \E f \in [0..(n + 1) -> Seq(S)] : Keeps(f, n + 1, s, P)
    OBVIOUS
  <2>2. PICK f \in [0..n -> Seq(S)] : Keeps(f, n, s, P)
    BY <2>1
  <2>3. s[n + 1] \in S /\ f[n] \in Seq(S)
    BY <2>1
  <2>4. PICK last \in Seq(S) : last = IF s[n + 1] \in P THEN Append(f[n], s[n + 1]) ELSE f[n]
    BY <2>3
  <2> DEFINE g == [i \in 0..(n + 1) |-> IF i = n + 1 THEN last ELSE f[i]]
  <2>5. g \in [0..(n + 1) -> Seq(S)]
    BY <2>1, <2>4
  <2>6. \A i \in 0..n : g[i] = f[i]
    BY <2>1
  <2>7. g[n + 1] = last
    BY <2>1
  <2>8. Keeps(g, n + 1, s, P)
    <3> HIDE DEF g
    <3>1. SUFFICES ASSUME NEW i \in 0..(n + 1)
                   PROVE  g[i] = IF i = 0 THEN << >>
                                 ELSE IF s[i] \in P THEN Append(g[i - 1], s[i]) ELSE g[i - 1]
      BY DEF Keeps
    <3>2. CASE i = n + 1
      BY <2>1, <2>4, <2>6, <2>7, <3>2
    <3>3. CASE i \in 0..n
      <4>1. i # 0 => i - 1 \in 0..n
        BY <3>3
      <4> QED BY <2>2, <2>6, <3>3, <4>1 DEF Keeps
    <3> QED BY <2>1, <3>1, <3>2, <3>3
  <2> QED BY <2>5, <2>8
<1>3. \A n \in Nat : n \in T
  <2> HIDE DEF T
  <2> QED BY <1>1, <1>2, NatBySets
<1> QED BY <1>3

\* There is one such function only.
LEMMA KeepsAgree ==
  ASSUME NEW s, NEW t, NEW P, NEW N \in Nat, NEW f, NEW g,
         Keeps(f, N, s, P), Keeps(g, N, t, P), \A i \in 1..N : s[i] = t[i]
  PROVE  f[N] = g[N]
<1> DEFINE T == {n \in Nat : n <= N => f[n] = g[n]}
<1>1. 0 \in T
  BY DEF Keeps
<1>2. \A n \in Nat : n \in T => n + 1 \in T
  <2>1. SUFFICES ASSUME NEW n \in Nat, n + 1 <= N, f[n] = g[n]
                 PROVE  f[n + 1] = g[n + 1]
    OBVIOUS
  <2>2. n + 1 \in 0..N /\ n + 1 # 0 /\ n + 1 - 1 = n /\ s[n + 1] = t[n + 1]
    BY <2>1
  <2> QED BY <2>1, <2>2 DEF Keeps
<1>3. \A n \in Nat : n \in T
  <2> HIDE DEF T
  <2> QED BY <1>1, <1>2, NatBySets
<1> QED BY <1>3

LEMMA SelectIs ==
  ASSUME NEW S, NEW s \in Seq(S), NEW P, NEW f, Keeps(f, Len(s), s, P)
  PROVE  Select(s, P) = f[Len(s)]
<1> DEFINE body(k) == [i \in 0..Len(s) |->
             IF i = 0 THEN << >> ELSE IF s[i] \in P THEN Append(k[i - 1], s[i]) ELSE k[i - 1]]
           kept == CHOOSE k : k = body(k)
<1>1. PICK g \in [0..Len(s) -> Seq(S)] : Keeps(g, Len(s), s, P)
  <2>1. Len(s) \in 0..Len(s)
    OBVIOUS
  <2>2. \A n \in 0..Len(s) : \E g \in [0..n -> Seq(S)] : Keeps(g, n, s, P)
    BY KeepsExists
  <2> QED BY <2>1, <2>2
<1>2. g = body(g)
  BY <1>1 DEF Keeps
<1>3. kept = body(kept)
  <2> HIDE DEF body
  <2> QED BY <1>2
<1>4. Keeps(kept, Len(s), s, P)
  <2> HIDE DEF kept
  <2> QED BY <1>3 DEF Keeps
<1>5. Select(s, P) = kept[Len(s)]
  BY DEF Select
<1> HIDE DEF kept
<1>6. kept[Len(s)] = f[Len(s)]
  BY <1>4, KeepsAgree
<1> QED BY <1>5, <1>6

LEMMA KeepsStep ==
  ASSUME NEW f, NEW s, NEW P, NEW n \in Nat, Keeps(f, n + 1, s, P)
  PROVE  f[n + 1] = IF s[n + 1] \in P THEN Append(f[n], s[n + 1]) ELSE f[n]
<1>1. n + 1 \in 0..(n + 1) /\ n + 1 # 0 /\ (n + 1) - 1 = n
  OBVIOUS
<1>2. \A i \in 0..(n + 1) :
        i # 0 => f[i] = IF s[i] \in P THEN Append(f[i - 1], s[i]) ELSE f[i - 1]
  BY DEF Keeps
<1>3. f[n + 1] = IF s[n + 1] \in P THEN Append(f[(n + 1) - 1], s[n + 1]) ELSE f[(n + 1) - 1]
  BY <1>1, <1>2, Zenon
<1> QED BY <1>1, <1>3

LEMMA SelectEmpty ==
  ASSUME NEW P
  PROVE  Select(<< >>, P) = << >>
<1>1. Keeps([i \in 0..0 |-> << >>], Len(<< >>), << >>, P)
  BY DEF Keeps
<1>2. << >> \in Seq({})
  OBVIOUS
<1> QED BY <1>1, <1>2, SelectIs

LEMMA SelectStep ==
  ASSUME NEW S, NEW s \in Seq(S), NEW e \in S, NEW P
  PROVE  /\ Select(s, P) \in Seq(S)
         /\ Select(Append(s, e), P) = IF e \in P THEN Append(Select(s, P), e) ELSE Select(s, P)
<1>1. PICK n \in Nat : n = Len(s)
  OBVIOUS
<1>2. PICK a \in Seq(S) : a = Append(s, e)
  <2>1. Append(s, e) \in Seq(S)
    OBVIOUS
  <2> QED BY <2>1
<1>3. Len(a) = n + 1 /\ a[n + 1] = e /\ \A i \in 1..n : a[i] = s[i]
  BY <1>1, <1>2
<1>4. PICK g \in [0..(n + 1) -> Seq(S)] : Keeps(g, n + 1, a, P)
  <2>1. n + 1 \in 0..Len(a)
    BY <1>3
  <2>2. \A m \in 0..Len(a) : \E g \in [0..m -> Seq(S)] : Keeps(g, m, a, P)
    BY KeepsExists
  <2> QED BY <2>1, <2>2
<1>5. Keeps(g, n, s, P)
  <2>1. \A i \in 0..n : i \in 0..(n + 1) /\ (i # 0 => a[i] = s[i])
    BY <1>3
  <2> QED BY <1>4, <2>1 DEF Keeps
<1>6. Select(s, P) = g[n]
  BY <1>1, <1>5, SelectIs
<1>7. Select(a, P) = g[n + 1]
  BY <1>3, <1>4, SelectIs
<1>8. g[n + 1] = IF e \in P THEN Append(g[n], e) ELSE g[n]
  <2>1. g[n + 1] = IF a[n + 1] \in P THEN Append(g[n], a[n + 1]) ELSE g[n]
    BY <1>4, KeepsStep
  <2> QED BY <1>3, <2>1
<1>9. g[n] \in Seq(S)
  BY <1>4
<1> QED BY <1>2, <1>6, <1>7, <1>8, <1>9

LEMMA SelectAppend ==
  ASSUME NEW S, NEW s \in Seq(S), NEW e \in S, NEW P
  PROVE  Select(Append(s, e), P) = IF e \in P THEN Append(Select(s, P), e) ELSE Select(s, P)
BY SelectStep

LEMMA SelectType ==
  ASSUME NEW S, NEW s \in Seq(S), NEW P
  PROVE  Select(s, P) \in Seq(S \cap P)
<1> DEFINE Q == {t \in Seq(S) : Select(t, P) \in Seq(S \cap P)}
<1>1. << >> \in Q
  <2>1. << >> \in Seq(S) /\ << >> \in Seq(S \cap P)
    OBVIOUS
  <2>2. Select(<< >>, P) = << >>
    BY SelectEmpty
  <2> QED BY <2>1, <2>2
<1>2. \A t \in Seq(S), e \in S : t \in Q => Append(t, e) \in Q
  <2>1. SUFFICES ASSUME NEW t \in Seq(S), NEW e \in S, Select(t, P) \in Seq(S \cap P)
                 PROVE  Select(Append(t, e), P) \in Seq(S \cap P)
    OBVIOUS
  <2>2. Select(Append(t, e), P) = IF e \in P THEN Append(Select(t, P), e) ELSE Select(t, P)
    BY SelectAppend
  <2>3. e \in P => Append(Select(t, P), e) \in Seq(S \cap P)
    BY <2>1
  <2> QED BY <2>1, <2>2, <2>3
<1>3. \A t \in Seq(S) : t \in Q
  <2> HIDE DEF Q
  <2> QED BY <1>1, <1>2, SeqBySets
<1> QED BY <1>3

LEMMA SelectKeepsType ==
  ASSUME NEW S, NEW s \in Seq(S), NEW P
  PROVE  Select(s, P) \in Seq(S)
<1>1. Select(s, P) \in Seq(S \cap P)
  BY SelectType
<1> QED BY <1>1, SeqMonotonic, S \cap P \subseteq S

(* Two sequences put together, element by element.                         *)
LEMMA ConcatElements ==
  ASSUME NEW S, NEW a \in Seq(S), NEW b \in Seq(S), NEW c, c = a \o b
  PROVE  /\ c \in Seq(S)
         /\ Len(c) = Len(a) + Len(b)
         /\ \A j \in 1..Len(a) : c[j] = a[j]
         /\ \A j \in 1..Len(b) : c[Len(a) + j] = b[j]
<1>1. c \in Seq(S) /\ Len(c) = Len(a) + Len(b) /\ Len(a) \in Nat /\ Len(b) \in Nat
  OBVIOUS
<1>2. \A j \in 1..Len(a) : c[j] = a[j]
  BY <1>1
<1>3. \A j \in 1..Len(b) : c[Len(a) + j] = b[j]
  <2> SUFFICES ASSUME NEW j \in 1..Len(b)
               PROVE  c[Len(a) + j] = b[j]
    OBVIOUS
  <2>1. Len(a) + j \in 1..(Len(a) + Len(b)) /\ ~(Len(a) + j <= Len(a)) /\ (Len(a) + j) - Len(a) = j
    BY <1>1
  <2> QED  BY <1>1, <2>1
<1> QED  BY <1>1, <1>2, <1>3

\* A name for what is put together, which the provers do not look into.
Together(s, t) == s \o t

LEMMA TogetherIs ==
  ASSUME NEW S, NEW s \in Seq(S), NEW t \in Seq(S)
  PROVE  /\ Together(s, t) \in Seq(S)
         /\ Together(s, << >>) = s /\ Together(<< >>, s) = s
<1>1. s \o t \in Seq(S)
  OBVIOUS
<1>2. s \o << >> = s
  OBVIOUS
<1>3. << >> \o s = s
  OBVIOUS
<1> QED BY <1>1, <1>2, <1>3 DEF Together

LEMMA AppendPast ==
  ASSUME NEW S, NEW x \in Seq(S), NEW y \in Seq(S), NEW e \in S
  PROVE  Together(x, Append(y, e)) = Append(Together(x, y), e)
<1>0. PICK v, w, z : v = x \o y /\ w = Append(y, e) /\ z = x \o w
  OBVIOUS
<1>1. /\ v \in Seq(S) /\ Len(v) = Len(x) + Len(y)
      /\ \A j \in 1..Len(x) : v[j] = x[j]
      /\ \A j \in 1..Len(y) : v[Len(x) + j] = y[j]
  BY <1>0, ConcatElements
<1>2. /\ w \in Seq(S) /\ Len(w) = Len(y) + 1 /\ Len(x) \in Nat /\ Len(y) \in Nat
      /\ \A j \in 1..Len(y) : w[j] = y[j]
      /\ w[Len(y) + 1] = e
  BY <1>0
<1>3. /\ z \in Seq(S) /\ Len(z) = Len(x) + Len(w)
      /\ \A j \in 1..Len(x) : z[j] = x[j]
      /\ \A j \in 1..Len(w) : z[Len(x) + j] = w[j]
  BY <1>0, <1>2, ConcatElements
<1>4. PICK q : q = Append(v, e)
  OBVIOUS
<1>5. /\ q \in Seq(S) /\ Len(q) = Len(v) + 1
      /\ \A j \in 1..Len(v) : q[j] = v[j]
      /\ q[Len(v) + 1] = e
  <2>1. v \in Seq(S)
    BY <1>1
  <2> QED BY <1>4, <2>1
<1>6. Len(z) = Len(q) /\ Len(q) = Len(x) + Len(y) + 1
  BY <1>1, <1>2, <1>3, <1>5
<1>7. ASSUME NEW j \in 1..Len(q)
      PROVE  z[j] = q[j]
  <2>1. CASE j \in 1..Len(x)
    <3>1. j \in 1..Len(v)
      BY <1>1, <1>2, <2>1
    <3> QED BY <1>1, <1>3, <1>5, <2>1, <3>1
  <2>2. CASE j \notin 1..Len(x)
    <3>1. PICK k \in 1..Len(w) : j = Len(x) + k
      <4>1. j - Len(x) \in 1..Len(w) /\ j = Len(x) + (j - Len(x))
        BY <1>2, <1>6, <2>2
      <4> QED BY <4>1
    <3>2. z[j] = w[k]
      BY <1>3, <3>1
    <3>3. CASE k \in 1..Len(y)
      <4>1. j \in 1..Len(v)
        BY <1>1, <1>2, <3>1, <3>3
      <4>2. q[j] = v[j]
        BY <1>5, <4>1
      <4>3. v[j] = y[k]
        BY <1>1, <3>1, <3>3
      <4> QED BY <1>2, <3>2, <3>3, <4>2, <4>3
    <3>4. CASE k \notin 1..Len(y)
      <4>1. k = Len(y) + 1
        <5>1. Len(w) = Len(y) + 1 /\ Len(y) \in Nat
          BY <1>2
        <5> QED BY <3>4, <5>1
      <4>2. Len(v) = Len(x) + Len(y) /\ Len(x) \in Nat /\ Len(y) \in Nat
        BY <1>1, <1>2
      <4>3. j = Len(v) + 1
        BY <3>1, <4>1, <4>2
      <4>4. w[k] = e
        BY <1>2, <4>1
      <4>5. q[j] = e
        BY <1>5, <4>3
      <4> QED BY <3>2, <4>4, <4>5
    <3> QED BY <3>3, <3>4
  <2> QED BY <2>1, <2>2
<1>8. z = q
  BY <1>3, <1>5, <1>6, <1>7, SeqEqual
<1>9. Together(x, Append(y, e)) = z /\ Together(x, y) = v
  BY <1>0 DEF Together
<1> QED BY <1>4, <1>8, <1>9

LEMMA SelectTogether ==
  ASSUME NEW S, NEW s \in Seq(S), NEW t \in Seq(S), NEW P
  PROVE  Select(Together(s, t), P) = Together(Select(s, P), Select(t, P))
<1> DEFINE Q == {u \in Seq(S) : Select(Together(s, u), P) = Together(Select(s, P), Select(u, P))}
<1>0. Select(s, P) \in Seq(S)
  BY SelectKeepsType
<1>1. << >> \in Q
  <2>1. << >> \in Seq(S)
    OBVIOUS
  <2>2. Together(s, << >>) = s /\ Together(Select(s, P), << >>) = Select(s, P)
    BY <1>0, TogetherIs
  <2> QED BY <2>1, <2>2, SelectEmpty
<1>2. ASSUME NEW u \in Seq(S), NEW e \in S, u \in Q
      PROVE  Append(u, e) \in Q
  <2>1. PICK v \in Seq(S) : v = Together(s, u)
    BY TogetherIs
  <2>2. PICK x \in Seq(S), y \in Seq(S) : x = Select(s, P) /\ y = Select(u, P)
    BY <1>0, SelectKeepsType
  <2>3. PICK w \in Seq(S) : w = Append(u, e)
    <3>1. Append(u, e) \in Seq(S)
      OBVIOUS
    <3> QED BY <3>1
  <2>4. Select(v, P) = Together(x, y)
    BY <1>2, <2>1, <2>2
  <2>5. Together(s, w) = Append(v, e)
    <3>1. Together(s, Append(u, e)) = Append(Together(s, u), e)
      BY AppendPast
    <3> QED BY <2>1, <2>3, <3>1
  <2>6. Select(Append(v, e), P) = IF e \in P THEN Append(Select(v, P), e) ELSE Select(v, P)
    BY SelectAppend
  <2>7. Select(w, P) = IF e \in P THEN Append(y, e) ELSE y
    <3>1. Select(Append(u, e), P) = IF e \in P THEN Append(Select(u, P), e) ELSE Select(u, P)
      BY SelectAppend
    <3> HIDE DEF Q
    <3> QED BY <2>2, <2>3, <3>1
  <2>8. Together(x, Append(y, e)) = Append(Together(x, y), e)
    BY AppendPast
  <2>9. Select(Together(s, w), P) = Together(x, Select(w, P))
    <3> HIDE DEF Q
    <3>1. CASE e \in P
      BY <2>4, <2>5, <2>6, <2>7, <2>8, <3>1
    <3>2. CASE e \notin P
      BY <2>4, <2>5, <2>6, <2>7, <3>2
    <3> QED BY <3>1, <3>2
  <2>10. Select(Together(s, w), P) = Together(Select(s, P), Select(w, P))
    BY <2>2, <2>9
  <2> QED BY <2>3, <2>10
<1>3. \A u \in Seq(S) : u \in Q
  <2> HIDE DEF Q
  <2>1. \A u \in Seq(S), e \in S : u \in Q => Append(u, e) \in Q
    BY <1>2
  <2> QED BY <1>1, <2>1, SeqBySets
<1> QED BY <1>3

LEMMA SelectAll ==
  ASSUME NEW S, NEW s \in Seq(S), NEW P, S \subseteq P
  PROVE  Select(s, P) = s
<1> DEFINE Q == {t \in Seq(S) : Select(t, P) = t}
<1>1. << >> \in Q
  BY SelectEmpty
<1>2. \A t \in Seq(S), e \in S : t \in Q => Append(t, e) \in Q
  <2>1. SUFFICES ASSUME NEW t \in Seq(S), NEW e \in S, Select(t, P) = t
                 PROVE  Select(Append(t, e), P) = Append(t, e)
    OBVIOUS
  <2>2. Select(Append(t, e), P) = IF e \in P THEN Append(Select(t, P), e) ELSE Select(t, P)
    BY SelectAppend
  <2> QED BY <2>1, <2>2
<1>3. \A t \in Seq(S) : t \in Q
  <2> HIDE DEF Q
  <2> QED BY <1>1, <1>2, SeqBySets
<1> QED BY <1>3

LEMMA SelectNone ==
  ASSUME NEW S, NEW s \in Seq(S), NEW P, S \cap P = {}
  PROVE  Select(s, P) = << >>
<1>1. Select(s, P) \in Seq({})
  BY SelectType
<1> QED BY <1>1

LEMMA SelectSelect ==
  ASSUME NEW S, NEW s \in Seq(S), NEW P, NEW R
  PROVE  Select(Select(s, P), R) = Select(s, P \cap R)
<1>0. PICK B : B = P \cap R
  OBVIOUS
<1> DEFINE Q == {t \in Seq(S) : Select(Select(t, P), R) = Select(t, B)}
<1>1. << >> \in Q
  BY SelectEmpty
<1>2. \A t \in Seq(S), e \in S : t \in Q => Append(t, e) \in Q
  <2>1. SUFFICES ASSUME NEW t \in Seq(S), NEW e \in S, Select(Select(t, P), R) = Select(t, B)
                 PROVE  Select(Select(Append(t, e), P), R) = Select(Append(t, e), B)
    OBVIOUS
  <2>2. /\ Select(t, P) \in Seq(S)
        /\ Select(Append(t, e), P) = IF e \in P THEN Append(Select(t, P), e) ELSE Select(t, P)
    BY SelectStep
  <2>3. Select(Append(t, e), B) = IF e \in B THEN Append(Select(t, B), e) ELSE Select(t, B)
    BY SelectAppend
  <2>4. PICK u \in Seq(S) : u = Select(t, P)
    BY <2>2
  <2>5. Select(Append(u, e), R) = IF e \in R THEN Append(Select(u, R), e) ELSE Select(u, R)
    BY SelectAppend
  <2>6. e \in B <=> e \in P /\ e \in R
    BY <1>0
  <2> QED BY <2>1, <2>2, <2>3, <2>4, <2>5, <2>6
<1>3. \A t \in Seq(S) : t \in Q
  <2> HIDE DEF Q
  <2> QED BY <1>1, <1>2, SeqBySets
<1> QED BY <1>0, <1>3

LEMMA SelectCommutes ==
  ASSUME NEW S, NEW s \in Seq(S), NEW P, NEW R
  PROVE  Select(Select(s, P), R) = Select(Select(s, R), P)
<1>1. P \cap R = R \cap P
  OBVIOUS
<1>2. Select(Select(s, P), R) = Select(s, P \cap R) /\ Select(Select(s, R), P) = Select(s, R \cap P)
  BY SelectSelect
<1> QED BY <1>1, <1>2

LEMMA AppendElements ==
  ASSUME NEW S, NEW s \in Seq(S), NEW e \in S
  PROVE  ToSet(Append(s, e)) = ToSet(s) \cup {e}
<1>1. PICK n \in Nat : n = Len(s)
  OBVIOUS
<1>2. PICK a : a = Append(s, e)
  OBVIOUS
<1>3. DOMAIN s = 1..n /\ DOMAIN a = 1..(n + 1) /\ a[n + 1] = e /\ \A i \in 1..n : a[i] = s[i]
  BY <1>1, <1>2
<1>4. DOMAIN a = DOMAIN s \cup {n + 1} /\ n + 1 \notin DOMAIN s
  BY <1>3
<1>5. \A i \in DOMAIN s : a[i] = s[i]
  BY <1>3
<1> QED BY <1>2, <1>3, <1>4, <1>5 DEF ToSet

LEMMA SelectElements ==
  ASSUME NEW S, NEW s \in Seq(S), NEW P
  PROVE  ToSet(Select(s, P)) = ToSet(s) \cap P
<1> DEFINE Q == {t \in Seq(S) : ToSet(Select(t, P)) = ToSet(t) \cap P}
<1>1. << >> \in Q
  BY SelectEmpty DEF ToSet
<1>2. \A t \in Seq(S), e \in S : t \in Q => Append(t, e) \in Q
  <2>1. SUFFICES ASSUME NEW t \in Seq(S), NEW e \in S, ToSet(Select(t, P)) = ToSet(t) \cap P
                 PROVE  ToSet(Select(Append(t, e), P)) = ToSet(Append(t, e)) \cap P
    OBVIOUS
  <2>2. /\ Select(t, P) \in Seq(S)
        /\ Select(Append(t, e), P) = IF e \in P THEN Append(Select(t, P), e) ELSE Select(t, P)
    BY SelectStep
  <2>3. ToSet(Append(t, e)) = ToSet(t) \cup {e}
    BY AppendElements
  <2>4. ToSet(Append(Select(t, P), e)) = ToSet(Select(t, P)) \cup {e}
    BY <2>2, AppendElements
  <2> QED BY <2>1, <2>2, <2>3, <2>4
<1>3. \A t \in Seq(S) : t \in Q
  <2> HIDE DEF Q
  <2> QED BY <1>1, <1>2, SeqBySets
<1> QED BY <1>3

-----------------------------------------------------------------------------
(* What the commands do to the chains.                                     *)

Chains == Chain \cup {"ALL"}
OnChain(c) == {r \in Rule : r.base.chain = c}

\* Each rule is on the chain that it names.
Own(chains) ==
  /\ chains = [c \in Chains |-> chains[c]]
  /\ \A c \in Chains : chains[c] \in Seq(OnChain(c))

Replaced(rules, r) == [i \in DOMAIN rules |-> IF rules[i].base = r.base THEN r ELSE rules[i]]

LEMMA AddedOwn ==
  ASSUME NEW chains, Own(chains), NEW r \in Rule
  PROVE  Own(Added(chains, r))
<1>1. PICK c : c = r.base.chain
  OBVIOUS
<1>2. Added(chains, r) = chains \/ Added(chains, r) = [chains EXCEPT ![c] = Append(chains[c], r)]
  BY <1>1 DEF Added
<1>3. ASSUME NEW z, z = [chains EXCEPT ![c] = Append(chains[c], r)] PROVE Own(z)
  <2>1. DOMAIN chains = Chains /\ z = [d \in Chains |-> z[d]]
    BY <1>3 DEF Own
  <2>2. ASSUME NEW d \in Chains PROVE z[d] \in Seq(OnChain(d))
    <3>1. chains[d] \in Seq(OnChain(d))
      BY DEF Own
    <3>2. CASE d = c
      <4>1. r \in OnChain(d)
        BY <1>1, <3>2 DEF OnChain
      <4>2. z[d] = Append(chains[d], r)
        BY <1>3, <2>1, <3>2
      <4> QED BY <3>1, <4>1, <4>2
    <3>3. CASE d # c
      BY <1>3, <2>1, <3>1, <3>3
    <3> QED BY <3>2, <3>3
  <2> QED BY <2>1, <2>2 DEF Own
<1> QED BY <1>2, <1>3

\* A rule that is sent is there, or one with the same key was.
LEMMA AddedThere ==
  ASSUME NEW chains, Own(chains), NEW r \in Rule, r.base.chain \in Chains, ~PolicyRule(r.base)
  PROVE  (~\E i \in DOMAIN chains[r.base.chain] : chains[r.base.chain][i].base = r.base)
           => r \in ToSet(Added(chains, r)[r.base.chain])
<1>1. PICK c \in Chains : c = r.base.chain
  OBVIOUS
<1>2. SUFFICES ASSUME ~\E i \in DOMAIN chains[c] : chains[c][i].base = r.base
               PROVE  r \in ToSet(Added(chains, r)[c])
  BY <1>1
<1>3. Added(chains, r) = [chains EXCEPT ![c] = Append(chains[c], r)]
  BY <1>1, <1>2 DEF Added
<1>4. chains[c] \in Seq(OnChain(c)) /\ DOMAIN chains = Chains
  BY DEF Own
<1>5. Added(chains, r)[c] = Append(chains[c], r)
  BY <1>3, <1>4
<1>6. PICK s \in Seq(OnChain(c)) : s = chains[c]
  BY <1>4
<1>7. Len(s) + 1 \in DOMAIN Append(s, r) /\ Append(s, r)[Len(s) + 1] = r
  BY <1>6
<1> QED BY <1>5, <1>6, <1>7 DEF ToSet

\* f has the chains after each of the first n rules of a file.
IsAdding(f, n, chains, more) == f = [i \in 0..n |-> IF i = 0 THEN chains ELSE Added(f[i - 1], more[i])]

LEMMA AddingExists ==
  ASSUME NEW chains, NEW more
  PROVE  \A n \in Nat : \E f : IsAdding(f, n, chains, more)
<1> DEFINE T == {n \in Nat : \E f : IsAdding(f, n, chains, more)}
<1>1. 0 \in T
  <2>1. PICK f : f = [i \in 0..0 |-> chains]
    OBVIOUS
  <2>2. IsAdding(f, 0, chains, more)
    BY <2>1 DEF IsAdding
  <2> QED BY <2>2
<1>2. ASSUME NEW n \in Nat, n \in T PROVE n + 1 \in T
  <2>1. PICK f : IsAdding(f, n, chains, more)
    BY <1>2
  <2>2. PICK new : new = Added(f[n], more[n + 1])
    OBVIOUS
  <2>3. PICK g : g = [i \in 0..(n + 1) |-> IF i = n + 1 THEN new ELSE f[i]]
    OBVIOUS
  <2>4. ASSUME NEW i \in 0..(n + 1)
        PROVE  g[i] = IF i = 0 THEN chains ELSE Added(g[i - 1], more[i])
    <3>1. CASE i = n + 1
      <4>1. i # 0 /\ i - 1 = n /\ n \in 0..(n + 1) /\ n # n + 1
        BY <3>1
      <4>2. g[n] = f[n] /\ g[i] = new
        BY <2>3, <3>1, <4>1
      <4> QED BY <2>2, <3>1, <4>1, <4>2
    <3>2. CASE i \in 0..n
      <4>1. i # n + 1 /\ (i # 0 => i - 1 \in 0..n /\ i - 1 \in 0..(n + 1) /\ i - 1 # n + 1)
        BY <3>2
      <4>2. g[i] = f[i] /\ (i # 0 => g[i - 1] = f[i - 1])
        BY <2>3, <4>1
      <4>3. f[i] = IF i = 0 THEN chains ELSE Added(f[i - 1], more[i])
        BY <2>1, <3>2 DEF IsAdding
      <4> QED BY <4>2, <4>3
    <3>3. i \in 0..n \/ i = n + 1
      OBVIOUS
    <3> QED BY <3>1, <3>2, <3>3
  <2>5. IsAdding(g, n + 1, chains, more)
    <3>1. g = [i \in 0..(n + 1) |-> g[i]]
      BY <2>3
    <3> QED BY <2>4, <3>1 DEF IsAdding
  <2> QED BY <2>5
<1>3. \A n \in Nat : n \in T
  <2>1. \A n \in Nat : n \in T => n + 1 \in T
    BY <1>2
  <2> HIDE DEF T
  <2> QED BY <1>1, <2>1, NatBySets
<1> QED BY <1>3

LEMMA AddingIs ==
  ASSUME NEW chains, NEW more, Len(more) \in Nat
  PROVE  \E f : IsAdding(f, Len(more), chains, more) /\ AddedAll(chains, more) = f[Len(more)]
<1> DEFINE all == CHOOSE f : f = [i \in 0..Len(more) |-> IF i = 0 THEN chains ELSE Added(f[i - 1], more[i])]
<1>1. IsAdding(all, Len(more), chains, more)
  <2>1. \E f : IsAdding(f, Len(more), chains, more)
    BY AddingExists
  <2> QED BY <2>1 DEF IsAdding
<1>2. AddedAll(chains, more) = all[Len(more)]
  BY Zenon DEF AddedAll
<1> HIDE DEF all
<1> QED BY <1>1, <1>2

LEMMA AddedAllOwn ==
  ASSUME NEW chains, Own(chains), NEW more \in Seq(Rule)
  PROVE  Own(AddedAll(chains, more))
<1>1. PICK N \in Nat : N = Len(more) /\ \A i \in 1..N : more[i] \in Rule
  OBVIOUS
<1>2. PICK f : IsAdding(f, N, chains, more) /\ AddedAll(chains, more) = f[N]
  BY <1>1, AddingIs
<1> DEFINE T == {n \in Nat : n <= N => Own(f[n])}
<1>3. 0 \in T
  BY <1>1, <1>2 DEF IsAdding
<1>4. ASSUME NEW n \in Nat, n \in T PROVE n + 1 \in T
  <2>1. SUFFICES ASSUME n + 1 <= N PROVE Own(f[n + 1])
    OBVIOUS
  <2>2. n + 1 \in 0..N /\ n + 1 # 0 /\ (n + 1) - 1 = n /\ n <= N /\ n + 1 \in 1..N
    BY <1>1, <2>1
  <2>3. f[n + 1] = Added(f[n], more[n + 1])
    BY <1>2, <2>2 DEF IsAdding
  <2>4. Own(f[n])
    BY <1>4, <2>2
  <2> QED BY <1>1, <2>2, <2>3, <2>4, AddedOwn
<1>5. \A n \in Nat : n \in T
  <2>1. \A n \in Nat : n \in T => n + 1 \in T
    BY <1>4
  <2> HIDE DEF T
  <2> QED BY <1>3, <2>1, NatBySets
<1> QED BY <1>1, <1>2, <1>5

LEMMA ChangeOne ==
  ASSUME NEW x \in Rule, NEW s, s.off \in {"NO", "YES"}, s.policy \in Policy, NEW r, r = RuleOf(s)
  PROVE  Change(x, s) = IF x.base = r.base THEN r ELSE x
<1>1. s.off # "NONE" /\ s.policy # "NONE" /\ r.base = s.base
  BY DEF Policy, RuleOf
<1>2. CASE x.base # s.base
  BY <1>1, <1>2 DEF Change
<1>3. CASE x.base = s.base
  <2>1. PICK z : z = [x EXCEPT !.off = IF s.off = "NONE" THEN @ ELSE s.off,
                               !.policy = IF s.policy = "NONE" THEN @ ELSE s.policy]
    OBVIOUS
  <2>2. PICK b, o, p : x = [base |-> b, off |-> o, policy |-> p]
    BY DEF Rule
  <2>3. z = [base |-> b, off |-> s.off, policy |-> s.policy]
    BY ONLY <1>1, <2>1, <2>2
  <2>4. b = s.base
    BY <1>3, <2>2
  <2>5. Change(x, s) = z
    BY <1>3, <2>1 DEF Change
  <2> QED BY <1>1, <1>3, <2>3, <2>4, <2>5 DEF RuleOf
<1> QED BY <1>2, <1>3

LEMMA ChangedIs ==
  ASSUME NEW chains, Own(chains), NEW s, s.off \in {"NO", "YES"}, s.policy \in Policy, NEW r, r = RuleOf(s)
  PROVE  Changed(chains, s) = [c \in Chains |-> Replaced(chains[c], r)]
<1>1. DOMAIN chains = Chains
  BY DEF Own
<1>2. ASSUME NEW c \in Chains, NEW i \in DOMAIN chains[c]
      PROVE  chains[c][i] \in Rule
  <2>1. PICK t \in Seq(OnChain(c)) : t = chains[c]
    BY DEF Own
  <2>2. t[i] \in OnChain(c)
    BY <2>1
  <2> QED BY <2>1, <2>2 DEF OnChain
<1>3. ASSUME NEW c \in Chains, NEW i \in DOMAIN chains[c]
      PROVE  Change(chains[c][i], s) = IF chains[c][i].base = r.base THEN r ELSE chains[c][i]
  BY <1>2, ChangeOne
<1> QED BY <1>1, <1>3 DEF Changed, Replaced

LEMMA ReplacedType ==
  ASSUME NEW c, NEW rules \in Seq(OnChain(c)), NEW r \in Rule
  PROVE  Replaced(rules, r) \in Seq(OnChain(c))
<1>1. \A i \in 1..Len(rules) : rules[i] \in OnChain(c)
  OBVIOUS
<1>2. \A i \in 1..Len(rules) : (IF rules[i].base = r.base THEN r ELSE rules[i]) \in OnChain(c)
  BY <1>1 DEF OnChain
<1>3. Replaced(rules, r) = [i \in 1..Len(rules) |-> IF rules[i].base = r.base THEN r ELSE rules[i]]
  BY DEF Replaced
<1> HIDE DEF Replaced
<1> QED BY <1>2, <1>3

LEMMA ChangedOwn ==
  ASSUME NEW chains, Own(chains), NEW s, s.off \in {"NO", "YES"}, s.policy \in Policy, RuleOf(s) \in Rule
  PROVE  Own(Changed(chains, s))
<1>1. PICK r \in Rule : r = RuleOf(s)
  OBVIOUS
<1>2. PICK z : z = [c \in Chains |-> Replaced(chains[c], r)]
  OBVIOUS
<1>3. Changed(chains, s) = z
  BY <1>1, <1>2, ChangedIs
<1>4. \A c \in Chains : z[c] \in Seq(OnChain(c))
  BY <1>2, ReplacedType DEF Own
<1>5. z = [c \in Chains |-> z[c]]
  BY <1>2
<1> QED BY <1>3, <1>4, <1>5 DEF Own

LEMMA ChangedThere ==
  ASSUME NEW chains, Own(chains), NEW s, s.off \in {"NO", "YES"}, s.policy \in Policy,
         NEW c \in Chains, NEW i \in DOMAIN chains[c], chains[c][i].base = s.base
  PROVE  RuleOf(s) \in ToSet(Changed(chains, s)[c])
<1>1. PICK r : r = RuleOf(s)
  OBVIOUS
<1>2. Changed(chains, s)[c] = Replaced(chains[c], r)
  BY <1>1, ChangedIs
<1>3. PICK z : z = Replaced(chains[c], r)
  OBVIOUS
<1>4. i \in DOMAIN z /\ z[i] = r
  <2>1. r.base = s.base
    BY <1>1 DEF RuleOf
  <2> QED BY <1>3, <2>1 DEF Replaced
<1> QED BY <1>1, <1>2, <1>3, <1>4 DEF ToSet

LEMMA WithoutOwn ==
  ASSUME NEW chains, Own(chains), NEW base
  PROVE  /\ Own(Without(chains, base))
         /\ \A c \in Chains : \A x \in ToSet(Without(chains, base)[c]) : x.base # base
<1>1. PICK P : P = {r \in Rule : r.base # base}
  OBVIOUS
<1>2. PICK z : z = [c \in Chains |-> Select(chains[c], P)]
  OBVIOUS
<1>3. Without(chains, base) = z
  BY <1>1, <1>2 DEF Without, Own
<1>4. ASSUME NEW c \in Chains PROVE z[c] \in Seq(OnChain(c) \cap P)
  BY <1>2, SelectType DEF Own
<1>5. ASSUME NEW c \in Chains PROVE z[c] \in Seq(OnChain(c)) /\ \A x \in ToSet(z[c]) : x.base # base
  <2>1. PICK t \in Seq(OnChain(c) \cap P) : t = z[c]
    BY <1>4
  <2>2. \A i \in DOMAIN t : t[i] \in OnChain(c) \cap P
    BY <2>1
  <2>3. t \in Seq(OnChain(c))
    BY <1>4, <2>1, SeqMonotonic, OnChain(c) \cap P \subseteq OnChain(c)
  <2> QED BY <1>1, <2>1, <2>2, <2>3 DEF ToSet
<1>6. z = [c \in Chains |-> z[c]]
  BY <1>2
<1>7. Own(z)
  BY <1>5, <1>6 DEF Own
<1> QED BY <1>3, <1>5, <1>7

-----------------------------------------------------------------------------
(* What bfctl reports.                                                     *)

LEMMA OwnInit == Init => Own(chain)
<1>1. SUFFICES ASSUME chain = [c \in Chains |-> <<>>] PROVE Own(chain)
  BY DEF Init, Chains
<1>2. \A c \in Chains : <<>> \in Seq(OnChain(c))
  OBVIOUS
<1> QED BY <1>1, <1>2 DEF Own

\* What is known of a line when its command is carried out.
LEMMA Carried ==
  ASSUME NEW line \in Line, WellFormed(line), NEW s, s = ParseCmdArgs(line), s.command # "help"
  PROVE  /\ ~Wrong(line)
         /\ s.command = line[1].opt
         /\ s.command # "file" => s.base = Asked(line).base
         /\ s.command \notin {"file", "policy"} => RuleOf(s) = Asked(line)
         /\ s.command # "file" => Asked(line) \in Rule /\ Asked(line).base.chain \in Chains
         /\ s.command \notin {"file", "policy"} => s.off \in {"NO", "YES"} /\ s.policy \in Policy
<1>1. ~Wrong(line) /\ s.command = line[1].opt
  BY Understood
<1>2. s.command # "file" => s.base = Asked(line).base
  BY <1>1, Understood
<1>3. s.off = Asked(line).off /\ (s.command # "policy" => s.policy = Asked(line).policy)
  BY <1>1, Understood
<1>4. s.command \notin {"file", "policy"} => RuleOf(s) = Asked(line)
  BY <1>2, <1>3, AskedIs DEF RuleOf
<1>5. s.command # "file" => Asked(line) \in Rule /\ Asked(line).base.chain \in Chains
  BY <1>1, AskedType DEF Chains, Chain
<1>6. s.command # "file" => Asked(line).off \in {"NO", "YES"} /\ Asked(line).policy \in Policy
  BY <1>5 DEF Rule
<1> QED BY <1>1, <1>2, <1>3, <1>4, <1>5, <1>6

\* What a line asks for has what it names.
LEMMA HasAsked ==
  ASSUME NEW line
  PROVE  HasNamed(line, Asked(line))
<1>1. ASSUME NEW opt, NEW d PROVE Given(line, opt, d) = Given(line, opt, Given(line, opt, d))
  BY DEF Given
<1> QED BY <1>1 DEF HasNamed, Asked

LEMMA ReportOf ==
  ASSUME NEW line, NEW said, seen' = [what |-> "typed", line |-> line, said |-> said],
         said \in {"added", "updated"} => \E c \in DOMAIN chain' : Asked(line) \in ToSet(chain'[c]),
         said = "have" => \E c \in DOMAIN chain' : \E x \in ToSet(chain'[c]) : x.base = Asked(line).base,
         said \in {"deleted", "missing"} =>
           \A c \in DOMAIN chain' : \A x \in ToSet(chain'[c]) : x.base # Asked(line).base
  PROVE  ReportIsTrue'
<1>1. seen'.what = "typed" /\ seen'.line = line /\ seen'.said = said
  OBVIOUS
<1>2. PICK r : r = Asked(line)
  OBVIOUS
<1>3. CASE said = "added"
  BY <1>1, <1>3 DEF ReportIsTrue
<1>4. CASE said = "updated"
  <2>1. PICK c \in DOMAIN chain' : r \in ToSet(chain'[c])
    BY <1>2, <1>4
  <2>2. r \in UNION {ToSet(chain'[d]) : d \in DOMAIN chain'} /\ r.base = Asked(line).base /\ HasNamed(line, r)
    BY <1>2, <2>1, HasAsked
  <2> QED BY <1>1, <1>4, <2>2 DEF ReportIsTrue
<1>5. CASE said \notin {"added", "updated"}
  BY <1>1, <1>5 DEF ReportIsTrue
<1> QED BY <1>3, <1>4, <1>5

LEMMA ReportElse ==
  ASSUME seen'.what # "typed"
  PROVE  ReportIsTrue'
BY DEF ReportIsTrue

\* A rule that a line names with its protocol is none of policy_rule().
LEMMA NoPolicyRule ==
  ASSUME NEW r \in Rule, r.base.proto \in {"ALL", "TCP", "UDP"}
  PROVE  ~PolicyRule(r.base)
<1>1. PICK z : z = [r.base EXCEPT !.chain = "NONE"]
  OBVIOUS
<1>2. z.proto = r.base.proto
  <2>1. r.base \in Base
    BY DEF Rule
  <2> QED BY <1>1, <2>1 DEF Base
<1> QED BY <1>1, <1>2 DEF PolicyRule, NoBase

LEMMA ReportAppend ==
  ASSUME Own(chain), NEW line \in Line, WellFormed(line), AddRule(line)
  PROVE  Own(chain') /\ ReportIsTrue'
<1>1. PICK s : s = ParseCmdArgs(line)
  OBVIOUS
<1>2. PICK said : said = IF ~PolicyRule(s.base) /\ Held(s.base) THEN "have" ELSE "added"
  OBVIOUS
<1>3. s.command = "append" /\ chain' = Added(chain, RuleOf(s))
  BY <1>1, Zenon DEF AddRule
<1>4. seen' = [what |-> "typed", line |-> line, said |-> said]
  BY <1>1, <1>2, Zenon DEF AddRule, Says
<1>5. PICK r \in Rule : r = Asked(line)
  BY <1>1, <1>3, Carried
<1>6. RuleOf(s) = r /\ s.base = r.base /\ r.base.chain \in Chains /\ line[1].opt = "append" /\ ~Wrong(line)
  BY <1>1, <1>3, <1>5, Carried
<1>7. ~PolicyRule(r.base)
  BY <1>5, <1>6, AskedType, NoPolicyRule
<1>8. Own(chain')
  BY <1>3, <1>6, AddedOwn
<1>9. DOMAIN chain = Chains /\ DOMAIN chain' = Chains
  BY <1>8 DEF Own
<1>10. PICK c \in Chains : c = r.base.chain
  BY <1>6
<1>11. Held(r.base) <=> \E i \in DOMAIN chain[c] : chain[c][i].base = r.base
  BY <1>10 DEF Held
<1>12. CASE Held(r.base)
  <2>1. said = "have" /\ chain' = chain
    <3>1. said = "have"
      BY <1>2, <1>6, <1>7, <1>12
    <3>2. Added(chain, r) = chain
      BY <1>10, <1>11, <1>12 DEF Added
    <3> QED BY <1>3, <1>6, <3>1, <3>2
  <2>2. \E x \in ToSet(chain'[c]) : x.base = Asked(line).base
    BY <1>5, <1>11, <1>12, <2>1 DEF ToSet
  <2> QED BY <1>4, <1>8, <1>9, <2>1, <2>2, ReportOf
<1>13. CASE ~Held(r.base)
  <2>1. said = "added"
    BY <1>2, <1>6, <1>13
  <2>2. Asked(line) \in ToSet(chain'[c])
    BY <1>3, <1>5, <1>6, <1>7, <1>10, <1>11, <1>13, AddedThere
  <2> QED BY <1>4, <1>8, <1>9, <2>1, <2>2, ReportOf
<1> QED BY <1>12, <1>13

LEMMA ReportUpdate ==
  ASSUME Own(chain), NEW line \in Line, WellFormed(line), UpdateRule(line)
  PROVE  Own(chain') /\ ReportIsTrue'
<1>1. PICK s : s = ParseCmdArgs(line)
  OBVIOUS
<1>2. PICK said : said = IF Held(s.base) THEN "updated" ELSE "missing"
  OBVIOUS
<1>3. s.command = "update" /\ chain' = Changed(chain, s)
  BY <1>1, Zenon DEF UpdateRule
<1>4. seen' = [what |-> "typed", line |-> line, said |-> said]
  BY <1>1, <1>2, Zenon DEF UpdateRule, Says
<1>5. PICK r \in Rule : r = Asked(line)
  BY <1>1, <1>3, Carried
<1>6. /\ RuleOf(s) = r /\ s.base = r.base /\ r.base.chain \in Chains
      /\ s.off \in {"NO", "YES"} /\ s.policy \in Policy
  BY <1>1, <1>3, <1>5, Carried
<1>7. Own(chain')
  BY <1>3, <1>6, ChangedOwn
<1>8. DOMAIN chain = Chains /\ DOMAIN chain' = Chains
  BY <1>7 DEF Own
<1>9. PICK c \in Chains : c = r.base.chain
  BY <1>6
<1>10. Held(s.base) <=> \E i \in DOMAIN chain[c] : chain[c][i].base = r.base
  BY <1>6, <1>9 DEF Held
<1>11. CASE Held(s.base)
  <2>1. Asked(line) \in ToSet(chain'[c])
    BY <1>3, <1>5, <1>6, <1>10, <1>11, ChangedThere
  <2> QED BY <1>2, <1>4, <1>7, <1>8, <1>11, <2>1, ReportOf
<1>12. CASE ~Held(s.base)
  <2>1. ASSUME NEW d \in Chains, NEW x \in ToSet(chain'[d]) PROVE x.base # r.base
    <3>1. PICK t \in Seq(OnChain(d)) : t = chain[d]
      BY DEF Own
    <3>2. chain'[d] = Replaced(t, r)
      BY <1>3, <1>6, <3>1, ChangedIs
    <3>3. PICK i \in DOMAIN Replaced(t, r) : x = Replaced(t, r)[i]
      BY <2>1, <3>2 DEF ToSet
    <3>4. i \in DOMAIN t /\ x = IF t[i].base = r.base THEN r ELSE t[i]
      BY <3>3 DEF Replaced
    <3>5. t[i] \in OnChain(d)
      BY <3>1, <3>4
    <3>6. t[i].base # r.base
      <4>1. t[i].base = r.base => d = c
        BY <1>9, <3>5 DEF OnChain
      <4> QED BY <1>10, <1>12, <3>1, <3>4, <4>1
    <3> QED BY <3>4, <3>6
  <2> QED BY <1>2, <1>4, <1>5, <1>7, <1>8, <1>12, <2>1, ReportOf
<1> QED BY <1>11, <1>12

LEMMA ReportDelete ==
  ASSUME Own(chain), NEW line \in Line, WellFormed(line), DeleteRule(line)
  PROVE  Own(chain') /\ ReportIsTrue'
<1>1. PICK s : s = ParseCmdArgs(line)
  OBVIOUS
<1>2. PICK said : said = IF Held(s.base) THEN "deleted" ELSE "missing"
  OBVIOUS
<1>3. s.command = "delete" /\ chain' = Without(chain, s.base)
  BY <1>1, Zenon DEF DeleteRule
<1>4. seen' = [what |-> "typed", line |-> line, said |-> said]
  BY <1>1, <1>2, Zenon DEF DeleteRule, Says
<1>5. s.base = Asked(line).base
  BY <1>1, <1>3, Carried
<1>6. Own(chain') /\ \A c \in Chains : \A x \in ToSet(chain'[c]) : x.base # Asked(line).base
  BY <1>3, <1>5, WithoutOwn
<1>7. DOMAIN chain' = Chains
  BY <1>6 DEF Own
<1> QED BY <1>2, <1>4, <1>6, <1>7, ReportOf

\* The rest tell nothing of rules.
LEMMA ReportOthers ==
  ASSUME Own(chain), NEW line \in Line, WellFormed(line),
         DeleteRules(line) \/ ChainPolicy(line) \/ LoadFromFile(line) \/ PrintHelp(line) \/ ListRules(line)
  PROVE  Own(chain') /\ ReportIsTrue'
<1>1. ASSUME NEW said \in {"", "policy", "help"}, Says(line, said) PROVE ReportIsTrue'
  BY <1>1, ReportOf DEF Says
<1>2. CASE DeleteRules(line)
  <2>1. chain' = [c \in Chains |-> <<>>]
    BY <1>2 DEF DeleteRules, Own
  <2>2. Own(chain')
    <3>1. \A c \in Chains : <<>> \in Seq(OnChain(c))
      OBVIOUS
    <3> QED BY <2>1, <3>1 DEF Own
  <2> QED BY <1>1, <1>2, <2>2 DEF DeleteRules
<1>3. CASE ChainPolicy(line)
  <2>1. chain' = chain /\ Says(line, "policy")
    BY <1>3, Zenon DEF ChainPolicy
  <2> QED BY <1>1, <2>1
<1>4. CASE LoadFromFile(line)
  <2>1. PICK s : s = ParseCmdArgs(line)
    OBVIOUS
  <2>2. /\ chain' = IF s.file \in DOMAIN File THEN AddedAll(chain, File[s.file]) ELSE chain
        /\ Says(line, "")
    BY <1>4, <2>1, Zenon DEF LoadFromFile
  <2>3. s.file \in DOMAIN File => File[s.file] \in Seq(Rule)
    BY FileAssumption
  <2>4. Own(chain')
    BY <2>2, <2>3, AddedAllOwn
  <2> QED BY <1>1, <2>2, <2>4
<1>5. CASE PrintHelp(line)
  BY <1>1, <1>5 DEF PrintHelp
<1>6. CASE ListRules(line)
  <2>1. chain' = chain
    BY <1>6 DEF ListRules
  <2>2. seen'.what = "listing"
    BY <1>6 DEF ListRules
  <2> QED BY <2>1, <2>2, ReportElse
<1> QED BY <1>2, <1>3, <1>4, <1>5, <1>6

LEMMA ReportStep ==
  ASSUME WellFormedLines, Own(chain), ReportIsTrue, [Next]_vars
  PROVE  Own(chain') /\ ReportIsTrue'
<1>1. ASSUME NEW line \in Line, ProcessCommand(line) PROVE Own(chain') /\ ReportIsTrue'
  <2>1. WellFormed(line)
    BY DEF WellFormedLines
  <2>2. CASE AddRule(line)
    BY <2>1, <2>2, ReportAppend
  <2>3. CASE UpdateRule(line)
    BY <2>1, <2>3, ReportUpdate
  <2>4. CASE DeleteRule(line)
    BY <2>1, <2>4, ReportDelete
  <2>5. CASE DeleteRules(line) \/ ChainPolicy(line) \/ LoadFromFile(line) \/ PrintHelp(line) \/ ListRules(line)
    BY <2>1, <2>5, ReportOthers
  <2> QED BY <1>1, <2>2, <2>3, <2>4, <2>5, Zenon DEF ProcessCommand
<1>2. ASSUME NEW c \in Chain, NEW p \in Packet, HookFunc(c, p) PROVE Own(chain') /\ ReportIsTrue'
  <2>1. chain' = chain /\ seen'.what = "verdict"
    BY <1>2 DEF HookFunc
  <2> QED BY <2>1, ReportElse
<1>3. CASE UNCHANGED vars
  BY <1>3 DEF vars, ReportIsTrue
<1> QED BY <1>1, <1>2, <1>3 DEF Next

\* What bfctl prints of a command is so, for any rules, files and lines, if the lines
\* are well formed: a rule that was added or updated is there with what was typed, one
\* that was there already is, and one that was deleted or not found is not.
THEOREM ReportsAreTrue ==
  ASSUME WellFormedLines
  PROVE  Spec => []ReportIsTrue
<1>1. Init => Own(chain) /\ ReportIsTrue
  <2>1. Init => ReportIsTrue
    BY DEF Init, ReportIsTrue
  <2> QED BY <2>1, OwnInit
<1>2. Own(chain) /\ ReportIsTrue /\ [Next]_vars => (Own(chain) /\ ReportIsTrue)'
  BY ReportStep
<1> QED BY <1>1, <1>2, PTL DEF Spec

-----------------------------------------------------------------------------
(* The chains have what was typed.                                         *)

Matches(rules, chains) == rules \in Seq(Rule) /\ chains = [c \in Chains |-> Select(rules, OnChain(c))]

LEMMA MatchesOwn ==
  ASSUME NEW rules, NEW chains, Matches(rules, chains)
  PROVE  Own(chains)
<1>1. ASSUME NEW c \in Chains PROVE chains[c] \in Seq(OnChain(c))
  <2>1. chains[c] = Select(rules, OnChain(c)) /\ rules \in Seq(Rule)
    BY DEF Matches
  <2>2. Select(rules, OnChain(c)) \in Seq(Rule \cap OnChain(c))
    BY <2>1, SelectType
  <2> QED BY <2>1, <2>2, SeqMonotonic, Rule \cap OnChain(c) \subseteq OnChain(c)
<1>2. chains = [c \in Chains |-> chains[c]]
  BY DEF Matches
<1> QED BY <1>1, <1>2 DEF Own

\* The chain that a rule names has its key exactly if the rules typed have it.
LEMMA SameKeys ==
  ASSUME NEW rules, NEW chains, Matches(rules, chains), NEW base, NEW c \in Chains, base.chain = c
  PROVE  (\E i \in DOMAIN rules : rules[i].base = base) <=> (\E i \in DOMAIN chains[c] : chains[c][i].base = base)
<1>1. PICK s \in Seq(Rule) : s = rules
  BY DEF Matches
<1>2. PICK t : t = chains[c]
  OBVIOUS
<1>3. ToSet(t) = ToSet(s) \cap OnChain(c)
  BY <1>1, <1>2, SelectElements DEF Matches
<1>4. \A i \in DOMAIN s : s[i] \in Rule
  BY <1>1
<1>5. (\E i \in DOMAIN s : s[i].base = base) <=> \E x \in ToSet(s) : x.base = base
  BY DEF ToSet
<1>6. (\E i \in DOMAIN t : t[i].base = base) <=> \E x \in ToSet(t) : x.base = base
  BY DEF ToSet
<1>7. \A x \in ToSet(s) : x.base = base => x \in OnChain(c)
  BY <1>4 DEF ToSet, OnChain
<1> QED BY <1>1, <1>2, <1>3, <1>5, <1>6, <1>7

LEMMA MatchesAppend ==
  ASSUME NEW rules, NEW chains, Matches(rules, chains), NEW r \in Rule, ~PolicyRule(r.base)
  PROVE  Matches(With(rules, r), Added(chains, r))
<1>1. PICK s \in Seq(Rule) : s = rules
  BY DEF Matches
<1>2. \A c \in Chains : chains[c] = Select(s, OnChain(c))
  BY <1>1 DEF Matches
<1>3. chains = [c \in Chains |-> chains[c]]
  BY DEF Matches
<1>4. PICK u \in Seq(Rule) : u = Append(s, r)
  <2>1. Append(s, r) \in Seq(Rule)
    OBVIOUS
  <2> QED BY <2>1
<1>5. \A c \in Chains : Select(u, OnChain(c)) =
        IF r \in OnChain(c) THEN Append(Select(s, OnChain(c)), r) ELSE Select(s, OnChain(c))
  BY <1>4, SelectAppend
<1>6. \A c : r \in OnChain(c) <=> c = r.base.chain
  BY DEF OnChain
<1>7. PICK k : k = r.base.chain
  OBVIOUS
<1>8. PICK z : z = [chains EXCEPT ![k] = Append(chains[k], r)]
  OBVIOUS
<1>9. z = [c \in Chains |-> z[c]] /\ \A c \in Chains : z[c] = IF c = k THEN Append(chains[c], r) ELSE chains[c]
  BY <1>3, <1>8
<1>10. \A c \in Chains : z[c] = Select(u, OnChain(c))
  BY <1>2, <1>5, <1>6, <1>7, <1>9
<1>11. Matches(u, z)
  BY <1>4, <1>9, <1>10 DEF Matches
<1>12. CASE k \in Chains
  <2>1. (\E i \in DOMAIN s : s[i].base = r.base) <=> (\E i \in DOMAIN chains[k] : chains[k][i].base = r.base)
    BY <1>1, <1>7, <1>12, SameKeys
  <2>2. CASE \E i \in DOMAIN s : s[i].base = r.base
    <3>1. With(rules, r) = rules
      BY <1>1, <2>2 DEF With
    <3>2. Added(chains, r) = chains
      BY <1>7, <2>1, <2>2 DEF Added
    <3> QED BY <3>1, <3>2
  <2>3. CASE ~\E i \in DOMAIN s : s[i].base = r.base
    <3>1. With(rules, r) = u
      BY <1>1, <1>4, <2>3 DEF With
    <3>2. Added(chains, r) = z
      BY <1>7, <1>8, <2>1, <2>3 DEF Added
    <3> QED BY <1>11, <3>1, <3>2
  <2> QED BY <2>2, <2>3
<1>13. CASE k \notin Chains
  <2>1. z = chains
    BY <1>3, <1>9, <1>13
  <2>2. Added(chains, r) = chains
    BY <1>7, <1>8, <2>1 DEF Added
  <2>3. With(rules, r) = rules \/ With(rules, r) = u
    BY <1>1, <1>4 DEF With
  <2> QED BY <1>11, <2>1, <2>2, <2>3
<1> QED BY <1>12, <1>13

LEMMA MatchesWithout ==
  ASSUME NEW rules, NEW chains, Matches(rules, chains), NEW base
  PROVE  Matches(Select(rules, {x \in Rule : x.base # base}), Without(chains, base))
<1>1. PICK D : D = {x \in Rule : x.base # base}
  OBVIOUS
<1>2. PICK s \in Seq(Rule) : s = rules
  BY DEF Matches
<1>3. PICK t \in Seq(Rule) : t = Select(s, D)
  BY SelectKeepsType
<1>4. Without(chains, base) = [c \in Chains |-> Select(chains[c], D)]
  BY <1>1 DEF Without, Matches
<1>5. ASSUME NEW c \in Chains PROVE Select(chains[c], D) = Select(t, OnChain(c))
  <2>1. chains[c] = Select(s, OnChain(c))
    BY <1>2 DEF Matches
  <2>2. Select(Select(s, D), OnChain(c)) = Select(Select(s, OnChain(c)), D)
    BY SelectCommutes
  <2> QED BY <1>3, <2>1, <2>2
<1>6. Without(chains, base) = [c \in Chains |-> Select(t, OnChain(c))]
  BY <1>4, <1>5
<1>7. Matches(t, Without(chains, base))
  BY <1>6 DEF Matches
<1> QED BY <1>1, <1>2, <1>3, <1>7

LEMMA ReplacedAppend ==
  ASSUME NEW s \in Seq(Rule), NEW e \in Rule, NEW r \in Rule
  PROVE  /\ Replaced(s, r) \in Seq(Rule)
         /\ Replaced(Append(s, e), r) = Append(Replaced(s, r), IF e.base = r.base THEN r ELSE e)
<1>1. PICK n \in Nat : n = Len(s)
  OBVIOUS
<1>2. PICK a \in Seq(Rule) : a = Append(s, e)
  <2>1. Append(s, e) \in Seq(Rule)
    OBVIOUS
  <2> QED BY <2>1
<1>3. Len(a) = n + 1 /\ a[n + 1] = e /\ \A i \in 1..n : a[i] = s[i]
  BY <1>1, <1>2
<1>4. PICK x \in Rule : x = IF e.base = r.base THEN r ELSE e
  OBVIOUS
<1>5. PICK y : y = Replaced(s, r)
  OBVIOUS
<1>6. y = [i \in 1..n |-> IF s[i].base = r.base THEN r ELSE s[i]]
  BY <1>1, <1>5 DEF Replaced
<1>7. \A i \in 1..n : (IF s[i].base = r.base THEN r ELSE s[i]) \in Rule
  BY <1>1
<1>8. y \in Seq(Rule) /\ Len(y) = n
  BY <1>6, <1>7
<1>9. PICK z : z = Replaced(a, r)
  OBVIOUS
<1>10. z = [i \in 1..(n + 1) |-> IF a[i].base = r.base THEN r ELSE a[i]]
  BY <1>3, <1>9 DEF Replaced
<1>11. \A i \in 1..(n + 1) : (IF a[i].base = r.base THEN r ELSE a[i]) \in Rule
  BY <1>2, <1>3
<1>12. z \in Seq(Rule) /\ Len(z) = n + 1
  BY <1>10, <1>11
<1>13. PICK q \in Seq(Rule) : q = Append(y, x)
  <2>1. Append(y, x) \in Seq(Rule)
    BY <1>8
  <2> QED BY <2>1
<1>14. Len(q) = n + 1 /\ q[n + 1] = x /\ \A i \in 1..n : q[i] = y[i]
  BY <1>8, <1>13
<1>15. ASSUME NEW i \in 1..(n + 1) PROVE z[i] = q[i]
  <2>1. CASE i = n + 1
    BY <1>3, <1>4, <1>10, <1>14, <2>1
  <2>2. CASE i \in 1..n
    BY <1>3, <1>6, <1>10, <1>14, <2>2
  <2> QED BY <2>1, <2>2
<1>16. z = q
  BY <1>12, <1>14, <1>15, SeqEqual
<1> QED BY <1>2, <1>4, <1>5, <1>8, <1>9, <1>13, <1>16

LEMMA SelectReplaced ==
  ASSUME NEW s \in Seq(Rule), NEW r \in Rule, NEW c
  PROVE  Select(Replaced(s, r), OnChain(c)) = Replaced(Select(s, OnChain(c)), r)
<1> DEFINE Q == {t \in Seq(Rule) : Select(Replaced(t, r), OnChain(c)) = Replaced(Select(t, OnChain(c)), r)}
<1>1. << >> \in Q
  <2>1. Replaced(<< >>, r) = << >>
    BY DEF Replaced
  <2> QED BY <2>1, SelectEmpty
<1>2. \A t \in Seq(Rule), e \in Rule : t \in Q => Append(t, e) \in Q
  <2>1. SUFFICES ASSUME NEW t \in Seq(Rule), NEW e \in Rule,
                        Select(Replaced(t, r), OnChain(c)) = Replaced(Select(t, OnChain(c)), r)
                 PROVE  Select(Replaced(Append(t, e), r), OnChain(c)) = Replaced(Select(Append(t, e), OnChain(c)), r)
    OBVIOUS
  <2>2. PICK x \in Rule : x = IF e.base = r.base THEN r ELSE e
    OBVIOUS
  <2>3. x \in OnChain(c) <=> e \in OnChain(c)
    BY <2>2 DEF OnChain
  <2>4. PICK y \in Seq(Rule) : y = Replaced(t, r)
    BY ReplacedAppend
  <2>5. Replaced(Append(t, e), r) = Append(y, x)
    BY <2>2, <2>4, ReplacedAppend
  <2>6. Select(Append(y, x), OnChain(c)) =
          IF x \in OnChain(c) THEN Append(Select(y, OnChain(c)), x) ELSE Select(y, OnChain(c))
    BY SelectAppend
  <2>7. PICK v \in Seq(Rule) : v = Select(t, OnChain(c))
    BY SelectKeepsType
  <2>8. Select(Append(t, e), OnChain(c)) = IF e \in OnChain(c) THEN Append(v, e) ELSE v
    BY <2>7, SelectAppend
  <2>9. Replaced(Append(v, e), r) = Append(Replaced(v, r), x)
    BY <2>2, ReplacedAppend
  <2>10. CASE e \in OnChain(c)
    <3>1. Select(Replaced(Append(t, e), r), OnChain(c)) = Append(Select(y, OnChain(c)), x)
      BY <2>3, <2>5, <2>6, <2>10
    <3>2. Replaced(Select(Append(t, e), OnChain(c)), r) = Append(Replaced(v, r), x)
      BY <2>8, <2>9, <2>10
    <3> QED BY <2>1, <2>4, <2>7, <3>1, <3>2
  <2>11. CASE e \notin OnChain(c)
    <3>1. Select(Replaced(Append(t, e), r), OnChain(c)) = Select(y, OnChain(c))
      BY <2>3, <2>5, <2>6, <2>11
    <3>2. Replaced(Select(Append(t, e), OnChain(c)), r) = Replaced(v, r)
      BY <2>8, <2>11
    <3> QED BY <2>1, <2>4, <2>7, <3>1, <3>2
  <2> QED BY <2>10, <2>11
<1>3. \A t \in Seq(Rule) : t \in Q
  <2> HIDE DEF Q
  <2> QED BY <1>1, <1>2, SeqBySets
<1> QED BY <1>3

LEMMA MatchesReplaced ==
  ASSUME NEW rules, NEW chains, Matches(rules, chains), NEW r \in Rule
  PROVE  Matches(Replaced(rules, r), [c \in Chains |-> Replaced(chains[c], r)])
<1>1. PICK s \in Seq(Rule) : s = rules
  BY DEF Matches
<1>2. Replaced(s, r) \in Seq(Rule)
  BY ReplacedAppend
<1>3. \A c \in Chains : chains[c] = Select(s, OnChain(c))
  BY <1>1 DEF Matches
<1>4. \A c \in Chains : Select(Replaced(s, r), OnChain(c)) = Replaced(chains[c], r)
  BY <1>3, SelectReplaced
<1> QED BY <1>1, <1>2, <1>4 DEF Matches

LEMMA MatchesNothing == Matches(<<>>, [c \in Chains |-> <<>>])
<1>1. \A c \in Chains : Select(<<>>, OnChain(c)) = <<>>
  BY SelectEmpty
<1>2. <<>> \in Seq(Rule)
  OBVIOUS
<1> QED BY <1>1, <1>2 DEF Matches
\* The same of the rules that were typed.
IsHaving(f, n, rules, more) == f = [i \in 0..n |-> IF i = 0 THEN rules ELSE With(f[i - 1], more[i])]

LEMMA HavingExists ==
  ASSUME NEW rules, NEW more
  PROVE  \A n \in Nat : \E f : IsHaving(f, n, rules, more)
<1> DEFINE T == {n \in Nat : \E f : IsHaving(f, n, rules, more)}
<1>1. 0 \in T
  <2>1. PICK f : f = [i \in 0..0 |-> rules]
    OBVIOUS
  <2>2. IsHaving(f, 0, rules, more)
    BY <2>1 DEF IsHaving
  <2> QED BY <2>2
<1>2. ASSUME NEW n \in Nat, n \in T PROVE n + 1 \in T
  <2>1. PICK f : IsHaving(f, n, rules, more)
    BY <1>2
  <2>2. PICK new : new = With(f[n], more[n + 1])
    OBVIOUS
  <2>3. PICK g : g = [i \in 0..(n + 1) |-> IF i = n + 1 THEN new ELSE f[i]]
    OBVIOUS
  <2>4. ASSUME NEW i \in 0..(n + 1)
        PROVE  g[i] = IF i = 0 THEN rules ELSE With(g[i - 1], more[i])
    <3>1. CASE i = n + 1
      <4>1. i # 0 /\ i - 1 = n /\ n \in 0..(n + 1) /\ n # n + 1
        BY <3>1
      <4>2. g[n] = f[n] /\ g[i] = new
        BY <2>3, <3>1, <4>1
      <4> QED BY <2>2, <3>1, <4>1, <4>2
    <3>2. CASE i \in 0..n
      <4>1. i # n + 1 /\ (i # 0 => i - 1 \in 0..n /\ i - 1 \in 0..(n + 1) /\ i - 1 # n + 1)
        BY <3>2
      <4>2. g[i] = f[i] /\ (i # 0 => g[i - 1] = f[i - 1])
        BY <2>3, <4>1
      <4>3. f[i] = IF i = 0 THEN rules ELSE With(f[i - 1], more[i])
        BY <2>1, <3>2 DEF IsHaving
      <4> QED BY <4>2, <4>3
    <3>3. i \in 0..n \/ i = n + 1
      OBVIOUS
    <3> QED BY <3>1, <3>2, <3>3
  <2>5. IsHaving(g, n + 1, rules, more)
    <3>1. g = [i \in 0..(n + 1) |-> g[i]]
      BY <2>3
    <3> QED BY <2>4, <3>1 DEF IsHaving
  <2> QED BY <2>5
<1>3. \A n \in Nat : n \in T
  <2>1. \A n \in Nat : n \in T => n + 1 \in T
    BY <1>2
  <2> HIDE DEF T
  <2> QED BY <1>1, <2>1, NatBySets
<1> QED BY <1>3

LEMMA HavingIs ==
  ASSUME NEW rules, NEW more, Len(more) \in Nat
  PROVE  \E f : IsHaving(f, Len(more), rules, more) /\ WithAll(rules, more) = f[Len(more)]
<1> DEFINE all == CHOOSE f : f = [i \in 0..Len(more) |-> IF i = 0 THEN rules ELSE With(f[i - 1], more[i])]
<1>1. IsHaving(all, Len(more), rules, more)
  <2>1. \E f : IsHaving(f, Len(more), rules, more)
    BY HavingExists
  <2> QED BY <2>1 DEF IsHaving
<1>2. WithAll(rules, more) = all[Len(more)]
  BY Zenon DEF WithAll
<1> HIDE DEF all
<1> QED BY <1>1, <1>2

\* A file of rules adds the same to the chains and to what was typed.
LEMMA MatchesAll ==
  ASSUME NEW rules, NEW chains, Matches(rules, chains), NEW more \in Seq(Rule),
         \A r \in ToSet(more) : ~PolicyRule(r.base)
  PROVE  Matches(WithAll(rules, more), AddedAll(chains, more))
<1>1. PICK N \in Nat : N = Len(more) /\ \A i \in 1..N : more[i] \in Rule /\ i \in DOMAIN more
  OBVIOUS
<1>2. \A i \in 1..N : ~PolicyRule(more[i].base)
  BY <1>1 DEF ToSet
<1>3. PICK f : IsHaving(f, N, rules, more) /\ WithAll(rules, more) = f[N]
  BY <1>1, HavingIs
<1>4. PICK g : IsAdding(g, N, chains, more) /\ AddedAll(chains, more) = g[N]
  BY <1>1, AddingIs
<1> DEFINE T == {n \in Nat : n <= N => Matches(f[n], g[n])}
<1>5. 0 \in T
  BY <1>1, <1>3, <1>4 DEF IsHaving, IsAdding
<1>6. ASSUME NEW n \in Nat, n \in T PROVE n + 1 \in T
  <2>1. SUFFICES ASSUME n + 1 <= N PROVE Matches(f[n + 1], g[n + 1])
    OBVIOUS
  <2>2. n + 1 \in 0..N /\ n + 1 # 0 /\ (n + 1) - 1 = n /\ n <= N /\ n + 1 \in 1..N
    BY <1>1, <2>1
  <2>3. f[n + 1] = With(f[n], more[n + 1])
    BY <1>3, <2>2 DEF IsHaving
  <2>4. g[n + 1] = Added(g[n], more[n + 1])
    BY <1>4, <2>2 DEF IsAdding
  <2>5. Matches(f[n], g[n])
    BY <1>6, <2>2
  <2>6. more[n + 1] \in Rule /\ ~PolicyRule(more[n + 1].base)
    BY <1>1, <1>2, <2>2
  <2> QED BY <2>3, <2>4, <2>5, <2>6, MatchesAppend
<1>7. \A n \in Nat : n \in T
  <2>1. \A n \in Nat : n \in T => n + 1 \in T
    BY <1>6
  <2> HIDE DEF T
  <2> QED BY <1>5, <2>1, NatBySets
<1> QED BY <1>1, <1>3, <1>4, <1>7

\* The rules in the kernel are those that were typed, of each chain in their order.
Typed ==
  /\ Matches(given.rules, chain)
  /\ given.policy = chainPolicy
  /\ chainPolicy \in [Chain -> Policy]

LEMMA TypedInit == Init => Typed
<1>1. SUFFICES ASSUME Init PROVE Typed
  OBVIOUS
<1>2. given.rules = <<>> /\ chain = [c \in Chains |-> <<>>]
  BY <1>1 DEF Init, Chains
<1>3. given.policy = chainPolicy /\ chainPolicy \in [Chain -> Policy]
  BY <1>1 DEF Init, Policy
<1> QED BY <1>2, <1>3, MatchesNothing DEF Typed

\* What is remembered of a line that does not set a policy.
LEMMA Remembered ==
  ASSUME Typed, NEW line \in Line, Remember(line), ~Wrong(line), line[1].opt # "policy"
  PROVE  /\ given'.rules = RulesAfter(given.rules, line)
         /\ given'.policy = given.policy
<1>1. PICK rules, policy : /\ rules = RulesAfter(given.rules, line)
                           /\ policy = [c \in Chain |-> given.policy[c]]
  OBVIOUS
<1>2. given' = [rules |-> rules, policy |-> policy]
  BY <1>1 DEF Remember
<1>3. policy = given.policy
  BY <1>1 DEF Typed
<1> QED BY <1>1, <1>2, <1>3

LEMMA TypedAppend ==
  ASSUME Typed, NEW line \in Line, WellFormed(line), AddRule(line), Remember(line)
  PROVE  Typed'
<1>1. PICK s : s = ParseCmdArgs(line)
  OBVIOUS
<1>2. s.command = "append" /\ chain' = Added(chain, RuleOf(s)) /\ chainPolicy' = chainPolicy
  BY <1>1, Zenon DEF AddRule
<1>3. PICK r \in Rule : r = Asked(line)
  BY <1>1, <1>2, Carried
<1>4. RuleOf(s) = r /\ line[1].opt = "append" /\ ~Wrong(line)
  BY <1>1, <1>2, <1>3, Carried
<1>5. ~PolicyRule(r.base)
  BY <1>3, <1>4, AskedType, NoPolicyRule
<1>6. given'.rules = With(given.rules, r) /\ given'.policy = given.policy
  <2>1. given'.rules = RulesAfter(given.rules, line) /\ given'.policy = given.policy
    BY <1>4, Remembered
  <2>2. RulesAfter(given.rules, line) = With(given.rules, r)
    BY <1>3, <1>4 DEF RulesAfter
  <2> QED BY <2>1, <2>2
<1>7. Matches(With(given.rules, r), Added(chain, r))
  BY <1>5, MatchesAppend DEF Typed
<1> QED BY <1>2, <1>4, <1>6, <1>7 DEF Typed

\* An update that names the switch and the policy says all that is not the key.
LEMMA RenewedIs ==
  ASSUME NEW line, Obeyed(line), line[1].opt = "update", NEW r \in Rule, r = Asked(line), NEW x \in Rule
  PROVE  Renewed(x, line) = IF x.base = r.base THEN r ELSE x
<1>1. ASSUME NEW d, NEW e PROVE /\ Given(line, "off", d) = Given(line, "off", e)
                                /\ Given(line, "jump", d) = Given(line, "jump", e)
  BY DEF Given, Obeyed
<1>2. Given(line, "off", x.off) = r.off /\ Given(line, "jump", x.policy) = r.policy
  BY <1>1 DEF Asked
<1>3. CASE x.base = r.base
  <2>1. PICK y : y = Renewed(x, line)
    OBVIOUS
  <2>2. y = [x EXCEPT !.off = r.off, !.policy = r.policy]
    BY <1>2, <1>3, <2>1 DEF Renewed
  <2>3. x = [base |-> x.base, off |-> x.off, policy |-> x.policy] /\ r = [base |-> r.base, off |-> r.off, policy |-> r.policy]
    BY DEF Rule
  <2>4. y = [base |-> x.base, off |-> r.off, policy |-> r.policy]
    BY <2>2, <2>3
  <2> QED BY <1>3, <2>1, <2>3, <2>4
<1>4. CASE x.base # r.base
  BY <1>4 DEF Renewed
<1> QED BY <1>3, <1>4

LEMMA UpdateIs ==
  ASSUME NEW rules \in Seq(Rule), NEW line, Obeyed(line), line[1].opt = "update", NEW r \in Rule, r = Asked(line)
  PROVE  RulesAfter(rules, line) = Replaced(rules, r)
<1>1. \A i \in DOMAIN rules : rules[i] \in Rule
  OBVIOUS
<1>2. \A i \in DOMAIN rules : Renewed(rules[i], line) = IF rules[i].base = r.base THEN r ELSE rules[i]
  BY <1>1, RenewedIs
<1>3. RulesAfter(rules, line) = [i \in DOMAIN rules |-> Renewed(rules[i], line)]
  BY DEF RulesAfter
<1> QED BY <1>2, <1>3 DEF Replaced

LEMMA TypedUpdate ==
  ASSUME Typed, NEW line \in Line, WellFormed(line), Obeyed(line), UpdateRule(line), Remember(line)
  PROVE  Typed'
<1>1. PICK s : s = ParseCmdArgs(line)
  OBVIOUS
<1>2. s.command = "update" /\ chain' = Changed(chain, s) /\ chainPolicy' = chainPolicy
  BY <1>1, Zenon DEF UpdateRule
<1>3. PICK r \in Rule : r = Asked(line)
  BY <1>1, <1>2, Carried
<1>4. RuleOf(s) = r /\ line[1].opt = "update" /\ ~Wrong(line) /\ s.off \in {"NO", "YES"} /\ s.policy \in Policy
  BY <1>1, <1>2, <1>3, Carried
<1>5. given'.rules = Replaced(given.rules, r) /\ given'.policy = given.policy
  <2>1. given'.rules = RulesAfter(given.rules, line) /\ given'.policy = given.policy
    BY <1>4, Remembered
  <2>2. RulesAfter(given.rules, line) = Replaced(given.rules, r)
    BY <1>3, <1>4, UpdateIs DEF Typed, Matches
  <2> QED BY <2>1, <2>2
<1>6. Changed(chain, s) = [c \in Chains |-> Replaced(chain[c], r)]
  BY <1>4, MatchesOwn, ChangedIs DEF Typed
<1>7. Matches(Replaced(given.rules, r), [c \in Chains |-> Replaced(chain[c], r)])
  BY MatchesReplaced DEF Typed
<1> QED BY <1>2, <1>5, <1>6, <1>7 DEF Typed

LEMMA TypedDelete ==
  ASSUME Typed, NEW line \in Line, WellFormed(line), DeleteRule(line), Remember(line)
  PROVE  Typed'
<1>1. PICK s : s = ParseCmdArgs(line)
  OBVIOUS
<1>2. s.command = "delete" /\ chain' = Without(chain, s.base) /\ chainPolicy' = chainPolicy
  BY <1>1, Zenon DEF DeleteRule
<1>3. PICK r : r = Asked(line)
  OBVIOUS
<1>4. s.base = r.base /\ line[1].opt = "delete" /\ ~Wrong(line)
  BY <1>1, <1>2, <1>3, Carried
<1>5. given'.rules = Select(given.rules, {x \in Rule : x.base # r.base}) /\ given'.policy = given.policy
  <2>1. given'.rules = RulesAfter(given.rules, line) /\ given'.policy = given.policy
    BY <1>4, Remembered
  <2>2. RulesAfter(given.rules, line) = Select(given.rules, {x \in Rule : x.base # r.base})
    BY <1>3, <1>4 DEF RulesAfter
  <2> QED BY <2>1, <2>2
<1>6. Matches(Select(given.rules, {x \in Rule : x.base # r.base}), Without(chain, r.base))
  BY MatchesWithout DEF Typed
<1> QED BY <1>2, <1>4, <1>5, <1>6 DEF Typed

LEMMA TypedFlush ==
  ASSUME Typed, NEW line \in Line, WellFormed(line), Obeyed(line), DeleteRules(line), Remember(line)
  PROVE  Typed'
<1>1. PICK s : s = ParseCmdArgs(line)
  OBVIOUS
<1>2. s.command = "flush" /\ chain' = [c \in DOMAIN chain |-> <<>>] /\ chainPolicy' = chainPolicy
  BY <1>1, Zenon DEF DeleteRules
<1>3. PICK r : r = Asked(line)
  OBVIOUS
<1>4. line[1].opt = "flush" /\ ~Wrong(line)
  BY <1>1, <1>2, Carried
<1>5. r.base.chain = "ALL"
  <2>1. r.base.chain = line[1].arg /\ line[1].arg \in {"ALL", "INPUT", "OUTPUT"}
    BY <1>3, <1>4, AskedType
  <2>2. line[1].arg \notin Chain
    BY <1>4 DEF Obeyed
  <2> QED BY <2>1, <2>2 DEF Chain
<1>6. PICK none : none = {x \in Rule : ~Covers(r.base.chain, x.base.chain)}
  OBVIOUS
<1>7. given'.rules = Select(given.rules, none) /\ given'.policy = given.policy
  <2>1. given'.rules = RulesAfter(given.rules, line) /\ given'.policy = given.policy
    BY <1>4, Remembered
  <2>2. RulesAfter(given.rules, line) = Select(given.rules, none)
    BY <1>3, <1>4, <1>6 DEF RulesAfter
  <2> QED BY <2>1, <2>2
<1>8. Rule \cap none = {}
  BY <1>5, <1>6 DEF Covers
<1>9. given'.rules = <<>>
  BY <1>7, <1>8, SelectNone DEF Typed, Matches
<1>10. chain' = [c \in Chains |-> <<>>]
  BY <1>2 DEF Typed, Matches
<1> QED BY <1>2, <1>7, <1>9, <1>10, MatchesNothing DEF Typed

LEMMA TypedPolicy ==
  ASSUME Typed, NEW line \in Line, WellFormed(line), Obeyed(line), ChainPolicy(line), Remember(line)
  PROVE  Typed'
<1>1. PICK s : s = ParseCmdArgs(line)
  OBVIOUS
<1>2. s.command = "policy" /\ chainPolicy' = PoliciesWith(s.base.chain, s.policy) /\ chain' = chain
  BY <1>1, Zenon DEF ChainPolicy
<1>3. line[1].opt = "policy" /\ ~Wrong(line) /\ s.base = Asked(line).base
  BY <1>1, <1>2, Carried
<1>4. s.policy = line[1].next
  <2>1. At(line, "jump") = {}
    BY <1>3 DEF Obeyed
  <2>2. s.policy = Given(line, "jump", line[1].next)
    BY <1>1, <1>3, Understood
  <2> QED BY <2>1, <2>2, GivenNone
<1>5. s.base.chain = line[1].arg /\ line[1].next \in Policy
  BY <1>3, AskedType
<1>6. PICK policy : policy = [c \in Chain |-> IF line[1].arg \in {c, "ALL"} THEN line[1].next ELSE chainPolicy[c]]
  OBVIOUS
<1>7. chainPolicy' = policy
  BY <1>2, <1>4, <1>5, <1>6 DEF PoliciesWith
<1>8. PICK rules : rules = RulesAfter(given.rules, line)
  OBVIOUS
<1>9. given' = [rules |-> rules, policy |-> policy]
  BY <1>3, <1>6, <1>8 DEF Remember, Covers, Typed
<1>10. rules = given.rules
  BY <1>3, <1>8 DEF RulesAfter
<1>11. policy \in [Chain -> Policy]
  BY <1>5, <1>6 DEF Typed
<1> QED BY <1>2, <1>7, <1>9, <1>10, <1>11 DEF Typed

LEMMA TypedFile ==
  ASSUME Typed, ObeyedLines, NEW line \in Line, LoadFromFile(line), Remember(line)
  PROVE  Typed'
<1>0. WellFormed(line)
  BY DEF ObeyedLines
<1>1. PICK s : s = ParseCmdArgs(line)
  OBVIOUS
<1>2. /\ s.command = "file" /\ chainPolicy' = chainPolicy
      /\ chain' = IF s.file \in DOMAIN File THEN AddedAll(chain, File[s.file]) ELSE chain
  BY <1>1, Zenon DEF LoadFromFile
<1>3. line[1].opt = "file" /\ ~Wrong(line)
  BY <1>0, <1>1, <1>2, Carried
<1>4. PICK name : name = line[1].arg
  OBVIOUS
<1>5. s.file = name
  BY <1>0, <1>1, <1>3, <1>4, Understood
<1>6. /\ given'.rules = IF name \in DOMAIN File THEN WithAll(given.rules, File[name]) ELSE given.rules
      /\ given'.policy = given.policy
  <2>1. given'.rules = RulesAfter(given.rules, line) /\ given'.policy = given.policy
    BY <1>3, Remembered
  <2>2. RulesAfter(given.rules, line) = IF name \in DOMAIN File THEN WithAll(given.rules, File[name]) ELSE given.rules
    BY <1>3, <1>4 DEF RulesAfter
  <2> QED BY <2>1, <2>2
<1>7. CASE name \in DOMAIN File
  <2>1. PICK more \in Seq(Rule) : more = File[name]
    BY <1>7, FileAssumption
  <2>2. \A r \in ToSet(more) : ~PolicyRule(r.base)
    BY <1>7, <2>1 DEF ObeyedLines, FileRule
  <2>3. Matches(WithAll(given.rules, more), AddedAll(chain, more))
    BY <2>2, MatchesAll DEF Typed
  <2> QED BY <1>2, <1>5, <1>6, <1>7, <2>1, <2>3 DEF Typed
<1>8. CASE name \notin DOMAIN File
  BY <1>2, <1>5, <1>6, <1>8 DEF Typed
<1> QED BY <1>7, <1>8

LEMMA TypedList ==
  ASSUME Typed, NEW line \in Line, WellFormed(line), ListRules(line), Remember(line)
  PROVE  Typed'
<1>1. ParseCmdArgs(line).command = "list" /\ chain' = chain /\ chainPolicy' = chainPolicy
  BY Zenon DEF ListRules
<1>2. line[1].opt = "list" /\ ~Wrong(line)
  BY <1>1, Carried
<1>3. given'.rules = given.rules /\ given'.policy = given.policy
  <2>1. given'.rules = RulesAfter(given.rules, line) /\ given'.policy = given.policy
    BY <1>2, Remembered
  <2>2. RulesAfter(given.rules, line) = given.rules
    BY <1>2 DEF RulesAfter
  <2> QED BY <2>1, <2>2
<1> QED BY <1>1, <1>3 DEF Typed

LEMMA TypedHelp ==
  ASSUME Typed, NEW line \in Line, WellFormed(line), PrintHelp(line), Remember(line)
  PROVE  Typed'
<1>1. ParseCmdArgs(line).command = "help" /\ chain' = chain /\ chainPolicy' = chainPolicy
  BY DEF PrintHelp
<1>2. Wrong(line)
  <2>1. line[1].opt # "help"
    BY LineShape DEF Command
  <2> QED BY <1>1, <2>1, Understood
<1>3. given' = given
  BY <1>2 DEF Remember
<1> QED BY <1>1, <1>3 DEF Typed

LEMMA TypedStep ==
  ASSUME ObeyedLines, Typed, [Next]_vars
  PROVE  Typed'
<1>1. ASSUME NEW line \in Line, ProcessCommand(line), Remember(line) PROVE Typed'
  <2>1. WellFormed(line) /\ Obeyed(line)
    BY DEF ObeyedLines
  <2>2. CASE AddRule(line)
    BY <1>1, <2>1, <2>2, TypedAppend
  <2>3. CASE UpdateRule(line)
    BY <1>1, <2>1, <2>3, TypedUpdate
  <2>4. CASE DeleteRule(line)
    BY <1>1, <2>1, <2>4, TypedDelete
  <2>5. CASE DeleteRules(line)
    BY <1>1, <2>1, <2>5, TypedFlush
  <2>6. CASE ChainPolicy(line)
    BY <1>1, <2>1, <2>6, TypedPolicy
  <2>7. CASE LoadFromFile(line)
    BY <1>1, <2>7, TypedFile
  <2>8. CASE PrintHelp(line)
    BY <1>1, <2>1, <2>8, TypedHelp
  <2>9. CASE ListRules(line)
    BY <1>1, <2>1, <2>9, TypedList
  <2> QED BY <1>1, <2>2, <2>3, <2>4, <2>5, <2>6, <2>7, <2>8, <2>9, Zenon DEF ProcessCommand
<1>2. ASSUME NEW c \in Chain, NEW p \in Packet, HookFunc(c, p) PROVE Typed'
  BY <1>2 DEF HookFunc, Typed
<1>3. CASE UNCHANGED vars
  BY <1>3 DEF vars, Typed
<1> QED BY <1>1, <1>2, <1>3 DEF Next

-----------------------------------------------------------------------------
(* What hook_func decides.                                                 *)

\* The rules of a kind that their keys make out.
OfKind(B) == {r \in Rule : r.base \in B}

LEMMA WithKind ==
  ASSUME NEW B, NEW rules \in Seq(OfKind(B)), NEW r \in OfKind(B)
  PROVE  With(rules, r) \in Seq(OfKind(B))
<1>1. Append(rules, r) \in Seq(OfKind(B))
  OBVIOUS
<1> QED BY <1>1 DEF With

LEMMA WithAllKind ==
  ASSUME NEW B, NEW rules \in Seq(OfKind(B)), NEW more \in Seq(Rule), \A r \in ToSet(more) : r.base \in B
  PROVE  WithAll(rules, more) \in Seq(OfKind(B))
<1>1. PICK N \in Nat : N = Len(more) /\ \A i \in 1..N : more[i] \in Rule /\ i \in DOMAIN more
  OBVIOUS
<1>2. \A i \in 1..N : more[i] \in OfKind(B)
  BY <1>1 DEF ToSet, OfKind
<1>3. PICK f : IsHaving(f, N, rules, more) /\ WithAll(rules, more) = f[N]
  BY <1>1, HavingIs
<1> DEFINE T == {n \in Nat : n <= N => f[n] \in Seq(OfKind(B))}
<1>4. 0 \in T
  BY <1>1, <1>3 DEF IsHaving
<1>5. ASSUME NEW n \in Nat, n \in T PROVE n + 1 \in T
  <2>1. SUFFICES ASSUME n + 1 <= N PROVE f[n + 1] \in Seq(OfKind(B))
    OBVIOUS
  <2>2. n + 1 \in 0..N /\ n + 1 # 0 /\ (n + 1) - 1 = n /\ n <= N /\ n + 1 \in 1..N
    BY <1>1, <2>1
  <2>3. f[n + 1] = With(f[n], more[n + 1])
    BY <1>3, <2>2 DEF IsHaving
  <2>4. f[n] \in Seq(OfKind(B)) /\ more[n + 1] \in OfKind(B)
    BY <1>2, <1>5, <2>2
  <2> QED BY <2>3, <2>4, WithKind
<1>6. \A n \in Nat : n \in T
  <2>1. \A n \in Nat : n \in T => n + 1 \in T
    BY <1>5
  <2> HIDE DEF T
  <2> QED BY <1>4, <2>1, NatBySets
<1> QED BY <1>1, <1>3, <1>6

LEMMA ReplacedKind ==
  ASSUME NEW B, NEW rules \in Seq(OfKind(B)), NEW r \in Rule
  PROVE  Replaced(rules, r) \in Seq(OfKind(B))
<1>1. \A i \in 1..Len(rules) : rules[i] \in OfKind(B)
  OBVIOUS
<1>2. \A i \in 1..Len(rules) : (IF rules[i].base = r.base THEN r ELSE rules[i]) \in OfKind(B)
  BY <1>1 DEF OfKind
<1>3. Replaced(rules, r) = [i \in 1..Len(rules) |-> IF rules[i].base = r.base THEN r ELSE rules[i]]
  BY DEF Replaced
<1> HIDE DEF Replaced
<1> QED BY <1>2, <1>3

\* No line makes rules of another kind than the lines that append and the files do.
LEMMA KindKept ==
  ASSUME NEW B, NEW rules \in Seq(OfKind(B)), NEW line \in Line, WellFormed(line), Obeyed(line), ~Wrong(line),
         line[1].opt = "append" => Asked(line).base \in B, \A r \in FileRule : r.base \in B
  PROVE  RulesAfter(rules, line) \in Seq(OfKind(B))
<1>1. PICK r : r = Asked(line)
  OBVIOUS
<1>2. line[1].opt # "file" => r \in Rule
  BY <1>1, AskedType
<1>3. CASE line[1].opt = "append"
  <2>1. r \in OfKind(B)
    BY <1>1, <1>2, <1>3 DEF OfKind
  <2>2. RulesAfter(rules, line) = With(rules, r)
    BY <1>1, <1>3 DEF RulesAfter
  <2> QED BY <2>1, <2>2, WithKind
<1>4. CASE line[1].opt = "delete"
  <2>1. PICK P : P = {x \in Rule : x.base # r.base}
    OBVIOUS
  <2>2. RulesAfter(rules, line) = Select(rules, P)
    BY <1>1, <1>4, <2>1 DEF RulesAfter
  <2> QED BY <2>2, SelectKeepsType
<1>5. CASE line[1].opt = "flush"
  <2>1. PICK P : P = {x \in Rule : ~Covers(r.base.chain, x.base.chain)}
    OBVIOUS
  <2>2. RulesAfter(rules, line) = Select(rules, P)
    BY <1>1, <1>5, <2>1 DEF RulesAfter
  <2> QED BY <2>2, SelectKeepsType
<1>6. CASE line[1].opt = "update"
  <2>1. rules \in Seq(Rule)
    BY DEF OfKind
  <2>2. RulesAfter(rules, line) = Replaced(rules, r)
    BY <1>1, <1>2, <1>6, <2>1, UpdateIs
  <2> QED BY <1>2, <1>6, <2>2, ReplacedKind
<1>7. CASE line[1].opt = "file" /\ line[1].arg \in DOMAIN File
  <2>1. PICK more \in Seq(Rule) : more = File[line[1].arg]
    BY <1>7, FileAssumption
  <2>2. \A x \in ToSet(more) : x.base \in B
    BY <1>7, <2>1 DEF FileRule
  <2>3. RulesAfter(rules, line) = WithAll(rules, more)
    BY <1>7, <2>1 DEF RulesAfter
  <2> QED BY <2>2, <2>3, WithAllKind
<1>8. CASE line[1].opt \in {"list", "policy"} \/ (line[1].opt = "file" /\ line[1].arg \notin DOMAIN File)
  BY <1>8 DEF RulesAfter
<1> QED BY <1>3, <1>4, <1>5, <1>6, <1>7, <1>8, LineShape DEF Command

LEMMA KindStep ==
  ASSUME ObeyedLines, NEW B, given.rules \in Seq(OfKind(B)), [Next]_vars,
         \A line \in Line : line[1].opt = "append" /\ ~Wrong(line) => Asked(line).base \in B,
         \A r \in FileRule : r.base \in B
  PROVE  given'.rules \in Seq(OfKind(B))
<1>1. ASSUME NEW line \in Line, Remember(line) PROVE given'.rules \in Seq(OfKind(B))
  <2>1. CASE Wrong(line)
    BY <1>1, <2>1 DEF Remember
  <2>2. CASE ~Wrong(line)
    <3>1. PICK rules \in Seq(OfKind(B)) : rules = given.rules
      OBVIOUS
    <3>2. PICK new, policy : /\ new = RulesAfter(rules, line)
                             /\ policy = [c \in Chain |-> IF line[1].opt = "policy" /\ Covers(line[1].arg, c)
                                                          THEN line[1].next ELSE given.policy[c]]
      OBVIOUS
    <3>3. given' = [rules |-> new, policy |-> policy]
      BY <1>1, <2>2, <3>1, <3>2, Zenon DEF Remember
    <3>4. WellFormed(line) /\ Obeyed(line)
      BY DEF ObeyedLines
    <3>5. new \in Seq(OfKind(B))
      BY <2>2, <3>2, <3>4, KindKept
    <3> QED BY <3>3, <3>5
  <2> QED BY <2>1, <2>2
<1>2. ASSUME NEW c \in Chain, NEW p \in Packet, HookFunc(c, p) PROVE given' = given
  BY <1>2 DEF HookFunc
<1>3. CASE UNCHANGED vars
  BY <1>3 DEF vars
<1> QED BY <1>1, <1>2, <1>3 DEF Next

LEMMA FileRulesAre == FileRule \subseteq Rule
<1>1. ASSUME NEW name \in DOMAIN File PROVE ToSet(File[name]) \subseteq Rule
  <2>1. PICK more \in Seq(Rule) : more = File[name]
    BY FileAssumption
  <2> QED BY <2>1 DEF ToSet
<1> QED BY <1>1 DEF FileRule

LEMMA MinIs ==
  ASSUME NEW T, T \subseteq Nat, T # {}
  PROVE  Min(T) \in T /\ \A y \in T : Min(T) <= y
<1>1. \E x \in T : \A y \in T : x <= y
  BY LeastNatural
<1> QED BY <1>1 DEF Min

\* Select puts first what is the first that is wanted.
LEMMA SelectFirst ==
  ASSUME NEW S, NEW s \in Seq(S), NEW P
  PROVE  /\ (\A i \in 1..Len(s) : s[i] \notin P) => Select(s, P) = <<>>
         /\ \A i \in 1..Len(s) :
              s[i] \in P /\ (\A j \in 1..Len(s) : s[j] \in P => i <= j)
                => Select(s, P) # <<>> /\ Select(s, P)[1] = s[i]
<1> DEFINE None(t) == \A i \in 1..Len(t) : t[i] \notin P
           First(t, i) == i \in 1..Len(t) /\ t[i] \in P /\ \A j \in 1..Len(t) : t[j] \in P => i <= j
           Q == {t \in Seq(S) : /\ None(t) => Select(t, P) = <<>>
                                /\ \A i : First(t, i) => Select(t, P) # <<>> /\ Select(t, P)[1] = t[i]}
<1>1. << >> \in Q
  BY SelectEmpty
<1>2. ASSUME NEW t \in Seq(S), NEW e \in S, t \in Q PROVE Append(t, e) \in Q
  <2>1. PICK n \in Nat : n = Len(t)
    OBVIOUS
  <2>2. PICK a \in Seq(S) : a = Append(t, e)
    <3>1. Append(t, e) \in Seq(S)
      OBVIOUS
    <3> QED BY <3>1
  <2>3. Len(a) = n + 1 /\ a[n + 1] = e /\ \A i \in 1..n : a[i] = t[i]
    BY <2>1, <2>2
  <2>4. PICK x \in Seq(S) : x = Select(t, P)
    BY SelectKeepsType
  <2>5. Select(a, P) = IF e \in P THEN Append(x, e) ELSE x
    BY <2>2, <2>4, SelectAppend
  <2>6. \A i : i \in 1..n => i \in 1..(n + 1)
    OBVIOUS
  <2>7. n + 1 \in 1..(n + 1)
    OBVIOUS
  <2>8. ASSUME None(a) PROVE Select(a, P) = <<>>
    <3>1. e \notin P
      BY <2>3, <2>7, <2>8
    <3>2. None(t)
      BY <2>1, <2>3, <2>6, <2>8
    <3> QED BY <1>2, <2>4, <2>5, <3>1, <3>2
  <2>9. ASSUME NEW i, First(a, i) PROVE Select(a, P) # <<>> /\ Select(a, P)[1] = a[i]
    <3>1. i \in 1..(n + 1) /\ a[i] \in P /\ \A j \in 1..(n + 1) : a[j] \in P => i <= j
      BY <2>3, <2>9
    <3>2. CASE i \in 1..n
      <4>1. First(t, i)
        BY <2>1, <2>3, <2>6, <3>1, <3>2
      <4>2. x # <<>> /\ x[1] = t[i]
        BY <1>2, <2>4, <4>1
      <4>3. Append(x, e) # <<>> /\ Append(x, e)[1] = x[1]
        BY <4>2
      <4>4. Select(a, P) = Append(x, e) \/ Select(a, P) = x
        BY <2>5
      <4>5. a[i] = t[i]
        BY <2>3, <3>2
      <4> QED BY <4>2, <4>3, <4>4, <4>5
    <3>3. CASE i = n + 1
      <4>1. ASSUME NEW j \in 1..n PROVE t[j] \notin P
        <5>1. j \in 1..(n + 1) /\ ~(n + 1 <= j)
          OBVIOUS
        <5> QED BY <2>3, <3>1, <3>3, <4>1, <5>1
      <4>2. None(t)
        BY <2>1, <4>1
      <4>3. x = <<>>
        BY <1>2, <2>4, <4>2
      <4>4. e \in P /\ a[i] = e
        BY <2>3, <3>1, <3>3
      <4>5. Append(<<>>, e) # <<>> /\ Append(<<>>, e)[1] = e
        OBVIOUS
      <4> QED BY <2>5, <4>3, <4>4, <4>5
    <3>4. i \in 1..n \/ i = n + 1
      BY <3>1
    <3> QED BY <3>2, <3>3, <3>4
  <2>10. /\ None(a) => Select(a, P) = <<>>
         /\ \A i : First(a, i) => Select(a, P) # <<>> /\ Select(a, P)[1] = a[i]
    <3> HIDE DEF None, First
    <3> QED BY <2>8, <2>9
  <2> HIDE DEF None, First
  <2> QED BY <2>2, <2>10
<1>3. \A t \in Seq(S) : t \in Q
  <2>1. \A t \in Seq(S), e \in S : t \in Q => Append(t, e) \in Q
    BY <1>2
  <2> HIDE DEF Q
  <2> QED BY <1>1, <2>1, SeqBySets
<1> QED BY <1>3

Places(s, P) == {i \in DOMAIN s : s[i] \in P}

\* Two sequences that have the same wanted ones have the same first wanted one.
LEMMA SameFirst ==
  ASSUME NEW S, NEW s \in Seq(S), NEW t \in Seq(S), NEW P, NEW R, Select(s, P) = Select(t, R),
         NEW hits, hits = Places(s, P), NEW meant, meant = Places(t, R)
  PROVE  /\ hits = {} <=> meant = {}
         /\ hits # {} => s[Min(hits)] = t[Min(meant)]
<1>1. DOMAIN s = 1..Len(s) /\ DOMAIN t = 1..Len(t) /\ Len(s) \in Nat /\ Len(t) \in Nat
  OBVIOUS
<1>2. hits \subseteq Nat /\ meant \subseteq Nat
  BY <1>1 DEF Places
<1>3. /\ hits = {} => Select(s, P) = <<>>
      /\ hits # {} => Select(s, P) # <<>> /\ Select(s, P)[1] = s[Min(hits)]
  <2>1. hits = {} => Select(s, P) = <<>>
    BY <1>1, SelectFirst DEF Places
  <2>2. ASSUME hits # {} PROVE Select(s, P) # <<>> /\ Select(s, P)[1] = s[Min(hits)]
    <3>1. PICK m : m = Min(hits)
      OBVIOUS
    <3>2. m \in hits /\ \A j \in hits : m <= j
      BY <1>2, <2>2, <3>1, MinIs
    <3>3. m \in 1..Len(s) /\ s[m] \in P /\ \A j \in 1..Len(s) : s[j] \in P => m <= j
      BY <1>1, <3>2 DEF Places
    <3> QED BY <3>1, <3>3, SelectFirst
  <2> QED BY <2>1, <2>2
<1>4. /\ meant = {} => Select(t, R) = <<>>
      /\ meant # {} => Select(t, R) # <<>> /\ Select(t, R)[1] = t[Min(meant)]
  <2>1. meant = {} => Select(t, R) = <<>>
    BY <1>1, SelectFirst DEF Places
  <2>2. ASSUME meant # {} PROVE Select(t, R) # <<>> /\ Select(t, R)[1] = t[Min(meant)]
    <3>1. PICK m : m = Min(meant)
      OBVIOUS
    <3>2. m \in meant /\ \A j \in meant : m <= j
      BY <1>2, <2>2, <3>1, MinIs
    <3>3. m \in 1..Len(t) /\ t[m] \in R /\ \A j \in 1..Len(t) : t[j] \in R => m <= j
      BY <1>1, <3>2 DEF Places
    <3> QED BY <3>1, <3>3, SelectFirst
  <2> QED BY <2>1, <2>2
<1> QED BY <1>3, <1>4

Unnamed == {base \in Base : base.s_addr = Zero /\ base.d_addr = Zero}

LEMMA HitsMeans ==
  ASSUME NEW r \in OfKind(Unnamed), NEW p
  PROVE  Hits(r, p) <=> Means(r.base, p) /\ r.off = "NO"
<1>1. r.base.s_addr = Zero /\ r.base.d_addr = Zero
  BY DEF OfKind, Unnamed
<1> QED BY <1>1 DEF Hits, UdpHits, TcpHits, Means

LEMMA VerdictIs ==
  ASSUME Typed, given.rules \in Seq(OfKind(Unnamed)), NEW c \in Chain, NEW p \in Packet, HookFunc(c, p)
  PROVE  VerdictAsTyped'
<1>1. PICK hits : hits = {i \in DOMAIN chain[c] : Hits(chain[c][i], p)}
  OBVIOUS
<1>2. PICK verdict : verdict = IF hits = {} THEN chainPolicy[c] ELSE chain[c][Min(hits)].policy
  OBVIOUS
<1>3. PICK told : told = (hits # {} /\ p.proto = "UDP")
  OBVIOUS
<1>4. seen' = [what |-> "verdict", chain |-> c, packet |-> p, verdict |-> verdict, logged |-> told]
  BY <1>1, <1>2, <1>3, Zenon DEF HookFunc
<1>5. given' = given
  BY DEF HookFunc
<1>6. PICK s \in Seq(OfKind(Unnamed)) : s = given.rules
  OBVIOUS
<1>7. PICK W : W = {r \in Rule : r.off = "NO" /\ Means(r.base, p)}
  OBVIOUS
<1>8. PICK V : V = OnChain(c) \cap W
  OBVIOUS
<1>9. PICK t \in Seq(OfKind(Unnamed)) : t = chain[c]
  <2>1. chain[c] = Select(s, OnChain(c))
    BY <1>6 DEF Typed, Matches, Chains
  <2> QED BY <2>1, SelectKeepsType
<1>10. Select(t, W) = Select(s, V)
  <2>1. t = Select(s, OnChain(c))
    BY <1>6, <1>9 DEF Typed, Matches, Chains
  <2> QED BY <1>8, <2>1, SelectSelect
<1>11. PICK meant : meant = {i \in DOMAIN s : s[i].base.chain = c /\ s[i].off = "NO" /\ Means(s[i].base, p)}
  OBVIOUS
<1>12. meant = Places(s, V)
  <2>1. \A i \in DOMAIN s : s[i] \in Rule
    BY DEF OfKind
  <2>2. \A r \in Rule : r \in V <=> r.base.chain = c /\ r.off = "NO" /\ Means(r.base, p)
    BY <1>7, <1>8 DEF OnChain
  <2> QED BY <1>11, <2>1, <2>2 DEF Places
<1>13. hits = Places(t, W)
  <2>1. \A i \in DOMAIN t : t[i] \in OfKind(Unnamed)
    OBVIOUS
  <2>2. \A r \in OfKind(Unnamed) : r \in W <=> Hits(r, p)
    BY <1>7, HitsMeans DEF OfKind
  <2> QED BY <1>1, <1>9, <2>1, <2>2 DEF Places
<1>14. /\ hits = {} <=> meant = {}
       /\ hits # {} => t[Min(hits)] = s[Min(meant)]
  BY <1>10, <1>12, <1>13, SameFirst
<1>15. verdict = IF meant = {} THEN given.policy[c] ELSE given.rules[Min(meant)].policy
  BY <1>2, <1>6, <1>9, <1>14 DEF Typed
<1>16. /\ seen'.what = "verdict" /\ seen'.chain = c /\ seen'.packet = p /\ seen'.verdict = verdict
  BY <1>4
<1>17. meant = {i \in DOMAIN given'.rules :
                  /\ given'.rules[i].base.chain = seen'.chain /\ given'.rules[i].off = "NO"
                  /\ Means(given'.rules[i].base, seen'.packet)}
  BY <1>5, <1>6, <1>11, <1>16
<1> QED BY <1>5, <1>15, <1>16, <1>17 DEF VerdictAsTyped

LEMMA VerdictStep ==
  ASSUME Typed, given.rules \in Seq(OfKind(Unnamed)), VerdictAsTyped, [Next]_vars
  PROVE  VerdictAsTyped'
<1>1. ASSUME NEW line \in Line, ProcessCommand(line) PROVE VerdictAsTyped'
  <2>1. seen'.what # "verdict"
    <3>1. \A said : Says(line, said) => seen'.what = "typed"
      BY DEF Says
    <3>2. ListRules(line) => seen'.what = "listing"
      BY DEF ListRules
    <3>3. ListRules(line) \/ \E said : Says(line, said)
      BY <1>1, Zenon DEF ProcessCommand, AddRule, UpdateRule, DeleteRule, DeleteRules, ChainPolicy,
                         LoadFromFile, PrintHelp
    <3> QED BY <3>1, <3>2, <3>3
  <2> QED BY <2>1 DEF VerdictAsTyped
<1>2. ASSUME NEW c \in Chain, NEW p \in Packet, HookFunc(c, p) PROVE VerdictAsTyped'
  BY <1>2, VerdictIs
<1>3. CASE UNCHANGED vars
  BY <1>3 DEF vars, VerdictAsTyped
<1> QED BY <1>1, <1>2, <1>3 DEF Next

LEMMA KindInit == ASSUME Init, NEW B PROVE given.rules \in Seq(OfKind(B))
<1>1. given.rules = <<>> /\ <<>> \in Seq(OfKind(B))
  BY DEF Init
<1> QED BY <1>1

\* A packet gets the policy of the first rule typed that is on and that it fits, else
\* the one typed for its chain, for any rules, files, lines and packets and however the
\* rules were changed before, if the lines are obeyed and no rule has an address.
THEOREM VerdictsAsTyped ==
  ASSUME ObeyedLines, UnaddressedLines
  PROVE  Spec => []VerdictAsTyped
<1> DEFINE Inv == Typed /\ given.rules \in Seq(OfKind(Unnamed)) /\ VerdictAsTyped
<1>1. Init => Inv
  <2>1. Init => VerdictAsTyped
    BY DEF Init, VerdictAsTyped
  <2> QED BY <2>1, TypedInit, KindInit
<1>2. Inv /\ [Next]_vars => Inv'
  <2>1. SUFFICES ASSUME Inv, [Next]_vars PROVE Inv'
    OBVIOUS
  <2>2. ASSUME NEW line \in Line, line[1].opt = "append", ~Wrong(line) PROVE Asked(line).base \in Unnamed
    <3>1. At(line, "source") = {} /\ At(line, "destination") = {}
      BY <2>2 DEF UnaddressedLines, Unaddressed
    <3>2. Given(line, "source", Zero) = Zero /\ Given(line, "destination", Zero) = Zero
      BY <3>1, GivenNone
    <3>3. Asked(line).base.s_addr = Zero /\ Asked(line).base.d_addr = Zero
      BY <3>2 DEF Asked, Default
    <3>4. Asked(line) \in Rule
      BY <2>2, AskedType DEF ObeyedLines
    <3> QED BY <3>3, <3>4 DEF Unnamed, Rule
  <2>3. \A r \in FileRule : r.base \in Unnamed
    BY FileRulesAre DEF UnaddressedLines, Unnamed, Rule
  <2> QED BY <2>1, <2>2, <2>3, TypedStep, KindStep, VerdictStep
<1> QED BY <1>1, <1>2, PTL DEF Spec

-----------------------------------------------------------------------------
(* What bfctl lists.                                                       *)

\* Zero for any comes to the same as what a line names, if it names no zero.
LEMMA GivenMatches ==
  ASSUME NEW line \in Line, NEW opt, NEW d, NEW v,
         \A i \in DOMAIN line : line[i].opt = opt => line[i].arg # d
  PROVE  v = Given(line, opt, v) <=> Given(line, opt, d) \in {d, v}
<1>1. CASE At(line, opt) = {}
  BY <1>1, GivenNone
<1>2. CASE At(line, opt) # {}
  <2>1. PICK j \in At(line, opt) : TRUE
    BY <1>2
  <2>2. PICK S : S = {line[i].arg : i \in At(line, opt)}
    OBVIOUS
  <2>3. PICK a \in S : a = line[j].arg
    BY <2>1, <2>2
  <2>4. \A i \in DOMAIN line : line[i].opt = opt => line[i].arg \in S
    BY <2>2 DEF At
  <2>5. Given(line, opt, a) \in S
    BY <2>3, <2>4, GivenIn
  <2>6. d \notin S
    BY <2>2 DEF At
  <2>7. Given(line, opt, v) = Given(line, opt, a) /\ Given(line, opt, d) = Given(line, opt, a)
    BY <1>2 DEF Given
  <2> QED BY <2>5, <2>6, <2>7
<1> QED BY <1>1, <1>2

Protocolled == {base \in Base : base.proto \in {"TCP", "UDP"}}

\* The pattern takes, of the chain it is of, the rules that have what the line names.
LEMMA PatternIs ==
  ASSUME NEW line \in Line, Listed(line), line[1].opt = "list", line[1].arg \in {"ALL", "INPUT", "OUTPUT"},
         NEW s, s.base = Asked(line).base, s.off = Asked(line).off, s.policy = Asked(line).policy,
         NEW c \in Chain, Covers(line[1].arg, c), NEW r, r.base.chain = c
  PROVE  s.base.chain = "ALL" \/ FrPattern(r, s) <=> HasNamed(line, r)
<1>1. s.base.chain = line[1].arg
  BY DEF Asked
<1>2. 1 \in DOMAIN line
  BY LineShape
<1>3. CASE line[1].arg = "ALL"
  <2>1. Len(line) = 1
    BY <1>3 DEF Listed
  <2>2. DOMAIN line = {1}
    BY <2>1, LineShape
  <2>3. ASSUME NEW opt \in Option, NEW v PROVE v = Given(line, opt, v)
    <3>1. At(line, opt) = {}
      BY <2>2 DEF At, Option
    <3> QED BY <3>1, GivenNone
  <2>4. HasNamed(line, r)
    BY <2>3 DEF HasNamed, Option
  <2> QED BY <1>1, <1>3, <2>4
<1>4. CASE line[1].arg = c
  <2>1. ASSUME NEW opt \in Option, NEW v
        PROVE  v = Given(line, opt, v) <=> Given(line, opt, Default[opt]) \in {Default[opt], v}
    <3>1. \A i \in DOMAIN line : line[i].opt = opt => line[i].arg # Default[opt]
      BY DEF Listed, Option
    <3> QED BY <3>1, GivenMatches
  <2>2. s.base.chain \in {"NONE", r.base.chain} /\ s.base.chain # "ALL"
    BY <1>1, <1>4 DEF Chain
  <2>3. r.base.proto = Given(line, "proto", r.base.proto) <=> s.base.proto \in {"UNSET", r.base.proto}
    <3>1. Default["proto"] = "UNSET" /\ "proto" \in Option /\ s.base.proto = Given(line, "proto", "UNSET")
      BY DEF Default, Option, Asked
    <3> QED BY <2>1, <3>1
  <2>4. r.base.src_port = Given(line, "sport", r.base.src_port) <=> s.base.src_port \in {0, r.base.src_port}
    <3>1. Default["sport"] = 0 /\ "sport" \in Option /\ s.base.src_port = Given(line, "sport", 0)
      BY DEF Default, Option, Asked
    <3> QED BY <2>1, <3>1
  <2>5. r.base.dst_port = Given(line, "dport", r.base.dst_port) <=> s.base.dst_port \in {0, r.base.dst_port}
    <3>1. Default["dport"] = 0 /\ "dport" \in Option /\ s.base.dst_port = Given(line, "dport", 0)
      BY DEF Default, Option, Asked
    <3> QED BY <2>1, <3>1
  <2>6. r.base.s_addr = Given(line, "source", r.base.s_addr) <=> s.base.s_addr \in {Zero, r.base.s_addr}
    <3>1. Default["source"] = Zero /\ "source" \in Option /\ s.base.s_addr = Given(line, "source", Zero)
      BY DEF Default, Option, Asked
    <3> QED BY <2>1, <3>1
  <2>7. r.base.d_addr = Given(line, "destination", r.base.d_addr) <=> s.base.d_addr \in {Zero, r.base.d_addr}
    <3>1. /\ Default["destination"] = Zero /\ "destination" \in Option
          /\ s.base.d_addr = Given(line, "destination", Zero)
      BY DEF Default, Option, Asked
    <3> QED BY <2>1, <3>1
  <2>8. r.off = Given(line, "off", r.off) <=> s.off \in {"NO", r.off}
    <3>1. Default["off"] = "NO" /\ "off" \in Option /\ s.off = Given(line, "off", "NO")
      BY DEF Default, Option, Asked
    <3> QED BY <2>1, <3>1
  <2>9. r.policy = Given(line, "jump", r.policy) <=> s.policy \in {"DROP", r.policy}
    <3>1. Default["jump"] = "DROP" /\ "jump" \in Option /\ s.policy = Given(line, "jump", "DROP")
      BY DEF Default, Option, Asked
    <3> QED BY <2>1, <3>1
  <2> QED BY <2>2, <2>3, <2>4, <2>5, <2>6, <2>7, <2>8, <2>9 DEF FrPattern, HasNamed
<1> QED BY <1>3, <1>4 DEF Covers

LEMMA PrintedIs ==
  ASSUME NEW r \in OfKind(Protocolled), r.base.chain \in Chain
  PROVE  Printed(r) = r
<1>1. PICK b, off, policy : r = [base |-> b, off |-> off, policy |-> policy]
  BY DEF OfKind, Rule
<1>2. PICK c, proto, sport, dport, sa, da : b = BaseOf(c, proto, sport, dport, sa, da)
  BY <1>1 DEF OfKind, Rule, Base, BaseOf
<1>3. ProtoName(proto) = proto /\ ChainName(c) = c /\ PolicyName(policy) = policy /\ SwitchName(off) = off
  <2>1. proto \in {"TCP", "UDP"} /\ c \in Chain /\ policy \in Policy /\ off \in {"NO", "YES"}
    BY <1>1, <1>2 DEF OfKind, Rule, Protocolled, BaseOf
  <2> QED BY <2>1 DEF ProtoName, ChainName, PolicyName, SwitchName
<1>4. PICK z : z = [b EXCEPT !.chain = ChainName(@), !.proto = ProtoName(@)]
  OBVIOUS
<1>5. z = b
  <2>1. z = BaseOf(ChainName(c), ProtoName(proto), sport, dport, sa, da)
    BY ONLY <1>2, <1>4 DEF BaseOf
  <2> QED BY <1>2, <1>3, <2>1
<1>6. Printed(r) = [base |-> z, off |-> SwitchName(off), policy |-> PolicyName(policy)]
  BY <1>1, <1>4 DEF Printed
<1> QED BY <1>1, <1>3, <1>5, <1>6

\* Of sequences of S, it does not matter what else is wanted.
LEMMA SelectSame ==
  ASSUME NEW S, NEW s \in Seq(S), NEW P, NEW R, S \cap P = S \cap R
  PROVE  Select(s, P) = Select(s, R)
<1>1. Select(s, S) = s
  BY SelectAll, S \subseteq S
<1>2. Select(Select(s, S), P) = Select(s, S \cap P) /\ Select(Select(s, S), R) = Select(s, S \cap R)
  BY SelectSelect
<1> QED BY <1>1, <1>2

\* Those of a chain, out of the two chains put together.
LEMMA OwnOfBoth ==
  ASSUME Own(chain), NEW c \in Chain
  PROVE  Select(Together(chain["INPUT"], chain["OUTPUT"]), OnChain(c)) = chain[c]
<1>1. PICK s \in Seq(OnChain("INPUT")), t \in Seq(OnChain("OUTPUT")) : s = chain["INPUT"] /\ t = chain["OUTPUT"]
  BY DEF Own, Chains, Chain
<1>2. s \in Seq(Rule) /\ t \in Seq(Rule)
  <2>1. OnChain("INPUT") \subseteq Rule /\ OnChain("OUTPUT") \subseteq Rule
    BY DEF OnChain
  <2> QED BY <1>1, <2>1, SeqMonotonic
<1>3. Select(Together(s, t), OnChain(c)) = Together(Select(s, OnChain(c)), Select(t, OnChain(c)))
  BY <1>2, SelectTogether
<1>4. OnChain("INPUT") \cap OnChain("OUTPUT") = {} /\ OnChain("OUTPUT") \cap OnChain("INPUT") = {}
  BY DEF OnChain
<1>5. CASE c = "INPUT"
  <2>1. Select(s, OnChain(c)) = s
    BY <1>5, SelectAll, OnChain("INPUT") \subseteq OnChain("INPUT")
  <2>2. Select(t, OnChain(c)) = <<>>
    BY <1>4, <1>5, SelectNone
  <2>3. Together(s, <<>>) = s
    BY <1>2, TogetherIs
  <2> QED BY <1>1, <1>3, <1>5, <2>1, <2>2, <2>3
<1>6. CASE c = "OUTPUT"
  <2>1. Select(t, OnChain(c)) = t
    BY <1>6, SelectAll, OnChain("OUTPUT") \subseteq OnChain("OUTPUT")
  <2>2. Select(s, OnChain(c)) = <<>>
    BY <1>4, <1>6, SelectNone
  <2>3. Together(<<>>, t) = t
    BY <1>2, TogetherIs
  <2> QED BY <1>1, <1>3, <1>6, <2>1, <2>2, <2>3
<1> QED BY <1>5, <1>6 DEF Chain

\* What is shown of a chain.
LEMMA ShownIs ==
  ASSUME Typed, given.rules \in Seq(OfKind(Protocolled)), NEW line \in Line, WellFormed(line), Listed(line),
         NEW s, s = ParseCmdArgs(line), s.command = "list", NEW c \in Chain, Covers(line[1].arg, c),
         NEW wanted, wanted = {r \in Rule : r.base.chain = c /\ HasNamed(line, r)}
  PROVE  Shown(Sent(s), c) = Select(given.rules, wanted)
<1>1. PICK rules \in Seq(OfKind(Protocolled)) : rules = given.rules
  OBVIOUS
<1>2. PICK A : A = {r \in Rule : s.base.chain = "ALL" \/ FrPattern(r, s)}
  OBVIOUS
<1>3. PICK C : C = OnChain(c)
  OBVIOUS
<1>4. PICK both \in Seq(Rule) : both = chain["INPUT"] \o chain["OUTPUT"]
  <2>1. Own(chain)
    BY MatchesOwn DEF Typed
  <2>2. chain["INPUT"] \in Seq(Rule) /\ chain["OUTPUT"] \in Seq(Rule)
    <3>1. OnChain("INPUT") \subseteq Rule /\ OnChain("OUTPUT") \subseteq Rule
      BY DEF OnChain
    <3>2. chain["INPUT"] \in Seq(OnChain("INPUT")) /\ chain["OUTPUT"] \in Seq(OnChain("OUTPUT"))
      BY <2>1 DEF Own, Chains, Chain
    <3> QED BY <3>1, <3>2, SeqMonotonic
  <2>3. PICK x \in Seq(Rule), y \in Seq(Rule) : x = chain["INPUT"] /\ y = chain["OUTPUT"]
    BY <2>2
  <2>4. x \o y \in Seq(Rule)
    OBVIOUS
  <2> QED BY <2>3, <2>4
<1>5. Select(both, C) = Select(rules, C)
  <2>1. Select(both, C) = chain[c]
    BY <1>3, <1>4, OwnOfBoth, MatchesOwn DEF Typed, Together
  <2>2. chain[c] = Select(rules, C)
    BY <1>1, <1>3 DEF Typed, Matches, Chains
  <2> QED BY <2>1, <2>2
<1>6. Sent(s) = Select(both, A)
  BY <1>2, <1>4 DEF Sent
<1>7. PICK own : own = Select(Select(both, A), C)
  OBVIOUS
<1>8. own = Select(rules, C \cap A)
  <2>1. own = Select(Select(both, C), A)
    BY <1>7, SelectCommutes
  <2> QED BY <1>5, <2>1, SelectSelect
<1>9. OfKind(Protocolled) \cap (C \cap A) = OfKind(Protocolled) \cap wanted
  <2>1. line[1].opt = "list" /\ ~Wrong(line)
    BY Understood
  <2>2. s.base = Asked(line).base /\ s.off = Asked(line).off /\ s.policy = Asked(line).policy
    BY <2>1, Understood
  <2>3. line[1].arg \in {"ALL", "INPUT", "OUTPUT"}
    BY <2>1, AskedType
  <2>4. ASSUME NEW r \in Rule, r.base.chain = c
        PROVE  s.base.chain = "ALL" \/ FrPattern(r, s) <=> HasNamed(line, r)
    BY <2>1, <2>2, <2>3, <2>4, PatternIs
  <2>5. \A r \in Rule : r \in C \cap A <=> r \in wanted
    BY <1>2, <1>3, <2>4 DEF OnChain
  <2> QED BY <2>5 DEF OfKind
<1>10. own = Select(rules, wanted)
  BY <1>8, <1>9, SelectSame
<1>11. \A i \in DOMAIN own : Printed(own[i]) = own[i]
  <2>1. own \in Seq(OfKind(Protocolled) \cap wanted)
    BY <1>10, SelectType
  <2>2. ASSUME NEW i \in DOMAIN own PROVE own[i] \in OfKind(Protocolled) /\ own[i].base.chain = c
    BY <2>1
  <2> QED BY <2>2, PrintedIs
<1>12. own = [i \in DOMAIN own |-> own[i]]
  <2>1. own \in Seq(OfKind(Protocolled))
    BY <1>10, SelectKeepsType
  <2> QED BY <2>1
<1>13. Shown(Sent(s), c) = [i \in DOMAIN own |-> Printed(own[i])]
  <2>1. Select(Sent(s), {r \in Rule : r.base.chain = c}) = own
    BY <1>3, <1>6, <1>7 DEF OnChain
  <2> QED BY <2>1 DEF Shown
<1> QED BY <1>1, <1>10, <1>11, <1>12, <1>13

LEMMA ListingIs ==
  ASSUME Typed, given.rules \in Seq(OfKind(Protocolled)), NEW line \in Line, WellFormed(line), Listed(line),
         ListRules(line), Remember(line)
  PROVE  ListingAsTyped'
<1>1. PICK s : s = ParseCmdArgs(line)
  OBVIOUS
<1>2. PICK D : D = {d \in Chain : Covers(s.base.chain, d)}
  OBVIOUS
<1>3. PICK shown : shown = [c \in D |-> [policy |-> PolicyName(chainPolicy[c]), rules |-> Shown(Sent(s), c)]]
  OBVIOUS
<1>4. s.command = "list" /\ seen' = [what |-> "listing", line |-> line, shown |-> shown]
  BY <1>1, <1>2, <1>3, Zenon DEF ListRules
<1>5. line[1].opt = "list" /\ ~Wrong(line) /\ s.base = Asked(line).base
  BY <1>1, <1>4, Carried
<1>6. s.base.chain = line[1].arg
  BY <1>5 DEF Asked
<1>7. given'.rules = given.rules /\ given'.policy = chainPolicy
  <2>1. given'.rules = RulesAfter(given.rules, line) /\ given'.policy = given.policy
    BY <1>5, Remembered
  <2>2. RulesAfter(given.rules, line) = given.rules
    BY <1>5 DEF RulesAfter
  <2> QED BY <2>1, <2>2 DEF Typed
<1>8. ASSUME NEW c \in Chain
      PROVE  Covers(line[1].arg, c) <=>
               /\ c \in DOMAIN shown
               /\ shown[c] = [policy |-> given'.policy[c],
                              rules |-> Select(given'.rules, {r \in Rule : r.base.chain = c /\ HasNamed(line, r)})]
  <2>1. c \in DOMAIN shown <=> Covers(line[1].arg, c)
    BY <1>2, <1>3, <1>6
  <2>2. ASSUME Covers(line[1].arg, c)
        PROVE  shown[c] = [policy |-> given'.policy[c],
                           rules |-> Select(given'.rules, {r \in Rule : r.base.chain = c /\ HasNamed(line, r)})]
    <3>1. PICK wanted : wanted = {r \in Rule : r.base.chain = c /\ HasNamed(line, r)}
      OBVIOUS
    <3>2. Shown(Sent(s), c) = Select(given.rules, wanted)
      BY <1>1, <1>4, <2>2, <3>1, ShownIs
    <3>3. PolicyName(chainPolicy[c]) = chainPolicy[c]
      <4>1. chainPolicy[c] \in Policy
        BY DEF Typed
      <4> QED BY <4>1 DEF PolicyName
    <3>4. shown[c] = [policy |-> PolicyName(chainPolicy[c]), rules |-> Shown(Sent(s), c)]
      BY <1>3, <2>1, <2>2
    <3> QED BY <1>7, <3>1, <3>2, <3>3, <3>4
  <2> QED BY <2>1, <2>2
<1>9. seen'.what = "listing" /\ seen'.line = line /\ seen'.shown = shown
  BY <1>4
<1> QED BY <1>8, <1>9 DEF ListingAsTyped

LEMMA ListingStep ==
  ASSUME ObeyedLines, ListedLines, Typed, given.rules \in Seq(OfKind(Protocolled)), ListingAsTyped, [Next]_vars
  PROVE  ListingAsTyped'
<1>1. ASSUME NEW line \in Line, ProcessCommand(line), Remember(line) PROVE ListingAsTyped'
  <2>1. CASE ListRules(line)
    BY <1>1, <2>1, ListingIs DEF ObeyedLines, ListedLines
  <2>2. CASE ~ListRules(line)
    <3>1. \A said : Says(line, said) => seen'.what = "typed"
      BY DEF Says
    <3>2. \E said : Says(line, said)
      BY <1>1, <2>2, Zenon DEF ProcessCommand, AddRule, UpdateRule, DeleteRule, DeleteRules, ChainPolicy,
                               LoadFromFile, PrintHelp
    <3> QED BY <3>1, <3>2 DEF ListingAsTyped
  <2> QED BY <2>1, <2>2
<1>2. ASSUME NEW c \in Chain, NEW p \in Packet, HookFunc(c, p) PROVE ListingAsTyped'
  <2>1. seen'.what = "verdict"
    BY <1>2 DEF HookFunc
  <2> QED BY <2>1 DEF ListingAsTyped
<1>3. CASE UNCHANGED vars
  BY <1>3 DEF vars, ListingAsTyped
<1> QED BY <1>1, <1>2, <1>3 DEF Next

\* bfctl --list shows of each chain asked for, in the order in which they were typed,
\* the rules that have what the line names, and the chain's policy, for any rules, files
\* and lines, if the lines are obeyed and name no zero, and no rule has the protocol ALL.
THEOREM ListingsAsTyped ==
  ASSUME ObeyedLines, ListedLines
  PROVE  Spec => []ListingAsTyped
<1> DEFINE Inv == Typed /\ given.rules \in Seq(OfKind(Protocolled)) /\ ListingAsTyped
<1>1. Init => Inv
  <2>1. Init => ListingAsTyped
    BY DEF Init, ListingAsTyped
  <2> QED BY <2>1, TypedInit, KindInit
<1>2. Inv /\ [Next]_vars => Inv'
  <2>1. SUFFICES ASSUME Inv, [Next]_vars PROVE Inv'
    OBVIOUS
  <2>2. ASSUME NEW line \in Line, line[1].opt = "append", ~Wrong(line) PROVE Asked(line).base \in Protocolled
    <3>1. Asked(line) \in Rule
      BY <2>2, AskedType DEF ObeyedLines
    <3>2. At(line, "proto") # {}
      BY <2>2 DEF Wrong
    <3>3. \A i \in DOMAIN line : line[i].opt = "proto" => line[i].arg \in {"TCP", "UDP"}
      BY <2>2 DEF Wrong, ListedLines, Listed, At
    <3>4. Given(line, "proto", "TCP") \in {"TCP", "UDP"}
      BY <3>3, GivenIn
    <3>5. Asked(line).base.proto = Given(line, "proto", "TCP")
      BY <3>2 DEF Asked, Given, Default
    <3> QED BY <3>1, <3>4, <3>5 DEF Protocolled, Rule
  <2>3. \A r \in FileRule : r.base \in Protocolled
    BY FileRulesAre DEF ListedLines, Protocolled, Rule
  <2> QED BY <2>1, <2>2, <2>3, TypedStep, KindStep, ListingStep
<1> QED BY <1>1, <1>2, PTL DEF Spec

-----------------------------------------------------------------------------
(* Unloading.                                                                *)

Loading == {"none", "queue", "failed", "proc", "out", "in"}
Unhooked == {"noOut", "noQueue", "noSocket", "gone"}
Over == {"noQueue", "noSocket", "gone"}

Handler == [at : {"idle", "take", "unlink", "send", "free"}, skb : Nat, more : BOOLEAN]

UnloadTypes ==
  /\ module \in Loading \cup {"loaded", "noIn"} \cup Unhooked
  /\ hooks \subseteq {"in", "out"}
  /\ run \in [Cpu -> Handler]
  /\ fired \in Nat /\ list \in Seq(Nat)

\* Nobody has subscribed before the socket is there; when the last hook is gone, only the
\* processors that are waited for are still in one; when the workqueue is gone, nothing runs.
UnloadInv ==
  /\ UnloadTypes
  /\ module \in Loading => pidLog = NoProcess
  /\ module = "noIn" => hooks \subseteq {"out"}
  /\ module \in Unhooked => hooks = {} /\ hook \subseteq waits
  /\ module \in Over => hook = {} /\ Still

LEMMA UnloadInitially == LogInit => UnloadInv
BY DEF LogInit, UnloadInv, UnloadTypes, Idle, Handler, Loading, Unhooked, Over

LEMMA UnloadStep == UnloadInv /\ [LogNext]_logVars => UnloadInv'
<1> SUFFICES ASSUME UnloadInv, [LogNext]_logVars PROVE UnloadInv'
  OBVIOUS
<1> USE DEF UnloadInv, UnloadTypes, Loading, Unhooked, Over, Still
<1>1. CASE Loader
  <2>1. UNCHANGED log
    BY <1>1 DEF Loader, InitModule, RegisterOut, RegisterIn, NlInit, UnregisterIn, UnregisterOut,
      DestroyWorkqueue, NlExit
  <2>2. CASE InitModule \/ RegisterOut \/ RegisterIn \/ NlInit
    BY <2>1, <2>2 DEF log, workqueue, InitModule, RegisterOut, RegisterIn, NlInit
  <2>3. CASE UnregisterIn \/ UnregisterOut
    BY <2>1, <2>3 DEF log, workqueue, UnregisterIn, UnregisterOut
  <2>4. CASE DestroyWorkqueue \/ NlExit
    BY <2>1, <2>4 DEF log, workqueue, DestroyWorkqueue, NlExit
  <2> QED
    BY <1>1, <2>2, <2>3, <2>4 DEF Loader
<1>2. ASSUME NEW c \in Cpu, SkbQueueTail(c) PROVE UnloadInv'
  <2>1. list' \in Seq(Nat) /\ fired' \in Nat
    BY <1>2 DEF SkbQueueTail
  <2>2. module \notin Unhooked
    BY <1>2 DEF SkbQueueTail
  <2> QED
    BY <1>2, <2>1, <2>2 DEF SkbQueueTail, loading, workqueue
<1>3. ASSUME NEW c \in Cpu, QueueWork(c) PROVE UnloadInv'
  BY <1>3 DEF QueueWork, loading
<1>4. ASSUME NEW c \in Cpu, WorkHandler(c) PROVE UnloadInv'
  <2>1. loading' = loading /\ waits' = waits /\ pidLog' = pidLog /\ hook' = hook /\ fired' = fired
    BY <1>4 DEF WorkHandler, Begin, Take, Unlink, SendLog, KfreeSkb
  <2>2. module \notin Over
    BY <1>4 DEF WorkHandler, Begin, Take, Unlink, SendLog, KfreeSkb
  <2>3. list' \in Seq(Nat)
    <3>1. CASE Unlink(c)
      BY <3>1 DEF Unlink
    <3> QED
      BY <1>4, <3>1 DEF WorkHandler, Begin, Take, SendLog, KfreeSkb
  <2>4. run' \in [Cpu -> Handler]
    <3>1. CASE Take(c)
      <4>1. list # <<>> => Head(list) \in Nat
        OBVIOUS
      <4> QED
        BY <3>1, <4>1 DEF Take, Idle, Handler
    <3>2. CASE Begin(c) \/ Unlink(c) \/ SendLog(c) \/ KfreeSkb(c)
      <4>1. run[c] \in Handler
        OBVIOUS
      <4>2. \E h \in Handler : run' = [run EXCEPT ![c] = h]
        BY <3>2, <4>1 DEF Begin, Unlink, SendLog, KfreeSkb, Idle, Handler
      <4> QED
        BY <4>2
    <3> QED
      BY <1>4, <3>1, <3>2 DEF WorkHandler
  <2> QED
    BY <2>1, <2>2, <2>3, <2>4 DEF loading
<1>5. ASSUME NEW p \in Process, LogSubscribe(p) PROVE UnloadInv'
  BY <1>5 DEF LogSubscribe, HasSocket, loading, workqueue
<1>6. CASE UNCHANGED logVars
  BY <1>6 DEF logVars, loading, workqueue
<1> QED
  BY <1>1, <1>2, <1>3, <1>4, <1>5, <1>6 DEF LogNext

\* cleanup_module takes the hooks, the workqueue and the socket away in an order in which
\* nobody uses them any more.
THEOREM UnloadsQuietly == LogSpec => []UnloadQuiet
<1>1. UnloadInv => UnloadQuiet
  BY DEF UnloadInv, UnloadTypes, UnloadQuiet, HasSocket, Still, Loading, Unhooked, Over
<1> QED
  BY <1>1, UnloadInitially, UnloadStep, PTL DEF LogSpec
-----------------------------------------------------------------------------
(* The order on one processor.                                               *)

Below(s, n) == \A i \in DOMAIN s : s[i] < n

\* What has been sent, or freed, came before all that is still on the list.
Passed(s, l, n) ==
  /\ s \in Seq(Nat) /\ Increasing(s)
  /\ Below(s, n + 1)
  /\ \A j \in DOMAIN l : Below(s, l[j])

\* The handler has the head of the list, and then what was the head: nobody else takes one.
OrderInv(u) ==
  /\ pidLog \in Process \cup {NoProcess} /\ DOMAIN logged = Process
  /\ Increasing(list) /\ Below(list, fired + 1)
  /\ Passed(freed, list, fired) /\ \A p \in Process : Passed(logged[p], list, fired)
  /\ run[u].at = "unlink" => list # <<>> /\ Head(list) = run[u].skb
  /\ run[u].at \in {"send", "free"} =>
       /\ run[u].skb < fired + 1 /\ Below(freed, run[u].skb)
       /\ \A j \in DOMAIN list : run[u].skb < list[j]
  /\ run[u].at = "send" => \A p \in Process : Below(logged[p], run[u].skb)

LEMMA AppendIncreasing ==
  ASSUME NEW s \in Seq(Nat), NEW n \in Nat, Increasing(s), Below(s, n)
  PROVE  /\ Append(s, n) \in Seq(Nat) /\ Increasing(Append(s, n))
         /\ \A i \in DOMAIN Append(s, n) : Append(s, n)[i] = n \/ (i \in DOMAIN s /\ Append(s, n)[i] = s[i])
<1>1. \A i \in DOMAIN Append(s, n) : IF i \in DOMAIN s THEN Append(s, n)[i] = s[i]
                                                   ELSE i = Len(s) + 1 /\ Append(s, n)[i] = n
  OBVIOUS
<1>2. Increasing(Append(s, n))
  BY <1>1 DEF Increasing, Below
<1> QED
  BY <1>1, <1>2

LEMMA TailIncreasing ==
  ASSUME NEW s \in Seq(Nat), Increasing(s), s # <<>>
  PROVE  /\ Tail(s) \in Seq(Nat) /\ Increasing(Tail(s))
         /\ Head(s) \in Nat /\ 1 \in DOMAIN s /\ s[1] = Head(s)
         /\ \A i \in DOMAIN Tail(s) :
              /\ \E j \in DOMAIN s : Tail(s)[i] = s[j]
              /\ Head(s) < Tail(s)[i]
<1>1. \A i \in DOMAIN Tail(s) : i + 1 \in DOMAIN s /\ Tail(s)[i] = s[i + 1] /\ 1 < i + 1
  OBVIOUS
<1>2. 1 \in DOMAIN s /\ s[1] = Head(s) /\ Head(s) \in Nat /\ Tail(s) \in Seq(Nat)
  OBVIOUS
<1>3. \A i, j \in DOMAIN Tail(s) : i < j => i + 1 < j + 1
  OBVIOUS
<1>4. Increasing(Tail(s))
  BY <1>1, <1>3 DEF Increasing
<1>5. \A i \in DOMAIN Tail(s) : Head(s) < Tail(s)[i]
  BY <1>1, <1>2 DEF Increasing
<1> QED
  BY <1>1, <1>2, <1>4, <1>5

LEMMA OrderInitially == ASSUME NEW u, Cpu = {u} PROVE LogInit => OrderInv(u)
BY DEF LogInit, OrderInv, Passed, Below, Increasing, Idle

LEMMA HandlerStep ==
  ASSUME NEW u, Cpu = {u}, UnloadInv, OrderInv(u), WorkHandler(u)
  PROVE  OrderInv(u)'
<1> USE DEF OrderInv
<1>0. run[u] \in Handler /\ run \in [Cpu -> Handler] /\ list \in Seq(Nat) /\ fired \in Nat
  BY DEF UnloadInv, UnloadTypes
<1>1. CASE Begin(u)
  <2>1. run'[u].at = "take"
    BY <1>0, <1>1 DEF Begin, Handler
  <2> QED
    BY <1>1, <2>1 DEF Begin, Passed
<1>2. CASE Take(u)
  <2>1. \/ run'[u].at = "idle"
        \/ /\ run'[u].at = "unlink"
           /\ run'[u].skb = Head(list) /\ list # <<>>
    BY <1>0, <1>2 DEF Take, Idle
  <2> QED
    BY <1>2, <2>1 DEF Take, Passed
<1>3. CASE Unlink(u)
  <2>1. /\ run[u].at = "unlink" /\ list # <<>> /\ Head(list) = run[u].skb
        /\ run'[u].at = "send" /\ run'[u].skb = run[u].skb
    BY <1>0, <1>3 DEF Unlink, Handler
  <2>2. list' = <<>> \/ list' = Tail(list)
    BY <1>3, <2>1 DEF Unlink
  <2>3. list[1] = run[u].skb /\ 1 \in DOMAIN list
    BY <1>0, <2>1, TailIncreasing
  <2>4. /\ list' \in Seq(Nat) /\ Increasing(list')
        /\ \A j \in DOMAIN list' : run[u].skb < list'[j] /\ \E i \in DOMAIN list : list'[j] = list[i]
    <3>1. CASE list' = <<>>
      BY <3>1 DEF Increasing
    <3>2. CASE list' = Tail(list)
      BY <1>0, <2>1, <3>2, TailIncreasing
    <3> QED
      BY <2>2, <3>1, <3>2
  <2>5. freed' = freed /\ logged' = logged /\ fired' = fired /\ pidLog' = pidLog
    BY <1>3 DEF Unlink
  <2>6. Below(list', fired' + 1)
    BY <2>4, <2>5 DEF Below
  <2>7. \A s : Passed(s, list, fired) => Passed(s, list', fired') /\ Below(s, run[u].skb)
    BY <2>3, <2>4, <2>5 DEF Passed
  <2>8. run[u].skb < fired + 1
    BY <2>3 DEF Below
  <2> QED
    BY <2>1, <2>4, <2>5, <2>6, <2>7, <2>8
<1>4. CASE SendLog(u)
  <2>1. /\ run[u].at = "send" /\ run[u].skb \in Nat
        /\ run'[u].at = "free" /\ run'[u].skb = run[u].skb
    BY <1>0, <1>4 DEF SendLog, Handler
  <2>2. list' = list /\ freed' = freed /\ fired' = fired /\ pidLog' = pidLog
    BY <1>4 DEF SendLog
  <2>3. DOMAIN logged' = Process
    BY <1>4 DEF SendLog
  <2>4. \A s : Passed(s, list, fired) => Passed(s, list', fired')
    BY <2>2 DEF Passed
  <2>5. ASSUME NEW p \in Process PROVE Passed(logged'[p], list, fired)
    <3>1. CASE logged'[p] = logged[p]
      BY <2>4, <3>1
    <3>2. CASE logged'[p] = Append(logged[p], run[u].skb)
      <4>1. Passed(logged[p], list, fired) /\ Below(logged[p], run[u].skb)
        BY <2>1
      <4>2. /\ logged'[p] \in Seq(Nat) /\ Increasing(logged'[p])
            /\ \A i \in DOMAIN logged'[p] :
                 logged'[p][i] = run[u].skb \/ \E j \in DOMAIN logged[p] : logged'[p][i] = logged[p][j]
        BY <2>1, <3>2, <4>1, AppendIncreasing DEF Passed
      <4>3. run[u].skb < fired + 1 /\ \A j \in DOMAIN list : run[u].skb < list[j]
        BY <2>1
      <4>4. Below(logged'[p], fired + 1) /\ \A j \in DOMAIN list : Below(logged'[p], list[j])
        BY <4>1, <4>2, <4>3 DEF Below, Passed
      <4> QED
        BY <2>2, <4>2, <4>4 DEF Passed
    <3> QED
      BY <1>4, <3>1, <3>2 DEF SendLog
  <2> QED
    BY <2>1, <2>2, <2>3, <2>4, <2>5
<1>5. CASE KfreeSkb(u)
  <2>1. run[u].at = "free" /\ run[u].skb \in Nat /\ run'[u].at = "idle"
    BY <1>0, <1>5 DEF KfreeSkb, Handler, Idle
  <2>2. list' = list /\ logged' = logged /\ fired' = fired /\ pidLog' = pidLog
        /\ freed' = Append(freed, run[u].skb)
    BY <1>5 DEF KfreeSkb
  <2>3. \A s : Passed(s, list, fired) => Passed(s, list', fired')
    BY <2>2 DEF Passed
  <2>4. /\ freed' \in Seq(Nat) /\ Increasing(freed')
        /\ \A i \in DOMAIN freed' :
             freed'[i] = run[u].skb \/ \E j \in DOMAIN freed : freed'[i] = freed[j]
    BY <2>1, <2>2, AppendIncreasing DEF Passed
  <2>5. Below(freed', fired + 1) /\ \A j \in DOMAIN list : Below(freed', list[j])
    BY <2>1, <2>4 DEF Below, Passed
  <2>6. Passed(freed', list, fired)
    BY <2>2, <2>4, <2>5 DEF Passed
  <2> QED
    BY <2>1, <2>2, <2>3, <2>6
<1> QED
  BY <1>1, <1>2, <1>3, <1>4, <1>5 DEF WorkHandler

LEMMA OrderStep ==
  ASSUME NEW u, Cpu = {u}, UnloadInv, OrderInv(u), [LogNext]_logVars
  PROVE  OrderInv(u)'
<1> USE DEF OrderInv
<1>0. list \in Seq(Nat) /\ fired \in Nat /\ NoProcess \notin Process
  BY LogAssumption DEF UnloadInv, UnloadTypes
<1>1. CASE UNCHANGED log \/ QueueWork(u) \/ UNCHANGED logVars
  <2>1. UNCHANGED <<list, run, pidLog, fired, logged, freed>>
    BY <1>1 DEF log, QueueWork, logVars
  <2> QED
    BY <2>1 DEF Passed
<1>2. CASE SkbQueueTail(u)
  <2>1. /\ list' = Append(list, fired + 1) /\ fired' = fired + 1
        /\ UNCHANGED <<run, pidLog, logged, freed>>
    BY <1>2 DEF SkbQueueTail
  <2>2. /\ list' # <<>> /\ Increasing(list')
        /\ \A j \in DOMAIN list' : list'[j] = fired + 1 \/ \E i \in DOMAIN list : list'[j] = list[i]
        /\ list # <<>> => Head(list') = Head(list)
    BY <1>0, <2>1, AppendIncreasing
  <2>3. \A s : Passed(s, list, fired) => Passed(s, list', fired')
    <3>1. ASSUME NEW s, Passed(s, list, fired) PROVE Below(s, fired' + 1) /\ \A j \in DOMAIN list' : Below(s, list'[j])
      <4>1. /\ \A i \in DOMAIN s : s[i] \in Nat
            /\ Below(s, fired + 1) /\ \A j \in DOMAIN list : Below(s, list[j])
        BY <1>0, <3>1 DEF Passed
      <4>2. Below(s, fired' + 1)
        BY <1>0, <2>1, <4>1 DEF Below
      <4> QED
        BY <2>2, <4>1, <4>2 DEF Below
    <3> QED
      BY <3>1 DEF Passed
  <2>4. Below(list', fired' + 1)
    BY <1>0, <2>1, <2>2 DEF Below
  <2>5. run[u].at \in {"send", "free"} =>
          run[u].skb < fired' + 1 /\ \A j \in DOMAIN list' : run[u].skb < list'[j]
    BY <1>0, <2>1, <2>2 DEF UnloadInv, UnloadTypes, Handler
  <2> QED
    BY <2>1, <2>2, <2>3, <2>4, <2>5
<1>3. CASE WorkHandler(u)
  BY <1>3, HandlerStep
<1>4. ASSUME NEW p \in Process, LogSubscribe(p) PROVE OrderInv(u)'
  BY <1>4 DEF LogSubscribe, Passed
<1>5. Loader => UNCHANGED log
  BY DEF Loader, InitModule, RegisterOut, RegisterIn, NlInit, UnregisterIn, UnregisterOut,
    DestroyWorkqueue, NlExit
<1> QED
  BY <1>1, <1>2, <1>3, <1>4, <1>5 DEF LogNext

\* On one processor a subscriber is sent packets in the order in which they fired their
\* rules, however many there are, and whoever subscribes in between.
THEOREM OneProcessorInOrder ==
  ASSUME NEW u, Cpu = {u}
  PROVE  LogSpec => []LogInOrder
<1>1. LogInit => UnloadInv /\ OrderInv(u)
  BY UnloadInitially, OrderInitially
<1>2. UnloadInv /\ OrderInv(u) /\ [LogNext]_logVars => UnloadInv' /\ OrderInv(u)'
  BY UnloadStep, OrderStep
<1>3. OrderInv(u) => LogInOrder
  BY DEF OrderInv, Passed, LogInOrder
<1> QED
  BY <1>1, <1>2, <1>3, PTL DEF LogSpec

\* On one processor a packet is freed once, and is off the list by then.
THEOREM OneProcessorFreesOnce ==
  ASSUME NEW u, Cpu = {u}
  PROVE  LogSpec => []FreedOnce
<1>1. LogInit => UnloadInv /\ OrderInv(u)
  BY UnloadInitially, OrderInitially
<1>2. UnloadInv /\ OrderInv(u) /\ [LogNext]_logVars => UnloadInv' /\ OrderInv(u)'
  BY UnloadStep, OrderStep
<1>3. UnloadInv /\ OrderInv(u) => FreedOnce
  <2> SUFFICES ASSUME UnloadInv, OrderInv(u) PROVE FreedOnce
    OBVIOUS
  <2>1. freed \in Seq(Nat) /\ Increasing(freed) /\ list \in Seq(Nat) /\ run[u] \in Handler
    BY DEF UnloadInv, UnloadTypes, OrderInv, Passed
  <2>2. IsInjective(freed)
    BY <2>1 DEF IsInjective, Increasing
  <2>3. run[u].at \in {"unlink", "send", "free"} => Below(freed, run[u].skb)
    <3>1. CASE run[u].at = "unlink"
      <4>1. list[1] = run[u].skb /\ 1 \in DOMAIN list
        BY <2>1, <3>1 DEF OrderInv
      <4> QED
        BY <4>1 DEF OrderInv, Passed
    <3> QED
      BY <3>1 DEF OrderInv
  <2>4. Below(freed, run[u].skb) => run[u].skb \notin ToSet(freed)
    BY <2>1 DEF Below, ToSet, Handler
  <2> QED
    BY <2>2, <2>3, <2>4 DEF FreedOnce
<1> QED
  BY <1>1, <1>2, <1>3, PTL DEF LogSpec
==============================================================================
