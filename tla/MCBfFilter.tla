------------------------------ MODULE MCBfFilter ------------------------------
(* Small instances of BfFilter for TLC.                                      *)
EXTENDS BfFilter, TLC

Here == <<10, 0, 0, 1>>
There == <<10, 0, 0, 2>>

O(opt, arg) == [opt |-> opt, arg |-> arg, next |-> ""]

Dns == <<O("proto", "UDP"), O("sport", 53)>>
Web == <<O("proto", "UDP"), O("dport", 80)>>
Out == <<O("proto", "TCP"), O("sport", 80), O("dport", 80)>>

Do(command, c, rule, rest) == <<O(command, c)>> \o rule \o rest
Jump(policy) == <<O("jump", policy)>>

\* Two rules of INPUT that overlap in their ports, with opposite policies, and one
\* of OUTPUT, which a file has, too.
RightLines ==
  {Do("append", "INPUT", Dns, Jump("DROP")), Do("append", "INPUT", Web, Jump("ACCEPT")),
   Do("append", "OUTPUT", Out, Jump("DROP")),
   Do("update", "INPUT", Dns, <<O("off", "YES")>> \o Jump("DROP")),
   Do("update", "INPUT", Web, <<O("off", "NO")>> \o Jump("DROP")),
   Do("delete", "INPUT", Dns, <<>>), Do("delete", "OUTPUT", Out, <<>>),
   <<O("flush", "ALL")>>, <<O("file", "rules")>>,
   <<[O("policy", "ALL") EXCEPT !.next = "DROP"]>>, <<[O("policy", "INPUT") EXCEPT !.next = "ACCEPT"]>>,
   <<O("list", "ALL")>>, Do("list", "INPUT", <<O("proto", "UDP")>>, <<>>),
   Do("list", "INPUT", <<O("sport", 53)>>, Jump("ACCEPT"))}

\* A rule without a protocol, one of an unknown protocol, an unknown switch, an
\* unknown chain, a policy without its second word.
WrongLines ==
  {Do("append", "INPUT", <<O("sport", 53)>>, Jump("DROP")), Do("delete", "INPUT", <<O("proto", "SCTP")>>, <<>>),
   Do("append", "INPUT", Web, <<O("off", "MAYBE")>>), <<O("flush", "FORWARD")>>, <<O("policy", "INPUT")>>}

PortLines == RightLines \cup WrongLines

PortFile ==
  "rules" :> <<[base |-> [NoBase EXCEPT !.chain = "OUTPUT", !.proto = "TCP", !.src_port = 80, !.dst_port = 80],
                off |-> "NO", policy |-> "ACCEPT"],
               [base |-> [NoBase EXCEPT !.chain = "INPUT", !.proto = "TCP"], off |-> "NO", policy |-> "DROP"]>>

PacketsOf(proto, s, d) ==
  {[proto |-> proto, source |-> i, dest |-> j, saddr |-> s, daddr |-> d] :
     i \in {53, 80}, j \in {53, 80}}
PortPackets == PacketsOf("UDP", There, Here) \cup PacketsOf("TCP", There, Here)

\* The instance is one of those that the theorems are about.
ASSUME SupposedAssumption == WellFormedLines /\ ObeyedLines /\ UnaddressedLines /\ ListedLines
=============================================================================
