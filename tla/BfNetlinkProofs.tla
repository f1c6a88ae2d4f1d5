--------------------------- MODULE BfNetlinkProofs ---------------------------
(***************************************************************************)
(* Proofs about the dialogue over the netlink socket (BfNetlink): as long  *)
(* as no timer has run out, no answer has been left unread and no message  *)
(* has crossed a listing before its thread knew whom it works for, a call  *)
(* returns its own answer, a listing is complete, and nothing is lost, for *)
(* any number of clients.                                                  *)
(*                                                                         *)
(* The kernel's side is told whom it works for by the global thrd_params,  *)
(* and waits for any MSG_OK: so while the dialogue is prompt there is one  *)
(* lister at most, one list thread, and nothing of it in other queues.     *)
(***************************************************************************)
EXTENDS BfNetlink, TLAPS, SequenceTheorems

Message == [type : {"DATA"}, rule : Rule, ack : BOOLEAN]
           \cup [type : {"DONE"}] \cup [type : {"ERR"}, code : Code, of : Nat]
At == {"free", "born", "reads", "sends", "acked"}

Place == Nat \ {0}
Pid == Client \cup {NULL}
ThreadState == [at : At, pid : Pid, pattern : Pattern, next : Place]

Ends == {"none", "answered", "done", "sent", "silence", "timeout", "failed"}

TypeOK ==
  /\ params \in [pid : Pid, pattern : Pattern]
  /\ comp \in Nat
  /\ thread \in [Thread -> ThreadState]
  /\ inbox \in [Client -> Seq(Message)]
  /\ op \in [Client -> {"idle", "wait", "list", "crashed"}]
  /\ list \in [Client -> Seq(Rule) \cup {NULL, WILD}]
  /\ err \in [Client -> Code]
  /\ last \in [Client -> [end : Ends, code : Code, list : Seq(Rule)]]
  /\ calls \in Nat
  /\ mine \in [Client -> [pattern : Pattern, truth : Code \cup {"NONE"}]]
  /\ lost \in BOOLEAN /\ prompt \in BOOLEAN

\* A list is there exactly while it is waited for.
ListKept(c) == list[c] \in Seq(Rule) <=> op[c] = "list"

\* No list thread runs and no MSG_OK is left over.
Quiet == comp = 0 /\ \A t \in Thread : thread[t].at = "free"

\* What has been sent to c in its listing.
Sent(c) == Len(list[c]) + Len(inbox[c])

\* The list thread of c's listing, in step with what has been sent.
Worker(t, c) ==
  /\ thread[t].next = Sent(c) + 1
  /\ Sent(c) <= Len(Items(mine[c].pattern))
  /\ thread[t].at # "born" => thread[t].pid = c
  /\ thread[t].at \in {"born", "reads"} => Sent(c) = 0
  /\ thread[t].at \in {"sends", "acked"} => thread[t].pattern = mine[c].pattern

\* The list and the queue together are a prefix of the listing.
Prefix(c) ==
  LET items == Items(mine[c].pattern)
      k == Len(list[c])
  IN /\ k <= Len(items) /\ Sent(c) <= Len(items) + 1
     /\ \A i \in 1..k : list[c][i] = items[i]
     /\ \A i \in 1..Len(inbox[c]) :
          inbox[c][i] = IF k + i <= Len(items) THEN Data(items[k + i], Flagged(k + i)) ELSE Done

\* An MSG_OK is only ever asked for by the last message sent, and its thread waits for it.
Acks(c) ==
  /\ \A i \in (Len(list[c]) + 1)..Sent(c) :
       (i <= Len(Items(mine[c].pattern)) /\ Flagged(i)) =>
          i = Sent(c) /\ \E t \in Thread : thread[t].at = "acked"
  /\ comp # 0 =>
       comp = 1 /\ Len(inbox[c]) = 0 /\ \E t \in Thread : thread[t].at = "acked"

Listed(c) ==
  /\ Unread => params.pid = c
  /\ params.pattern = mine[c].pattern
  /\ Prefix(c)
  /\ \A t, u \in Thread : (thread[t].at # "free" /\ thread[u].at # "free") => t = u
  /\ \A t \in Thread : thread[t].at # "free" => Worker(t, c)
  /\ Acks(c)

Returned(c) ==
  /\ last[c].end = "answered" => last[c].code = mine[c].truth
  /\ last[c].end = "done" => last[c].list = Items(mine[c].pattern)

\* The dialogue of a client whose calls have all been in time.
Dialogue(c) ==
  /\ op[c] # "crashed"
  /\ op[c] = "idle" => inbox[c] = <<>> /\ Returned(c)
  /\ op[c] = "wait" =>
       /\ Len(inbox[c]) <= 1
       /\ \A i \in 1..Len(inbox[c]) : inbox[c][i].type = "ERR" /\ inbox[c][i].code = mine[c].truth
  /\ op[c] = "list" => Listed(c)

\* One client lists at a time, and list threads run for it alone.
OneLister ==
  /\ \A c, d \in Client : op[c] = "list" /\ op[d] = "list" => c = d
  /\ (\A c \in Client : op[c] # "list") => Quiet

\* The queue that the acknowledgements are made for.
RoomEnough == QueueMax >= Len(Policies) + AckEvery

\* A thread starts at the first message of a listing.
Fresh == \A t \in Thread : thread[t].at = "free" => thread[t].next = 1

IInv ==
  /\ TypeOK /\ Fresh
  /\ \A c \in Client : ListKept(c)
  /\ prompt => OneLister /\ \A c \in Client : Dialogue(c)
  /\ prompt /\ RoomEnough => ~lost

-----------------------------------------------------------------------------
(* Types.                                                                  *)

LEMMA Typing ==
  /\ AnyPattern \in Pattern
  /\ Free \in ThreadState
  /\ \A p \in Pattern : Items(p) \in Seq(Rule) /\ Len(Items(p)) = Len(Policies) + Len(Listing[p])
  /\ \A r \in Rule : \A a \in BOOLEAN : Data(r, a) \in Message
  /\ Done \in Message
  /\ \A c \in Code : \A n \in Nat : Err(c, n) \in Message
  /\ \A i \in Nat : Flagged(i) \in BOOLEAN
<1>1. AnyPattern \in Pattern
  BY ConstantsAssumption DEF AnyPattern
<1>2. Free \in ThreadState
  BY <1>1 DEF Free, At, Pid, Place, ThreadState
<1>3. \A p \in Pattern : Items(p) \in Seq(Rule) /\ Len(Items(p)) = Len(Policies) + Len(Listing[p])
  BY ConstantsAssumption DEF Items
<1>4. /\ \A r \in Rule : \A a \in BOOLEAN : Data(r, a) \in Message
      /\ Done \in Message
      /\ \A c \in Code : \A n \in Nat : Err(c, n) \in Message
  BY DEF Data, Done, Err, Message
<1>5. \A i \in Nat : Flagged(i) \in BOOLEAN
  BY DEF Flagged
<1> QED
  BY <1>1, <1>2, <1>3, <1>4, <1>5

LEMMA TypeInit ==
  Init => TypeOK
<1> SUFFICES ASSUME Init PROVE TypeOK
  OBVIOUS
<1>1. <<>> \in Seq(Rule) /\ <<>> \in Seq(Message)
  OBVIOUS
<1> QED
  BY <1>1, Typing, ConstantsAssumption DEF Init, TypeOK, Result, Code, Pid, Ends

LEMMA DeliverTypes ==
  ASSUME TypeOK, NEW c, NEW m \in Message, Deliver(c, m)
  PROVE  inbox' \in [Client -> Seq(Message)] /\ lost' \in BOOLEAN
<1>1. inbox \in [Client -> Seq(Message)]
  BY DEF TypeOK
<1>2. [inbox EXCEPT ![c] = Append(@, m)] \in [Client -> Seq(Message)]
  <2>1. CASE c \in Client
    <3>1. Append(inbox[c], m) \in Seq(Message)
      BY <1>1, <2>1
    <3> QED
      BY <1>1, <3>1
  <2>2. CASE c \notin Client
    <3>1. [inbox EXCEPT ![c] = Append(@, m)] = inbox
      BY <1>1, <2>2
    <3> QED
      BY <1>1, <3>1
  <2> QED
    BY <2>1, <2>2
<1>3. inbox' \in [Client -> Seq(Message)]
  BY <1>1, <1>2 DEF Deliver
<1>4. lost' \in BOOLEAN
  BY DEF Deliver
<1> QED
  BY <1>3, <1>4

LEMMA TakeTypes ==
  ASSUME TypeOK, NEW c \in Client, NEW y, Take(c, y)
  PROVE  inbox' \in [Client -> Seq(Message)] /\ Head(inbox[c]) \in Message
BY DEF Take, TypeOK

LEMMA ReturnTypes ==
  ASSUME TypeOK, NEW c \in Client, NEW e \in {"answered", "done", "silence", "timeout"},
         NEW k \in Code, op[c] = "list" => list[c] \in Seq(Rule), Return(c, e, k)
  PROVE  /\ op' \in [Client -> {"idle", "wait", "list", "crashed"}]
         /\ list' \in [Client -> Seq(Rule) \cup {NULL, WILD}]
         /\ last' \in [Client -> [end : Ends, code : Code, list : Seq(Rule)]]
<1>1. PICK l : l = IF op[c] = "list" THEN list[c] ELSE <<>>
  OBVIOUS
<1>2. l \in Seq(Rule)
  BY <1>1
<1>3. PICK r : r = Result(e, k, l)
  OBVIOUS
<1>4. r \in [end : Ends, code : Code, list : Seq(Rule)]
  BY <1>2, <1>3 DEF Result, Ends
<1>5. last' = [last EXCEPT ![c] = r] /\ op' = [op EXCEPT ![c] = "idle"]
      /\ (list' = [list EXCEPT ![c] = NULL] \/ list' = list)
  BY <1>1, <1>3 DEF Return
<1> QED
  BY <1>4, <1>5 DEF TypeOK

LEMMA BeginTypes ==
  ASSUME TypeOK, NEW c \in Client, NEW p \in Pattern, NEW v \in Code \cup {"NONE"}, Begin(c, p, v)
  PROVE  /\ calls' \in Nat
         /\ mine' \in [Client -> [pattern : Pattern, truth : Code \cup {"NONE"}]]
BY DEF Begin, TypeOK

LEMMA LoopTypes ==
  ASSUME TypeOK, NEW c \in Client, NEW x \in {"wait", "list"}, Loop(c, x)
  PROVE  /\ op' \in [Client -> {"idle", "wait", "list", "crashed"}]
         /\ err' \in [Client -> Code] /\ last' = last
BY ConstantsAssumption DEF Loop, TypeOK, Code

LEMMA ChangeTypes ==
  ASSUME TypeOK, NEW c \in Client, NEW code \in Code, Change(c, code)
  PROVE  TypeOK'
<1>1. calls + 1 \in Nat
  BY DEF TypeOK
<1>2. Err(code, calls + 1) \in Message
  BY <1>1, Typing
<1>3. inbox' \in [Client -> Seq(Message)] /\ lost' \in BOOLEAN
  BY <1>2, DeliverTypes DEF Change
<1>4. /\ calls' \in Nat
      /\ mine' \in [Client -> [pattern : Pattern, truth : Code \cup {"NONE"}]]
  BY BeginTypes, Typing DEF Change
<1>5. /\ op' \in [Client -> {"idle", "wait", "list", "crashed"}]
      /\ err' \in [Client -> Code] /\ last' = last
  BY LoopTypes DEF Change
<1> QED
  BY <1>3, <1>4, <1>5 DEF Change, TypeOK, Pid

LEMMA AddPolicyRuleTypes ==
  ASSUME TypeOK, NEW c \in Client, AddPolicyRule(c)
  PROVE  TypeOK'
<1>1. /\ calls' \in Nat
      /\ mine' \in [Client -> [pattern : Pattern, truth : Code \cup {"NONE"}]]
  BY BeginTypes, Typing DEF AddPolicyRule
<1>2. /\ op' \in [Client -> {"idle", "wait", "list", "crashed"}]
      /\ err' \in [Client -> Code] /\ last' = last
  BY LoopTypes DEF AddPolicyRule
<1> QED
  BY <1>1, <1>2 DEF AddPolicyRule, TypeOK, Pid

LEMMA DeleteRulesTypes ==
  ASSUME TypeOK, NEW c \in Client, DeleteRules(c)
  PROVE  TypeOK'
<1>1. calls + 1 \in Nat
  BY DEF TypeOK
<1>2. Err("OK", calls + 1) \in Message
  BY <1>1, Typing DEF Code
<1>3. inbox' \in [Client -> Seq(Message)] /\ lost' \in BOOLEAN
  BY <1>2, DeliverTypes DEF DeleteRules
<1>4. /\ calls' \in Nat
      /\ mine' \in [Client -> [pattern : Pattern, truth : Code \cup {"NONE"}]]
  BY BeginTypes, Typing DEF DeleteRules, Code
<1>5. Result("sent", "OK", <<>>)
        \in [end : Ends, code : Code, list : Seq(Rule)]
  BY DEF Result, Code, Ends
<1> QED
  BY <1>3, <1>4, <1>5 DEF DeleteRules, TypeOK, Pid

LEMMA GetRulesTypes ==
  ASSUME TypeOK, NEW c \in Client, NEW p \in Pattern, GetRules(c, p)
  PROVE  TypeOK'
<1>1. /\ calls' \in Nat
      /\ mine' \in [Client -> [pattern : Pattern, truth : Code \cup {"NONE"}]]
  BY BeginTypes DEF GetRules
<1>2. /\ op' \in [Client -> {"idle", "wait", "list", "crashed"}]
      /\ err' \in [Client -> Code] /\ last' = last
  BY LoopTypes DEF GetRules
<1>3. list' \in [Client -> Seq(Rule) \cup {NULL, WILD}] /\ params' \in [pid : Pid, pattern : Pattern]
  BY DEF GetRules, TypeOK, Pid
<1>4. thread' \in [Thread -> ThreadState]
  <2>1. PICK t \in Thread : thread' = [thread EXCEPT ![t].at = "born"]
    BY DEF GetRules
  <2>2. thread \in [Thread -> ThreadState]
    BY DEF TypeOK
  <2> QED
    BY <2>1, <2>2 DEF ThreadState, At
<1> QED
  BY <1>1, <1>2, <1>3, <1>4 DEF GetRules, TypeOK

LEMMA SendFailsTypes ==
  ASSUME TypeOK, NEW c \in Client, SendFails(c)
  PROVE  TypeOK'
<1>1. /\ calls' \in Nat
      /\ mine' \in [Client -> [pattern : Pattern, truth : Code \cup {"NONE"}]]
  BY BeginTypes, Typing DEF SendFails
<1>2. Result("failed", "ERR", <<>>) \in [end : Ends, code : Code, list : Seq(Rule)]
  BY DEF Result, Code, Ends
<1>3. list' \in [Client -> Seq(Rule) \cup {NULL, WILD}]
  BY DEF SendFails, TypeOK
<1> QED
  BY <1>1, <1>2, <1>3 DEF SendFails, TypeOK, kernel

LEMMA ReceiveTypes ==
  ASSUME TypeOK, NEW c \in Client, ListKept(c), Receive(c)
  PROVE  TypeOK'
<1>1. CASE RecvData(c)
  <2>1. inbox' \in [Client -> Seq(Message)] /\ Head(inbox[c]) \in Message /\ Head(inbox[c]).type = "DATA"
    BY <1>1, TakeTypes DEF RecvData, Take
  <2>2. Head(inbox[c]).rule \in Rule
    BY <2>1 DEF Message
  <2>3. comp \in Nat /\ params \in [pid : Pid, pattern : Pattern] /\ c \in Pid
    BY DEF TypeOK, Pid
  <2>4. comp' \in Nat /\ params' \in [pid : Pid, pattern : Pattern]
    BY <1>1, <2>3 DEF RecvData, Acknowledges
  <2>5. PICK r \in Rule : r = Head(inbox[c]).rule
    BY <2>2
  <2>6. /\ op' \in [Client -> {"idle", "wait", "list", "crashed"}]
        /\ list' \in [Client -> Seq(Rule) \cup {NULL, WILD}]
    <3>1. CASE list[c] \in {NULL, WILD}
      <4>1. list' = list /\ (op' = op \/ op' = [op EXCEPT ![c] = "crashed"])
        BY <1>1, <3>1 DEF RecvData
      <4> QED
        BY <4>1 DEF TypeOK
    <3>2. CASE list[c] \notin {NULL, WILD}
      <4>1. list[c] \in Seq(Rule) /\ Append(list[c], r) \in Seq(Rule)
        BY <3>2 DEF TypeOK
      <4>2. op' = op /\ list' = [list EXCEPT ![c] = Append(list[c], r)]
        BY <1>1, <2>5, <3>2 DEF RecvData
      <4> QED
        BY <4>1, <4>2 DEF TypeOK
    <3> QED
      BY <3>1, <3>2
  <2> QED
    BY <1>1, <2>1, <2>4, <2>6 DEF RecvData, Take, TypeOK
<1>2. CASE RecvDone(c)
  <2>1. inbox' \in [Client -> Seq(Message)] /\ err[c] \in Code
    BY <1>2, TakeTypes DEF RecvDone, TypeOK
  <2>2. /\ op' \in [Client -> {"idle", "wait", "list", "crashed"}]
        /\ list' \in [Client -> Seq(Rule) \cup {NULL, WILD}]
        /\ last' \in [Client -> [end : Ends, code : Code, list : Seq(Rule)]]
    <3>1. CASE list[c] \in {NULL, WILD}
      BY <1>2, <3>1 DEF RecvDone, TypeOK
    <3>2. CASE list[c] \notin {NULL, WILD}
      BY <1>2, <2>1, <3>2, ReturnTypes DEF RecvDone, ListKept
    <3> QED
      BY <3>1, <3>2
  <2> QED
    BY <1>2, <2>1, <2>2 DEF RecvDone, Take, TypeOK
<1>3. CASE RecvErr(c)
  <2>1. inbox' \in [Client -> Seq(Message)] /\ Head(inbox[c]) \in Message /\ Head(inbox[c]).type = "ERR"
    BY <1>3, TakeTypes DEF RecvErr, Take
  <2>2. Head(inbox[c]).code \in Code
    BY <2>1 DEF Message
  <2>3. err' \in [Client -> Code]
    BY <1>3, <2>2 DEF RecvErr, TypeOK
  <2>4. /\ op' \in [Client -> {"idle", "wait", "list", "crashed"}]
        /\ list' \in [Client -> Seq(Rule) \cup {NULL, WILD}]
        /\ last' \in [Client -> [end : Ends, code : Code, list : Seq(Rule)]]
    <3>1. CASE op[c] = "wait"
      BY <1>3, <2>2, <3>1, ReturnTypes DEF RecvErr
    <3>2. CASE op[c] # "wait"
      BY <1>3, <3>2 DEF RecvErr, TypeOK
    <3> QED
      BY <3>1, <3>2
  <2> QED
    BY <1>3, <2>1, <2>3, <2>4 DEF RecvErr, Take, TypeOK
<1> QED
  BY <1>1, <1>2, <1>3 DEF Receive

LEMMA TimerTypes ==
  ASSUME TypeOK, NEW c \in Client, ListKept(c), Timeout(c)
  PROVE  TypeOK'
<1>1. PICK e \in {"silence", "timeout"} : Return(c, e, err[c])
  BY DEF Timeout
<1>2. err[c] \in Code
  BY DEF TypeOK
<1>3. /\ op' \in [Client -> {"idle", "wait", "list", "crashed"}]
      /\ list' \in [Client -> Seq(Rule) \cup {NULL, WILD}]
      /\ last' \in [Client -> [end : Ends, code : Code, list : Seq(Rule)]]
  BY <1>1, <1>2, ReturnTypes DEF ListKept
<1> QED
  BY <1>3 DEF Timeout, TypeOK, kernel

LEMMA SendTypes ==
  ASSUME TypeOK, NEW t \in Thread, Send(t)
  PROVE  TypeOK'
<1>0. /\ thread \in [Thread -> ThreadState] /\ thread[t] \in ThreadState
      /\ params.pid \in Pid /\ params.pattern \in Pattern
      /\ comp \in Nat /\ prompt \in BOOLEAN
  BY DEF TypeOK
<1>8. ASSUME UNCHANGED <<params, inbox, lost, call>>, prompt' \in BOOLEAN, comp' \in Nat,
              thread' \in [Thread -> ThreadState]
       PROVE  TypeOK'
  BY <1>8 DEF TypeOK, call
<1>1. CASE ThreadReadsPid(t)
  <2>1. thread' \in [Thread -> ThreadState]
    BY <1>0, <1>1 DEF ThreadReadsPid, ThreadState, At
  <2>2. UNCHANGED <<params, comp, inbox, lost, call, prompt>>
    BY <1>1 DEF ThreadReadsPid
  <2>3. comp' \in Nat /\ prompt' \in BOOLEAN
    BY <2>2 DEF TypeOK
  <2> QED
    BY <1>8, <2>1, <2>2, <2>3
<1>2. CASE ThreadReadsPattern(t)
  <2>1. thread' \in [Thread -> ThreadState]
    BY <1>0, <1>2 DEF ThreadReadsPattern, ThreadState, At
  <2>2. UNCHANGED <<params, comp, inbox, lost, call, prompt>>
    BY <1>2 DEF ThreadReadsPattern
  <2>3. comp' \in Nat /\ prompt' \in BOOLEAN
    BY <2>2 DEF TypeOK
  <2> QED
    BY <1>8, <2>1, <2>2, <2>3
<1>3. CASE ThreadSends(t)
  <2>1. PICK items : items = Items(thread[t].pattern)
    OBVIOUS
  <2>2. items \in Seq(Rule) /\ thread[t].next \in 1..Len(items) /\ Flagged(thread[t].next) \in BOOLEAN
    BY <1>0, <1>3, <2>1, Typing DEF ThreadSends, ThreadState, Place
  <2>3. Data(items[thread[t].next], Flagged(thread[t].next)) \in Message
    BY <2>2, Typing
  <2>4. inbox' \in [Client -> Seq(Message)] /\ lost' \in BOOLEAN
    BY <1>3, <2>1, <2>3, DeliverTypes DEF ThreadSends
  <2>5. thread' \in [Thread -> ThreadState]
    <3>1. CASE ~Fits(thread[t].pid)
      BY <1>3, <3>1, Typing DEF ThreadSends, TypeOK
    <3>2. CASE Fits(thread[t].pid)
      <4>1. PICK a \in {"acked", "sends"} :
              thread' = [thread EXCEPT ![t].next = thread[t].next + 1, ![t].at = a]
        BY <1>3, <3>2 DEF ThreadSends
      <4>2. thread[t].next + 1 \in Place
        BY <1>0 DEF ThreadState, Place
      <4> QED
        BY <1>0, <4>1, <4>2 DEF ThreadState, At
    <3> QED
      BY <3>1, <3>2
  <2>6. UNCHANGED <<params, comp, call, prompt>>
    BY <1>3 DEF ThreadSends
  <2> QED
    BY <2>4, <2>5, <2>6 DEF TypeOK, call
<1>4. CASE ThreadAcked(t) \/ ThreadGivesUp(t)
  <2>1. thread' \in [Thread -> ThreadState]
    BY <1>0, <1>4 DEF ThreadAcked, ThreadGivesUp, ThreadState, At
  <2>2. UNCHANGED <<params, inbox, lost, call>>
    BY <1>4 DEF ThreadAcked, ThreadGivesUp
  <2>3. comp' \in Nat
    BY <1>0, <1>4 DEF ThreadAcked, ThreadGivesUp
  <2>4. prompt' \in BOOLEAN
    BY <1>0, <1>4 DEF ThreadAcked, ThreadGivesUp
  <2> QED
    BY <1>8, <2>1, <2>2, <2>3, <2>4
<1>5. CASE ThreadDone(t)
  <2>1. inbox' \in [Client -> Seq(Message)] /\ lost' \in BOOLEAN
    BY <1>5, DeliverTypes, Typing DEF ThreadDone
  <2> QED
    BY <1>5, <2>1, Typing DEF ThreadDone, TypeOK, call
<1> QED
  BY <1>1, <1>2, <1>3, <1>4, <1>5 DEF Send

LEMMA TypeStep ==
  ASSUME TypeOK, \A c \in Client : ListKept(c), [Next]_vars
  PROVE  TypeOK'
<1>1. ASSUME NEW c \in Client, Make(c) PROVE TypeOK'
  BY <1>1, ChangeTypes, AddPolicyRuleTypes, DeleteRulesTypes, GetRulesTypes, SendFailsTypes DEF Make
<1>2. CASE UNCHANGED vars
  BY <1>2 DEF vars, kernel, call, TypeOK
<1> QED
  BY <1>1, <1>2, ReceiveTypes, TimerTypes, SendTypes DEF Next

-----------------------------------------------------------------------------
(* What holds whether the calls are in time or not.                        *)

LEMMA FreshStep ==
  ASSUME TypeOK, Fresh, Next
  PROVE  Fresh'
<1>0. thread \in [Thread -> ThreadState] /\ Free.next = 1
  BY DEF TypeOK, Free
<1>1. ASSUME NEW c \in Client, NEW p \in Pattern, GetRules(c, p) PROVE Fresh'
  <2>1. PICK t \in Thread : thread' = [thread EXCEPT ![t].at = "born"]
    BY <1>1 DEF GetRules
  <2> QED
    BY <1>0, <2>1 DEF Fresh, ThreadState
<1>2. ASSUME NEW c \in Client, (\E code \in Code : Change(c, code)) \/ AddPolicyRule(c) \/ DeleteRules(c) \/ SendFails(c)
      PROVE  Fresh'
  BY <1>2 DEF Fresh, Change, AddPolicyRule, DeleteRules, SendFails, kernel
<1>3. ASSUME NEW c \in Client, Receive(c) \/ Timeout(c)
      PROVE  Fresh'
  BY <1>3 DEF Fresh, Receive, RecvData, RecvDone, RecvErr, Take, Timeout, kernel
<1>4. ASSUME NEW t \in Thread, ThreadReadsPid(t) \/ ThreadReadsPattern(t) PROVE Fresh'
  BY <1>0, <1>4 DEF Fresh, ThreadReadsPid, ThreadReadsPattern, ThreadState
<1>5. ASSUME NEW t \in Thread, ThreadAcked(t) \/ ThreadGivesUp(t) PROVE Fresh'
  BY <1>0, <1>5 DEF Fresh, ThreadAcked, ThreadGivesUp, ThreadState
<1>6. ASSUME NEW t \in Thread, ThreadSends(t) PROVE Fresh'
  <2>1. \/ thread' = [thread EXCEPT ![t] = Free]
        \/ \E a \in {"acked", "sends"} :
             thread' = [thread EXCEPT ![t].next = thread[t].next + 1, ![t].at = a]
    BY <1>6 DEF ThreadSends
  <2> QED
    BY <1>0, <2>1 DEF Fresh, ThreadState
<1>7. ASSUME NEW t \in Thread, ThreadDone(t) PROVE Fresh'
  BY <1>0, <1>7 DEF Fresh, ThreadDone
<1> QED
  BY <1>1, <1>2, <1>3, <1>4, <1>5, <1>6, <1>7 DEF Next, Make, Send

LEMMA ListKeptStep ==
  ASSUME TypeOK, \A d \in Client : ListKept(d), Next
  PROVE  \A d \in Client : ListKept(d)'
<1>0. NULL \notin Seq(Rule) /\ WILD \notin Seq(Rule) /\ op \in [Client -> {"idle", "wait", "list", "crashed"}]
      /\ list \in [Client -> Seq(Rule) \cup {NULL, WILD}]
  BY ConstantsAssumption DEF TypeOK
<1>1. ASSUME NEW c \in Client, NEW e, NEW k, Return(c, e, k) PROVE \A d \in Client : ListKept(d)'
  BY <1>0, <1>1 DEF Return, ListKept
<1>2. ASSUME NEW c \in Client, op[c] # "list", NEW o \in {"wait", "crashed"}, op' = [op EXCEPT ![c] = o], list' = list
      PROVE \A d \in Client : ListKept(d)'
  BY <1>0, <1>2 DEF ListKept
<1>3. ASSUME op' = op, list' = list PROVE \A d \in Client : ListKept(d)'
  BY <1>3 DEF ListKept
<1>4. ASSUME NEW c \in Client, Make(c) PROVE \A d \in Client : ListKept(d)'
  <2>1. CASE (\E code \in Code : Change(c, code)) \/ AddPolicyRule(c)
    <3>1. op[c] # "list" /\ op' = [op EXCEPT ![c] = "wait"] /\ list' = list
      BY <2>1 DEF Change, AddPolicyRule, Begin, Loop
    <3> QED
      BY <1>2, <3>1
  <2>2. CASE DeleteRules(c)
    BY <1>3, <2>2 DEF DeleteRules
  <2>3. ASSUME NEW p \in Pattern, GetRules(c, p) PROVE \A d \in Client : ListKept(d)'
    <3>1. op' = [op EXCEPT ![c] = "list"] /\ list' = [list EXCEPT ![c] = <<>>] /\ <<>> \in Seq(Rule)
      BY <2>3 DEF GetRules, Loop
    <3> QED
      BY <1>0, <3>1 DEF ListKept
  <2>4. CASE SendFails(c)
    <3>1. op' = op /\ op[c] # "list"
      BY <2>4 DEF SendFails, Begin
    <3>2. list' = list \/ \E v \in {NULL, WILD} : list' = [list EXCEPT ![c] = v]
      BY <2>4 DEF SendFails
    <3> QED
      BY <1>0, <3>1, <3>2 DEF ListKept
  <2> QED
    BY <1>4, <2>1, <2>2, <2>3, <2>4 DEF Make
<1>5. ASSUME NEW c \in Client, RecvData(c) PROVE \A d \in Client : ListKept(d)'
  <2>1. PICK r \in Rule : r = Head(inbox[c]).rule
    <3>1. Head(inbox[c]) \in Message /\ Head(inbox[c]).type = "DATA"
      BY <1>5, TakeTypes DEF RecvData, Take
    <3> QED
      BY <3>1 DEF Message
  <2>2. CASE list[c] \in {NULL, WILD}
    <3>1. op[c] # "list" /\ list' = list /\ (op' = op \/ op' = [op EXCEPT ![c] = "crashed"])
      BY <1>0, <1>5, <2>2 DEF RecvData, ListKept
    <3> QED
      BY <1>2, <1>3, <3>1
  <2>3. CASE list[c] \notin {NULL, WILD}
    <3>1. Append(list[c], r) \in Seq(Rule) /\ list[c] \in Seq(Rule)
      BY <1>0, <2>1, <2>3
    <3>2. op' = op /\ list' = [list EXCEPT ![c] = Append(list[c], r)]
      BY <1>5, <2>1, <2>3 DEF RecvData
    <3> QED
      BY <1>0, <3>1, <3>2 DEF ListKept
  <2> QED
    BY <2>2, <2>3
<1>6. ASSUME NEW c \in Client, RecvDone(c) PROVE \A d \in Client : ListKept(d)'
  <2>1. CASE list[c] \in {NULL, WILD}
    <3>1. op[c] # "list" /\ op' = [op EXCEPT ![c] = "crashed"] /\ list' = list
      BY <1>0, <1>6, <2>1 DEF RecvDone, ListKept
    <3> QED
      BY <1>2, <3>1
  <2>2. CASE list[c] \notin {NULL, WILD}
    BY <1>1, <1>6, <2>2 DEF RecvDone
  <2> QED
    BY <2>1, <2>2
<1>7. ASSUME NEW c \in Client, RecvErr(c) PROVE \A d \in Client : ListKept(d)'
  BY <1>1, <1>3, <1>7 DEF RecvErr
<1>8. ASSUME NEW c \in Client, Timeout(c) PROVE \A d \in Client : ListKept(d)'
  BY <1>1, <1>8 DEF Timeout
<1>9. ASSUME NEW t \in Thread, Send(t) PROVE \A d \in Client : ListKept(d)'
  BY <1>3, <1>9 DEF Send, ThreadReadsPid, ThreadReadsPattern, ThreadSends, ThreadAcked,
       ThreadGivesUp, ThreadDone, call
<1> QED
  BY <1>4, <1>5, <1>6, <1>7, <1>8, <1>9 DEF Next, Receive

-----------------------------------------------------------------------------
(* The dialogue of calls that are in time.                                 *)

LEMMA Multiple ==
  ASSUME NEW a \in Nat, a > 0, NEW k \in Nat
  PROVE  (k * a) % a = 0
OBVIOUS

\* Among AckEvery numbers in a row there is a multiple of AckEvery.
LEMMA Window ==
  ASSUME NEW a \in Nat, a > 0, NEW m \in Nat
  PROVE  \E j \in (m + 1)..(m + a) : j % a = 0
<1>1. PICK k \in Nat : m = a * k + (m % a)
  <2>1. m = a * (m \div a) + (m % a) /\ m \div a \in Nat
    OBVIOUS
  <2> QED
    BY <2>1
<1>2. PICK r : r = m % a
  OBVIOUS
<1>3. r \in 0..(a - 1)
  BY <1>2
<1>4. PICK j : j = (k + 1) * a
  OBVIOUS
<1>5. j \in Nat /\ j % a = 0
  BY <1>4, Multiple
<1>6. j = a * k + a /\ a * k \in Nat
  BY <1>4
<1>7. j \in (m + 1)..(m + a)
  BY <1>1, <1>2, <1>3, <1>6
<1> QED
  BY <1>5, <1>7

\* So among Len(Policies) + AckEvery messages of a listing in a row one is flagged.
LEMMA FlagInWindow ==
  ASSUME NEW k \in Nat, NEW n \in Nat, n >= k + Len(Policies) + AckEvery
  PROVE  \E i \in (k + 1)..n : Flagged(i)
<1>0. Len(Policies) \in Nat /\ AckEvery \in Nat /\ AckEvery > 0
  BY ConstantsAssumption
<1>1. PICK j \in (k + 1)..(k + AckEvery) : j % AckEvery = 0
  BY <1>0, Window
<1>2. PICK i : i = Len(Policies) + j
  OBVIOUS
<1>3. i \in (k + 1)..n /\ i > Len(Policies) /\ i - Len(Policies) = j
  BY <1>0, <1>1, <1>2
<1>4. Flagged(i)
  BY <1>1, <1>3 DEF Flagged
<1> QED
  BY <1>3, <1>4

LEMMA SentTypes ==
  ASSUME NEW c, Len(list[c]) \in Nat, Len(inbox[c]) \in Nat
  PROVE  Sent(c) \in Nat
<1>1. PICK k \in Nat, n \in Nat : k = Len(list[c]) /\ n = Len(inbox[c])
  OBVIOUS
<1>2. Sent(c) = k + n
  BY <1>1 DEF Sent
<1> QED
  BY <1>2

LEMMA DialogueTypes ==
  ASSUME TypeOK, NEW c \in Client
  PROVE  /\ inbox[c] \in Seq(Message) /\ Len(inbox[c]) \in Nat
         /\ list[c] \in Seq(Rule) \cup {NULL, WILD}
         /\ Items(mine[c].pattern) \in Seq(Rule) /\ Len(Items(mine[c].pattern)) \in Nat
         /\ op[c] \in {"idle", "wait", "list", "crashed"}
         /\ list[c] \in Seq(Rule) => Len(list[c]) \in Nat
<1>1. mine[c].pattern \in Pattern
  BY DEF TypeOK
<1>2. Items(mine[c].pattern) \in Seq(Rule)
  BY <1>1, Typing
<1> QED
  BY <1>2 DEF TypeOK

\* A queue that the acknowledgements keep short has room for one more message.
LEMMA RoomForMore ==
  ASSUME TypeOK, RoomEnough, NEW c \in Client, op[c] = "list", ListKept(c), Listed(c),
         Sent(c) <= Len(Items(mine[c].pattern)), \A t \in Thread : thread[t].at # "acked"
  PROVE  Fits(c)
<1>0. /\ Len(list[c]) \in Nat /\ Len(inbox[c]) \in Nat /\ Len(Policies) \in Nat
      /\ AckEvery \in Nat /\ QueueMax \in Nat
  BY ConstantsAssumption, DialogueTypes DEF ListKept
<1>1. SUFFICES ASSUME Len(inbox[c]) >= Len(Policies) + AckEvery PROVE FALSE
  BY <1>0 DEF Fits, RoomEnough
<1>2. Sent(c) \in Nat /\ Sent(c) >= Len(list[c]) + Len(Policies) + AckEvery
  <2>1. PICK k : k = Len(list[c])
    OBVIOUS
  <2>2. PICK n : n = Len(inbox[c])
    OBVIOUS
  <2>3. Sent(c) = k + n
    BY <2>1, <2>2 DEF Sent
  <2> QED
    <3>1. PICK p \in Nat, a \in Nat : p = Len(Policies) /\ a = AckEvery
      BY <1>0
    <3>2. k \in Nat /\ n \in Nat /\ n >= p + a
      BY <1>0, <1>1, <2>1, <2>2, <3>1
    <3>3. k + n \in Nat /\ k + n >= k + p + a
      BY <3>2
    <3> QED
      BY <2>1, <2>3, <3>1, <3>3
<1>3. PICK i \in (Len(list[c]) + 1)..Sent(c) : Flagged(i)
  BY <1>0, <1>2, FlagInWindow
<1>4. i <= Len(Items(mine[c].pattern))
  BY <1>0, <1>2, <1>3, DialogueTypes
<1> QED
  BY <1>3, <1>4 DEF Listed, Acks

\* What d's dialogue rests on, for a client that takes no part in the step.
LEMMA DialogueStays ==
  ASSUME NEW d, Dialogue(d),
         op[d] # "list" \/ (thread' = thread /\ comp' = comp /\ params'.pattern = params.pattern
                            /\ (Unread => params'.pid = params.pid)),
         op'[d] = op[d], inbox'[d] = inbox[d], list'[d] = list[d], last'[d] = last[d],
         mine'[d] = mine[d]
  PROVE  Dialogue(d)'
<1>1. CASE op[d] # "list"
  BY <1>1 DEF Dialogue, Returned
<1>2. CASE op[d] = "list"
  <2>1. Sent(d)' = Sent(d)
    BY DEF Sent
  <2>2. Prefix(d)' /\ Acks(d)'
    BY <1>2, <2>1 DEF Dialogue, Listed, Prefix, Acks
  <2>3. \A t \in Thread : thread[t].at # "free" => Worker(t, d)'
    BY <1>2, <2>1 DEF Dialogue, Listed, Worker
  <2>4. Unread' => params'.pid = d
    BY <1>2 DEF Dialogue, Listed, Unread
  <2> QED
    BY <1>2, <2>2, <2>3, <2>4 DEF Dialogue, Listed
<1> QED
  BY <1>1, <1>2

\* A client that begins or ends a call that is no listing.
LEMMA OneListerStays ==
  ASSUME TypeOK, OneLister, NEW c \in Client, op[c] # "list", NEW o, o # "list",
         op' = [op EXCEPT ![c] = o] \/ op' = op, UNCHANGED <<comp, thread>>
  PROVE  OneLister'
<1>1. \A d \in Client : op'[d] = "list" <=> op[d] = "list"
  BY DEF TypeOK
<1>2. Quiet => Quiet'
  BY DEF Quiet
<1> QED
  BY <1>1, <1>2 DEF OneLister

\* A message that crosses no listing whose thread has yet to read whom it works for.
LEMMA MakeOthers ==
  ASSUME IInv, prompt, prompt', NEW c \in Client, op[c] = "idle",
         NEW o, o # "list", op' = [op EXCEPT ![c] = o] \/ op' = op, UNCHANGED <<comp, thread>>,
         params'.pattern = params.pattern, params' = params \/ ~Unread,
         \A d \in Client \ {c} : /\ inbox'[d] = inbox[d] /\ list'[d] = list[d]
                                /\ last'[d] = last[d] /\ mine'[d] = mine[d],
         Dialogue(c)'
  PROVE  OneLister' /\ \A d \in Client : Dialogue(d)'
<1>1. OneLister'
  BY OneListerStays DEF IInv
<1>2. ASSUME NEW d \in Client, d # c PROVE Dialogue(d)'
  <2>1. Dialogue(d) /\ op'[d] = op[d]
    BY <1>2 DEF IInv, TypeOK
  <2> QED
    BY <1>2, <2>1, DialogueStays
<1> QED
  BY <1>1, <1>2

LEMMA ChangeDialogue ==
  ASSUME IInv, prompt, prompt', NEW c \in Client, NEW code \in Code, Change(c, code)
  PROVE  OneLister' /\ (\A d \in Client : Dialogue(d)') /\ (RoomEnough => ~lost')
<1>0. /\ TypeOK /\ op[c] = "idle" /\ inbox[c] = <<>> /\ op' = [op EXCEPT ![c] = "wait"] /\ ~Unread
      /\ UNCHANGED <<comp, thread, list, last>> /\ Deliver(c, Err(code, calls + 1))
      /\ mine' = [mine EXCEPT ![c] = [pattern |-> AnyPattern, truth |-> code]]
      /\ params'.pattern = params.pattern
  BY DEF IInv, Dialogue, Change, Begin, Loop, TypeOK
<1>2. op'[c] = "wait" /\ mine'[c].truth = code
  BY <1>0 DEF TypeOK
<1>3. inbox'[c] = <<>> \/ inbox'[c] = <<Err(code, calls + 1)>>
  BY <1>0 DEF Deliver, TypeOK
<1>4. Dialogue(c)'
  <2>1. Err(code, calls + 1).type = "ERR" /\ Err(code, calls + 1).code = code
    BY DEF Err
  <2>2. PICK m : m.type = "ERR" /\ m.code = code /\ (inbox'[c] = <<>> \/ inbox'[c] = <<m>>)
    BY <1>3, <2>1
  <2>3. Len(inbox'[c]) <= 1 /\ \A i \in 1..Len(inbox'[c]) : inbox'[c][i].type = "ERR" /\ inbox'[c][i].code = code
    <3>1. CASE inbox'[c] = <<>>
      BY <3>1
    <3>2. CASE inbox'[c] = <<m>>
      <4>1. Len(inbox'[c]) = 1 /\ inbox'[c][1] = m
        BY <3>2
      <4> QED
        BY <2>2, <4>1
    <3> QED
      BY <2>2, <3>1, <3>2
  <2> QED
    BY <1>2, <2>3 DEF Dialogue
<1>5. \A d \in Client \ {c} : inbox'[d] = inbox[d] /\ mine'[d] = mine[d] /\ list'[d] = list[d] /\ last'[d] = last[d]
  BY <1>0 DEF Deliver, TypeOK
<1>6. RoomEnough => ~lost'
  <2>1. RoomEnough => Fits(c)
    BY <1>0, ConstantsAssumption DEF Fits, RoomEnough
  <2> QED
    BY <1>0, <2>1 DEF IInv, Deliver
<1> QED
  BY <1>0, <1>4, <1>5, <1>6, MakeOthers

LEMMA AddPolicyRuleDialogue ==
  ASSUME IInv, prompt, prompt', NEW c \in Client, AddPolicyRule(c)
  PROVE  OneLister' /\ (\A d \in Client : Dialogue(d)') /\ lost' = lost
<1>0. /\ TypeOK /\ op[c] = "idle" /\ inbox[c] = <<>> /\ op' = [op EXCEPT ![c] = "wait"] /\ ~Unread
      /\ UNCHANGED <<comp, thread, list, last, inbox, lost>>
      /\ mine' = [mine EXCEPT ![c] = [pattern |-> AnyPattern, truth |-> "NONE"]]
      /\ params'.pattern = params.pattern
  BY DEF IInv, Dialogue, AddPolicyRule, Begin, Loop, TypeOK
<1>1. op'[c] = "wait"
  BY <1>0 DEF TypeOK
<1>2. Dialogue(c)'
  BY <1>0, <1>1 DEF Dialogue
<1>3. \A d \in Client \ {c} : mine'[d] = mine[d]
  BY <1>0 DEF TypeOK
<1> QED
  BY <1>0, <1>2, <1>3, MakeOthers

\* A call that could not be sent.
LEMMA SendFailsDialogue ==
  ASSUME IInv, prompt, prompt', NEW c \in Client, SendFails(c)
  PROVE  OneLister' /\ (\A d \in Client : Dialogue(d)') /\ lost' = lost
<1>0. /\ TypeOK /\ op[c] = "idle" /\ inbox[c] = <<>> /\ op' = op
      /\ UNCHANGED <<comp, thread, params, inbox, lost>>
      /\ mine' = [mine EXCEPT ![c] = [pattern |-> AnyPattern, truth |-> "NONE"]]
      /\ last' = [last EXCEPT ![c] = Result("failed", "ERR", <<>>)]
  BY DEF IInv, Dialogue, SendFails, Begin, kernel
<1>1. last'[c].end = "failed"
  <2>1. PICK r : r = Result("failed", "ERR", <<>>)
    OBVIOUS
  <2>2. r.end = "failed" /\ last' = [last EXCEPT ![c] = r]
    BY <1>0, <2>1 DEF Result
  <2> QED
    BY <1>0, <2>2 DEF TypeOK
<1>2. Dialogue(c)'
  BY <1>0, <1>1 DEF Dialogue, Returned
<1>3. \A d \in Client \ {c} : mine'[d] = mine[d] /\ last'[d] = last[d] /\ list'[d] = list[d]
  <2>1. \A d \in Client \ {c} : list'[d] = list[d]
    BY <1>0 DEF SendFails, TypeOK
  <2> QED
    BY <1>0, <2>1 DEF TypeOK
<1>4. op' = [op EXCEPT ![c] = "idle"] \/ op' = op
  BY <1>0
<1> QED
  BY <1>0, <1>2, <1>3, <1>4, MakeOthers

\* A listing begins with nothing sent and one thread that has read nothing.
LEMMA GetRulesDialogue ==
  ASSUME IInv, prompt, prompt', NEW c \in Client, NEW p \in Pattern, GetRules(c, p)
  PROVE  OneLister' /\ (\A d \in Client : Dialogue(d)') /\ lost' = lost
<1>0. /\ TypeOK /\ op[c] = "idle" /\ inbox[c] = <<>> /\ Quiet /\ (\A d \in Client : op[d] # "list")
      /\ op' = [op EXCEPT ![c] = "list"] /\ list' = [list EXCEPT ![c] = <<>>]
      /\ UNCHANGED <<comp, inbox, lost, last>> /\ params' = [pid |-> c, pattern |-> p]
      /\ mine' = [mine EXCEPT ![c] = [pattern |-> p, truth |-> "NONE"]]
  BY DEF IInv, Dialogue, OneLister, GetRules, Begin, Loop
<1>1. PICK t \in Thread : thread' = [thread EXCEPT ![t].at = "born"]
  BY DEF GetRules
<1>2. /\ thread'[t].at = "born" /\ thread'[t].next = 1
      /\ \A u \in Thread : u # t => thread'[u].at = "free"
  <2>1. thread \in [Thread -> ThreadState] /\ \A u \in Thread : thread[u].at = "free"
    BY <1>0 DEF TypeOK, Quiet
  <2>2. thread[t].next = 1
    BY <2>1 DEF IInv, Fresh
  <2> QED
    BY <1>1, <2>1, <2>2 DEF ThreadState
<1>3. /\ op'[c] = "list" /\ list'[c] = <<>> /\ inbox'[c] = <<>> /\ mine'[c].pattern = p
      /\ params'.pid = c /\ params'.pattern = p /\ comp' = 0
  BY <1>0 DEF TypeOK, Quiet
<1>4. Sent(c)' = 0 /\ Len(Items(p)) \in Nat
  <2>1. Len(list'[c]) = 0 /\ Len(inbox'[c]) = 0
    BY <1>3
  <2> QED
    BY <2>1, Typing DEF Sent
<1>5. Listed(c)'
  <2>1. Prefix(c)'
    BY <1>3, <1>4 DEF Prefix
  <2>2. Acks(c)'
    BY <1>3, <1>4 DEF Acks
  <2>3. \A u \in Thread : thread'[u].at # "free" => Worker(u, c)'
    BY <1>2, <1>3, <1>4 DEF Worker
  <2> QED
    BY <1>2, <1>3, <2>1, <2>2, <2>3 DEF Listed
<1>6. Dialogue(c)'
  BY <1>0, <1>3, <1>5 DEF Dialogue
<1>7. ASSUME NEW d \in Client, d # c PROVE Dialogue(d)' /\ op'[d] # "list"
  <2>1. Dialogue(d) /\ op'[d] = op[d] /\ list'[d] = list[d] /\ mine'[d] = mine[d]
    BY <1>0, <1>7 DEF IInv, TypeOK
  <2> QED
    BY <1>0, <2>1, DialogueStays
<1>8. OneLister'
  BY <1>3, <1>7 DEF OneLister
<1> QED
  BY <1>0, <1>6, <1>7, <1>8

\* The step of a listing disturbs no other client.
LEMMA ListingOthers ==
  ASSUME IInv, prompt, NEW c \in Client, op[c] = "list", NEW d \in Client, d # c,
         op'[d] = op[d], inbox'[d] = inbox[d], list'[d] = list[d], last'[d] = last[d],
         mine'[d] = mine[d]
  PROVE  Dialogue(d)' /\ op'[d] # "list"
BY DialogueStays DEF IInv, OneLister

\* A message of a listing is taken from the queue and put behind the list.
LEMMA RecvDataDialogue ==
  ASSUME IInv, prompt, NEW c \in Client, RecvData(c)
  PROVE  OneLister' /\ (\A d \in Client : Dialogue(d)') /\ lost' = lost
<1>0. /\ TypeOK /\ inbox[c] # <<>> /\ Head(inbox[c]).type = "DATA" /\ ListKept(c) /\ Dialogue(c)
      /\ inbox' = [inbox EXCEPT ![c] = Tail(inbox[c])]
      /\ UNCHANGED <<thread, lost, mine, last>>
  BY DEF IInv, RecvData, Take
<1>1. PICK q : q = inbox[c]
  OBVIOUS
<1>2. q \in Seq(Message) /\ Len(q) \in Nat /\ q # <<>> /\ Head(q) = q[1] /\ 1 \in 1..Len(q)
  <2>1. q \in Seq(Message)
    BY <1>0, <1>1, DialogueTypes
  <2> QED
    BY <1>0, <1>1, <2>1
<1>3. op[c] = "list"
  BY <1>0, <1>1, <1>2, DialogueTypes DEF Dialogue
<1>4. PICK items : items = Items(mine[c].pattern)
  OBVIOUS
<1>5. PICK l : l = list[c]
  OBVIOUS
<1>6. /\ l \in Seq(Rule) /\ Len(l) \in Nat /\ items \in Seq(Rule) /\ Len(items) \in Nat
      /\ Sent(c) = Len(l) + Len(q) /\ list[c] \in Seq(Rule)
  BY <1>0, <1>1, <1>3, <1>4, <1>5, DialogueTypes DEF ListKept, Sent
<1>7. Listed(c)
  BY <1>0, <1>3 DEF Dialogue
<1>8. /\ Len(l) <= Len(items) /\ Len(l) + Len(q) <= Len(items) + 1
      /\ \A i \in 1..Len(l) : l[i] = items[i]
      /\ \A i \in 1..Len(q) :
           q[i] = IF Len(l) + i <= Len(items)
                  THEN Data(items[Len(l) + i], Flagged(Len(l) + i)) ELSE Done
  BY <1>1, <1>4, <1>5, <1>6, <1>7 DEF Listed, Prefix
<1>9. Len(l) + 1 <= Len(items) /\ Head(q).rule = items[Len(l) + 1] /\ Head(q).ack = Flagged(Len(l) + 1)
  <2>1. Done.type = "DONE"
    BY DEF Done
  <2>2. Head(q).type = "DATA"
    BY <1>0, <1>1
  <2>3. Len(l) + 1 <= Len(items)
    BY <1>2, <1>8, <2>1, <2>2
  <2>4. Head(q) = Data(items[Len(l) + 1], Flagged(Len(l) + 1))
    BY <1>2, <1>8, <2>3
  <2> QED
    BY <2>3, <2>4 DEF Data
<1>10. PICK r : r = items[Len(l) + 1]
  OBVIOUS
<1>11. list'[c] = Append(l, r) /\ inbox'[c] = Tail(q) /\ op'[c] = "list" /\ mine'[c] = mine[c]
  <2>1. list[c] \notin {NULL, WILD}
    BY <1>6, ConstantsAssumption
  <2>2. list' = [list EXCEPT ![c] = Append(list[c], Head(inbox[c]).rule)] /\ op' = op
    BY <2>1 DEF RecvData
  <2> QED
    BY <2>2, <1>0, <1>1, <1>3, <1>5, <1>9, <1>10 DEF TypeOK
<1>12. /\ Len(Append(l, r)) = Len(l) + 1 /\ \A i \in 1..Len(l) : Append(l, r)[i] = l[i]
       /\ Append(l, r)[Len(l) + 1] = r
       /\ Len(Tail(q)) = Len(q) - 1 /\ \A i \in 1..Len(q) - 1 : Tail(q)[i] = q[i + 1]
  <2>1. r \in Rule
    BY <1>6, <1>9, <1>10
  <2>2. Len(Append(l, r)) = Len(l) + 1 /\ \A i \in 1..Len(l) : Append(l, r)[i] = l[i]
    BY <1>6, <2>1
  <2>3. Append(l, r)[Len(l) + 1] = r
    BY <1>6, <2>1
  <2>4. Len(Tail(q)) = Len(q) - 1 /\ \A i \in 1..Len(q) - 1 : Tail(q)[i] = q[i + 1]
    BY <1>2
  <2> QED
    BY <2>2, <2>3, <2>4
<1>13. Sent(c)' = Sent(c)
  <2>1. Sent(c)' = (Len(l) + 1) + (Len(q) - 1)
    BY <1>11, <1>12 DEF Sent
  <2> QED
    BY <1>2, <1>6, <2>1
<1>14. Prefix(c)'
  <2>1. \A i \in 1..(Len(l) + 1) : Append(l, r)[i] = items[i]
    BY <1>6, <1>8, <1>9, <1>10, <1>12
  <2>2. \A i \in 1..(Len(q) - 1) :
          Tail(q)[i] = IF (Len(l) + 1) + i <= Len(items)
                       THEN Data(items[(Len(l) + 1) + i], Flagged((Len(l) + 1) + i)) ELSE Done
    <3>1. ASSUME NEW i \in 1..(Len(q) - 1)
          PROVE  i + 1 \in 1..Len(q) /\ Tail(q)[i] = q[i + 1] /\ Len(l) + (i + 1) = (Len(l) + 1) + i
      <4>1. i \in 1..Len(q) - 1 /\ i \in Nat /\ i + 1 \in 1..Len(q)
        BY <1>2
      <4>2. Len(l) + (i + 1) = (Len(l) + 1) + i
        BY <1>6, <4>1
      <4> QED
        BY <1>12, <4>1, <4>2
    <3> QED
      BY <1>8, <3>1
  <2>3. /\ list'[c] = Append(l, r) /\ inbox'[c] = Tail(q) /\ Items(mine'[c].pattern) = items
        /\ Len(Append(l, r)) = Len(l) + 1 /\ Len(Tail(q)) = Len(q) - 1
    BY <1>4, <1>11, <1>12
  <2>4. Sent(c)' = Len(l) + Len(q) /\ Len(l) + Len(q) <= Len(items) + 1 /\ Len(l) + 1 <= Len(items)
    BY <1>6, <1>8, <1>9, <1>13
  <2> QED
    BY <2>1, <2>2, <2>3, <2>4 DEF Prefix
<1>15. comp = 0
  BY <1>1, <1>2, <1>7 DEF Listed, Acks
<1>16. \/ Head(q).ack /\ comp' = 1 /\ params' = [params EXCEPT !.pid = c]
       \/ comp' = 0 /\ params' = params
  <2>1. list[c] \notin {NULL, WILD}
    BY <1>6, ConstantsAssumption
  <2> QED
    BY <1>1, <1>15, <2>1 DEF RecvData, Acknowledges
<1>17. Acks(c)'
  <2>1. \A i \in (Len(l) + 1)..Sent(c) :
          (i <= Len(items) /\ Flagged(i)) => i = Sent(c) /\ \E t \in Thread : thread[t].at = "acked"
    BY <1>4, <1>5, <1>7 DEF Listed, Acks
  <2>2. \A i \in (Len(Append(l, r)) + 1)..Sent(c) :
          (i <= Len(items) /\ Flagged(i)) => i = Sent(c) /\ \E t \in Thread : thread[t].at = "acked"
    BY <1>2, <1>6, <1>12, <2>1
  <2>3. ASSUME comp' # 0
        PROVE  comp' = 1 /\ Len(Tail(q)) = 0 /\ \E t \in Thread : thread[t].at = "acked"
    <3>1. Flagged(Len(l) + 1)
      BY <1>9, <1>16, <2>3
    <3>2. Len(l) + 1 = Sent(c) /\ \E t \in Thread : thread[t].at = "acked"
      BY <1>2, <1>6, <1>9, <2>1, <3>1
    <3>3. comp' = 1 /\ Len(Tail(q)) = 0
      BY <1>2, <1>6, <1>12, <1>16, <2>3, <3>2
    <3> QED
      BY <3>2, <3>3
  <2> QED
    BY <1>0, <1>4, <1>11, <1>13, <2>2, <2>3 DEF Acks
<1>18. (Unread' => params'.pid = c) /\ params'.pattern = mine[c].pattern
  BY <1>0, <1>7, <1>16 DEF TypeOK, Listed, Unread
<1>19. Listed(c)'
  <2>1. \A t \in Thread : thread[t].at # "free" => Worker(t, c)'
    BY <1>0, <1>7, <1>11, <1>13 DEF Listed, Worker
  <2> QED
    BY <1>0, <1>7, <1>11, <1>14, <1>17, <1>18, <2>1 DEF Listed
<1>20. Dialogue(c)'
  BY <1>7, <1>11, <1>19 DEF Dialogue
<1>21. ASSUME NEW d \in Client, d # c PROVE Dialogue(d)' /\ op'[d] # "list"
  <2>1. op'[d] = op[d] /\ inbox'[d] = inbox[d] /\ list'[d] = list[d]
    BY <1>0, <1>21 DEF RecvData, TypeOK
  <2> QED
    BY <1>0, <1>3, <1>21, <2>1, ListingOthers
<1>22. OneLister'
  BY <1>11, <1>21 DEF OneLister
<1> QED
  BY <1>0, <1>20, <1>21, <1>22

LEMMA LastMessage ==
  ASSUME NEW q \in Seq(Message), Len(q) = 1
  PROVE  Tail(q) = <<>>
<1>1. Tail(q) \in Seq(Message) /\ Len(Tail(q)) = 0
  OBVIOUS
<1> QED
  BY <1>1, EmptySeq

\* MSG_DONE comes behind the last rule, when the queue holds nothing else.
LEMMA RecvDoneDialogue ==
  ASSUME IInv, prompt, NEW c \in Client, RecvDone(c)
  PROVE  OneLister' /\ (\A d \in Client : Dialogue(d)') /\ lost' = lost
<1>0. /\ TypeOK /\ inbox[c] # <<>> /\ Head(inbox[c]).type = "DONE" /\ ListKept(c) /\ Dialogue(c)
      /\ inbox' = [inbox EXCEPT ![c] = Tail(inbox[c])]
      /\ UNCHANGED <<thread, comp, lost, mine>>
  BY DEF IInv, RecvDone, Take
<1>1. PICK q : q = inbox[c]
  OBVIOUS
<1>2. q \in Seq(Message) /\ Len(q) \in Nat /\ q # <<>> /\ Head(q) = q[1] /\ 1 \in 1..Len(q)
  <2>1. q \in Seq(Message)
    BY <1>0, <1>1, DialogueTypes
  <2> QED
    BY <1>0, <1>1, <2>1
<1>3. op[c] = "list"
  BY <1>0, <1>1, <1>2, DialogueTypes DEF Dialogue
<1>4. PICK items : items = Items(mine[c].pattern)
  OBVIOUS
<1>5. PICK l : l = list[c]
  OBVIOUS
<1>6. /\ l \in Seq(Rule) /\ Len(l) \in Nat /\ items \in Seq(Rule) /\ Len(items) \in Nat
      /\ Sent(c) = Len(l) + Len(q) /\ list[c] \in Seq(Rule)
  BY <1>0, <1>1, <1>3, <1>4, <1>5, DialogueTypes DEF ListKept, Sent
<1>7. Listed(c)
  BY <1>0, <1>3 DEF Dialogue
<1>8. /\ Len(l) <= Len(items) /\ Len(l) + Len(q) <= Len(items) + 1
      /\ \A i \in 1..Len(l) : l[i] = items[i]
      /\ \A i \in 1..Len(q) :
           q[i] = IF Len(l) + i <= Len(items)
                  THEN Data(items[Len(l) + i], Flagged(Len(l) + i)) ELSE Done
  BY <1>1, <1>4, <1>5, <1>6, <1>7 DEF Listed, Prefix
<1>9. Len(l) = Len(items) /\ Len(q) = 1
  <2>1. CASE Len(l) + 1 <= Len(items)
    <3>1. Head(q) = Data(items[Len(l) + 1], Flagged(Len(l) + 1))
      BY <1>2, <1>8, <2>1
    <3> QED
      BY <1>0, <1>1, <3>1 DEF Data
  <2>2. CASE ~(Len(l) + 1 <= Len(items))
    <3>1. PICK a \in Nat, b \in Nat, n \in Nat : a = Len(l) /\ b = Len(items) /\ n = Len(q)
      BY <1>2, <1>6
    <3>2. n >= 1
      BY <1>2, <3>1
    <3>3. a <= b /\ a + n <= b + 1 /\ ~(a + 1 <= b)
      BY <1>8, <2>2, <3>1
    <3>4. a = b /\ n = 1
      BY <3>2, <3>3
    <3> QED
      BY <3>1, <3>4
  <2> QED
    BY <2>1, <2>2
<1>10. l = items
  BY <1>6, <1>8, <1>9
<1>11. Tail(q) = <<>>
  BY <1>2, <1>9, LastMessage
<1>12. \A t \in Thread : thread[t].at = "free"
  BY <1>4, <1>6, <1>7, <1>9 DEF Listed, Worker
<1>13. Quiet'
  BY <1>0, <1>1, <1>7, <1>9, <1>12 DEF Listed, Acks, Quiet
<1>14. /\ op'[c] = "idle" /\ last'[c] = Result("done", err[c], list[c]) /\ inbox'[c] = <<>>
       /\ mine'[c] = mine[c]
  <2>1. list[c] \notin {NULL, WILD}
    BY <1>6, ConstantsAssumption
  <2> QED
    BY <1>0, <1>1, <1>3, <1>11, <2>1 DEF RecvDone, Return, TypeOK
<1>15. Returned(c)'
  <2>1. last'[c].end = "done" /\ last'[c].list = items
    <3>1. PICK e : last'[c] = Result("done", e, items)
      BY <1>5, <1>10, <1>14
    <3> QED
      BY <3>1 DEF Result
  <2>2. Items(mine'[c].pattern) = items
    BY <1>4, <1>14
  <2> QED
    BY <2>1, <2>2 DEF Returned
<1>16. Dialogue(c)'
  BY <1>14, <1>15 DEF Dialogue
<1>17. ASSUME NEW d \in Client, d # c PROVE Dialogue(d)' /\ op'[d] # "list"
  <2>1. list[c] \notin {NULL, WILD}
    BY <1>6, ConstantsAssumption
  <2>2. op'[d] = op[d] /\ inbox'[d] = inbox[d] /\ list'[d] = list[d] /\ last'[d] = last[d]
    BY <1>0, <1>3, <1>17, <2>1 DEF RecvDone, Return, TypeOK
  <2> QED
    BY <1>0, <1>3, <1>17, <2>2, ListingOthers
<1>18. OneLister'
  BY <1>13, <1>14, <1>17 DEF OneLister
<1> QED
  BY <1>0, <1>16, <1>17, <1>18

\* The answer that is in the queue is the one of the call.
LEMMA RecvErrDialogue ==
  ASSUME IInv, prompt, NEW c \in Client, RecvErr(c)
  PROVE  OneLister' /\ (\A d \in Client : Dialogue(d)') /\ lost' = lost
<1>0. /\ TypeOK /\ inbox[c] # <<>> /\ Head(inbox[c]).type = "ERR" /\ ListKept(c) /\ Dialogue(c)
      /\ inbox' = [inbox EXCEPT ![c] = Tail(inbox[c])]
      /\ UNCHANGED <<thread, comp, lost, mine>>
  BY DEF IInv, RecvErr, Take
<1>1. PICK q : q = inbox[c]
  OBVIOUS
<1>2. q \in Seq(Message) /\ Len(q) \in Nat /\ q # <<>> /\ Head(q) = q[1] /\ 1 \in 1..Len(q)
  <2>1. q \in Seq(Message)
    BY <1>0, <1>1, DialogueTypes
  <2> QED
    BY <1>0, <1>1, <2>1
<1>3. op[c] # "list"
  <2> SUFFICES ASSUME op[c] = "list" PROVE FALSE
    OBVIOUS
  <2>1. Listed(c)
    BY <1>0 DEF Dialogue
  <2>2. \E r, a : q[1] \in {Data(r, a), Done}
    <3>1. q[1] = IF Len(list[c]) + 1 <= Len(Items(mine[c].pattern))
                 THEN Data(Items(mine[c].pattern)[Len(list[c]) + 1], Flagged(Len(list[c]) + 1)) ELSE Done
      BY <1>1, <1>2, <2>1 DEF Listed, Prefix
    <3> QED
      BY ONLY <3>1
  <2> QED
    BY <1>0, <1>1, <1>2, <2>2 DEF Data, Done
<1>4. op[c] = "wait"
  BY <1>0, <1>3, DialogueTypes DEF Dialogue
<1>5. Len(q) = 1 /\ Head(q).code = mine[c].truth
  <2>1. Len(q) <= 1 /\ \A i \in 1..Len(q) : q[i].type = "ERR" /\ q[i].code = mine[c].truth
    BY <1>0, <1>1, <1>4 DEF Dialogue
  <2>2. PICK n \in Nat : n = Len(q)
    BY <1>2
  <2>3. 1 \in 1..n /\ n <= 1
    BY <1>2, <2>1, <2>2
  <2>4. n = 1
    BY ONLY <2>3, n \in Nat
  <2> QED
    BY <1>2, <2>1, <2>2, <2>4
<1>6. Tail(q) = <<>>
  BY <1>2, <1>5, LastMessage
<1>7. /\ op' = [op EXCEPT ![c] = "idle"] /\ list' = list /\ UNCHANGED params
      /\ \E r : last' = [last EXCEPT ![c] = Result("answered", Head(q).code, r)]
  BY <1>1, <1>4 DEF RecvErr, Return
<1>9. /\ op'[c] = "idle" /\ inbox'[c] = <<>> /\ mine'[c] = mine[c]
      /\ last'[c].end = "answered" /\ last'[c].code = mine[c].truth
  <2>1. PICK r : last' = [last EXCEPT ![c] = Result("answered", Head(q).code, r)]
    BY <1>7
  <2>2. last'[c] = Result("answered", Head(q).code, r)
    BY <1>0, <2>1 DEF TypeOK
  <2>3. op'[c] = "idle" /\ inbox'[c] = <<>> /\ mine'[c] = mine[c]
    BY <1>0, <1>1, <1>6, <1>7 DEF TypeOK
  <2> QED
    BY <1>5, <2>2, <2>3 DEF Result
<1>10. Dialogue(c)'
  BY <1>9 DEF Dialogue, Returned
<1>11. ASSUME NEW d \in Client, d # c PROVE Dialogue(d)'
  <2>1. Dialogue(d)
    BY <1>11 DEF IInv
  <2>2. op'[d] = op[d] /\ inbox'[d] = inbox[d] /\ list'[d] = list[d] /\ last'[d] = last[d] /\ mine'[d] = mine[d]
    BY <1>0, <1>7, <1>11 DEF TypeOK
  <2> QED
    BY <1>0, <1>7, <2>1, <2>2, DialogueStays
<1>12. OneLister'
  BY <1>0, <1>3, <1>7, OneListerStays DEF IInv
<1> QED
  BY <1>0, <1>10, <1>11, <1>12

\* A list thread that runs works for the one client that lists, and is the only one.
LEMMA AtWork ==
  ASSUME IInv, prompt, NEW t \in Thread, thread[t].at # "free"
  PROVE  \E c \in Client :
           /\ op[c] = "list" /\ ListKept(c) /\ Listed(c) /\ Worker(t, c)
           /\ \A u \in Thread : u # t => thread[u].at = "free"
<1>1. PICK c \in Client : op[c] = "list"
  BY DEF IInv, OneLister, Quiet
<1>2. ListKept(c) /\ Listed(c)
  BY <1>1 DEF IInv, Dialogue
<1>3. Worker(t, c) /\ \A u \in Thread : u # t => thread[u].at = "free"
  BY <1>2 DEF Listed
<1> QED
  BY <1>1, <1>2, <1>3

\* What a step of that thread has to keep.
LEMMA WorkKept ==
  ASSUME IInv, prompt, NEW c \in Client, op[c] = "list", Listed(c),
         NEW t \in Thread, thread \in [Thread -> ThreadState],
         \A u \in Thread : u # t => thread[u].at = "free",
         NEW r, thread' = [thread EXCEPT ![t] = r], r.at # "born",
         UNCHANGED <<params, call>>, Prefix(c)', Acks(c)',
         \A d \in Client \ {c} : inbox'[d] = inbox[d],
         r.at # "free" => Worker(t, c)'
  PROVE  OneLister' /\ \A d \in Client : Dialogue(d)'
<1>1. thread'[t] = r /\ \A u \in Thread : u # t => thread'[u].at = "free"
  OBVIOUS
<1>2. UNCHANGED <<params, op, mine, list, last>>
  BY DEF call
<1>3. ~Unread' /\ params'.pattern = mine'[c].pattern
  BY <1>1, <1>2 DEF Listed, Unread
<1>4. \A u \in Thread : thread'[u].at # "free" => Worker(u, c)'
  BY <1>1
<1>5. Listed(c)'
  BY <1>1, <1>3, <1>4 DEF Listed
<1>6. Dialogue(c)'
  BY <1>2, <1>5 DEF Dialogue
<1>7. ASSUME NEW d \in Client, d # c PROVE Dialogue(d)' /\ op'[d] # "list"
  BY <1>2, <1>7, ListingOthers
<1>8. OneLister'
  BY <1>2, <1>7 DEF OneLister
<1> QED
  BY <1>6, <1>7, <1>8

\* The thread's steps that send nothing.
LEMMA ThreadReadsDialogue ==
  ASSUME IInv, prompt, NEW t \in Thread, ThreadReadsPid(t) \/ ThreadReadsPattern(t)
  PROVE  OneLister' /\ (\A d \in Client : Dialogue(d)') /\ lost' = lost
<1>0. /\ thread \in [Thread -> ThreadState] /\ thread[t].at \in {"born", "reads"}
      /\ UNCHANGED <<params, comp, inbox, lost, call>>
  BY DEF ThreadReadsPid, ThreadReadsPattern, IInv, TypeOK
<1>1. PICK c \in Client :
        /\ op[c] = "list" /\ ListKept(c) /\ Listed(c) /\ Worker(t, c)
        /\ \A u \in Thread : u # t => thread[u].at = "free"
  BY <1>0, AtWork
<1>2. PICK r : r = thread'[t]
  OBVIOUS
<1>3. /\ r.at \in {"reads", "sends"} /\ r.pid = c /\ r.next = thread[t].next
      /\ r.at = "sends" => r.pattern = mine[c].pattern
      /\ thread' = [thread EXCEPT ![t] = r]
  <2>1. (thread[t].at = "born" => params.pid = c) /\ params.pattern = mine[c].pattern
    BY <1>1 DEF Listed, Unread
  <2>2. CASE ThreadReadsPid(t)
    BY <1>0, <1>2, <2>1, <2>2 DEF ThreadReadsPid, ThreadState
  <2>3. CASE ThreadReadsPattern(t)
    BY <1>0, <1>1, <1>2, <2>1, <2>3 DEF ThreadReadsPattern, ThreadState, Worker
  <2> QED
    BY <2>2, <2>3
<1>4. UNCHANGED <<list, mine, inbox>>
  BY <1>0 DEF call
<1>5. Sent(c)' = Sent(c)
  BY <1>4 DEF Sent
<1>6. Prefix(c)'
  BY <1>1, <1>4, <1>5 DEF Listed, Prefix
<1>7. Sent(c) = 0 /\ Len(inbox[c]) \in Nat /\ Len(list[c]) \in Nat
  BY <1>0, <1>1, DialogueTypes DEF Worker, IInv, ListKept
<1>8. Acks(c)'
  <2>1. comp' = 0
    BY <1>0, <1>1 DEF Listed, Acks
  <2>2. (Len(list[c]) + 1)..Sent(c) = {}
    BY <1>7
  <2> QED
    BY <1>4, <1>5, <2>1, <2>2 DEF Acks
<1>9. Worker(t, c)'
  BY <1>1, <1>2, <1>3, <1>4, <1>5, <1>7 DEF Worker
<1> QED
  BY <1>0, <1>1, <1>3, <1>6, <1>8, <1>9, WorkKept

LEMMA ThreadAckedDialogue ==
  ASSUME IInv, prompt, NEW t \in Thread, ThreadAcked(t)
  PROVE  OneLister' /\ (\A d \in Client : Dialogue(d)') /\ lost' = lost
<1>0. /\ thread \in [Thread -> ThreadState] /\ thread[t].at = "acked" /\ comp > 0 /\ comp \in Nat
      /\ comp' = comp - 1 /\ UNCHANGED <<params, inbox, lost, call>>
      /\ thread' = [thread EXCEPT ![t].at = "sends"]
  BY DEF ThreadAcked, IInv, TypeOK
<1>1. PICK c \in Client :
        /\ op[c] = "list" /\ ListKept(c) /\ Listed(c) /\ Worker(t, c)
        /\ \A u \in Thread : u # t => thread[u].at = "free"
  BY <1>0, AtWork
<1>2. PICK r : r = thread'[t]
  OBVIOUS
<1>3. /\ r.at = "sends" /\ r.pid = thread[t].pid /\ r.next = thread[t].next
      /\ r.pattern = thread[t].pattern /\ thread' = [thread EXCEPT ![t] = r]
  BY <1>0, <1>2 DEF ThreadState
<1>4. UNCHANGED <<list, mine, inbox>>
  BY <1>0 DEF call
<1>5. Sent(c)' = Sent(c)
  BY <1>4 DEF Sent
<1>6. Prefix(c)'
  BY <1>1, <1>4, <1>5 DEF Listed, Prefix
<1>7. comp' = 0 /\ Len(inbox[c]) = 0
  BY <1>0, <1>1 DEF Listed, Acks
<1>8. Acks(c)'
  <2>1. (Len(list[c]) + 1)..Sent(c) = {}
    BY <1>0, <1>1, <1>7, DialogueTypes DEF Sent, IInv, ListKept
  <2> QED
    BY <1>4, <1>5, <1>7, <2>1 DEF Acks
<1>9. Worker(t, c)'
  BY <1>0, <1>1, <1>2, <1>3, <1>4, <1>5 DEF Worker
<1> QED
  BY <1>0, <1>1, <1>3, <1>6, <1>8, <1>9, WorkKept

\* A thread that is about to send finds every MSG_OK given and room in the queue.
LEMMA AboutToSend ==
  ASSUME IInv, prompt, NEW t \in Thread, thread[t].at = "sends"
  PROVE  \E c \in Client :
           /\ op[c] = "list" /\ ListKept(c) /\ Listed(c) /\ Worker(t, c)
           /\ \A u \in Thread : u # t => thread[u].at = "free"
           /\ comp = 0 /\ thread[t].pid = c /\ thread[t].pattern = mine[c].pattern
           /\ \A i \in (Len(list[c]) + 1)..Sent(c) :
                i <= Len(Items(mine[c].pattern)) => ~Flagged(i)
           /\ RoomEnough => Fits(c)
<1>1. PICK c \in Client :
        /\ op[c] = "list" /\ ListKept(c) /\ Listed(c) /\ Worker(t, c)
        /\ \A u \in Thread : u # t => thread[u].at = "free"
  BY AtWork
<1>2. \A u \in Thread : thread[u].at # "acked"
  BY <1>1
<1>3. /\ comp = 0
      /\ \A i \in (Len(list[c]) + 1)..Sent(c) :
           i <= Len(Items(mine[c].pattern)) => ~Flagged(i)
  BY <1>1, <1>2 DEF Listed, Acks
<1>4. thread[t].pid = c /\ thread[t].pattern = mine[c].pattern /\ Sent(c) <= Len(Items(mine[c].pattern))
  BY <1>1 DEF Worker
<1>5. RoomEnough => Fits(c)
  BY <1>1, <1>2, <1>4, RoomForMore DEF IInv
<1> QED
  BY <1>1, <1>3, <1>4, <1>5

\* The queue after one more message of the listing, or without it.
LEMMA PrefixGrows ==
  ASSUME TypeOK, NEW c \in Client, ListKept(c), op[c] = "list", Prefix(c),
         Sent(c) <= Len(Items(mine[c].pattern)), UNCHANGED <<list, mine>>,
         NEW m \in Message,
         m = IF Sent(c) < Len(Items(mine[c].pattern))
             THEN Data(Items(mine[c].pattern)[Sent(c) + 1], Flagged(Sent(c) + 1)) ELSE Done,
         Deliver(c, m)
  PROVE  /\ Prefix(c)' /\ Sent(c) \in Nat
         /\ Fits(c) => Sent(c)' = Sent(c) + 1 /\ Len(inbox'[c]) > 0 /\ lost' = lost
         /\ ~Fits(c) => Sent(c)' = Sent(c) /\ inbox'[c] = inbox[c]
<1>1. PICK q : q = inbox[c]
  OBVIOUS
<1>2. PICK l : l = list[c]
  OBVIOUS
<1>3. PICK items : items = Items(mine[c].pattern)
  OBVIOUS
<1>4. /\ q \in Seq(Message) /\ Len(q) \in Nat /\ Len(l) \in Nat /\ items \in Seq(Rule)
      /\ Len(items) \in Nat /\ Sent(c) = Len(l) + Len(q)
  BY <1>1, <1>2, <1>3, DialogueTypes DEF ListKept, Sent
<1>5. /\ Len(l) <= Len(items) /\ Len(l) + Len(q) <= Len(items)
      /\ \A i \in 1..Len(l) : l[i] = items[i]
      /\ \A i \in 1..Len(q) :
           q[i] = IF Len(l) + i <= Len(items)
                  THEN Data(items[Len(l) + i], Flagged(Len(l) + i)) ELSE Done
  BY <1>1, <1>2, <1>3, <1>4 DEF Prefix
<1>6. CASE ~Fits(c)
  <2>1. inbox' = inbox
    BY <1>6 DEF Deliver
  <2>2. Sent(c)' = Sent(c)
    BY <2>1 DEF Sent
  <2>3. Prefix(c)'
    BY <2>1, <2>2 DEF Prefix
  <2> QED
    BY <1>4, <1>6, <2>1, <2>2, <2>3
<1>7. CASE Fits(c)
  <2>1. inbox'[c] = Append(q, m) /\ lost' = lost
    BY <1>1, <1>7 DEF Deliver, TypeOK
  <2>2. /\ Len(Append(q, m)) = Len(q) + 1 /\ Append(q, m)[Len(q) + 1] = m
        /\ \A i \in 1..Len(q) : Append(q, m)[i] = q[i]
    BY <1>4
  <2>3. Sent(c)' = Len(l) + (Len(q) + 1)
    BY <1>2, <2>1, <2>2 DEF Sent
  <2>4. Sent(c)' = Sent(c) + 1 /\ Len(inbox'[c]) > 0
    BY <1>4, <2>1, <2>2, <2>3
  <2>5. m = IF Len(l) + (Len(q) + 1) <= Len(items)
            THEN Data(items[Len(l) + (Len(q) + 1)], Flagged(Len(l) + (Len(q) + 1))) ELSE Done
    <3>1. Sent(c) + 1 = Len(l) + (Len(q) + 1) /\ (Sent(c) < Len(items) <=> Len(l) + (Len(q) + 1) <= Len(items))
      BY <1>4
    <3> QED
      BY <1>3, <3>1
  <2>6. \A i \in 1..(Len(q) + 1) :
          Append(q, m)[i] = IF Len(l) + i <= Len(items)
                            THEN Data(items[Len(l) + i], Flagged(Len(l) + i)) ELSE Done
    BY <1>4, <1>5, <2>2, <2>5
  <2>7. Len(l) + (Len(q) + 1) <= Len(items) + 1
    BY <1>4, <1>5
  <2>8. Prefix(c)'
    <3>1. /\ list'[c] = l /\ Items(mine'[c].pattern) = items
          /\ Len(inbox'[c]) = Len(q) + 1 /\ inbox'[c] = Append(q, m)
      BY <1>2, <1>3, <2>1, <2>2
    <3> QED
      BY <1>5, <2>3, <2>6, <2>7, <3>1 DEF Prefix
  <2> QED
    BY <1>4, <1>7, <2>1, <2>4, <2>8
<1> QED
  BY <1>6, <1>7

LEMMA ThreadSendsDialogue ==
  ASSUME IInv, prompt, NEW t \in Thread, ThreadSends(t)
  PROVE  OneLister' /\ (\A d \in Client : Dialogue(d)') /\ (RoomEnough => ~lost')
<1>0. /\ TypeOK /\ thread \in [Thread -> ThreadState] /\ thread[t].at = "sends"
      /\ UNCHANGED <<params, comp, call>> /\ (RoomEnough => ~lost)
  BY DEF ThreadSends, IInv, TypeOK
<1>1. PICK c \in Client :
        /\ op[c] = "list" /\ ListKept(c) /\ Listed(c) /\ Worker(t, c)
        /\ \A u \in Thread : u # t => thread[u].at = "free"
        /\ comp = 0 /\ thread[t].pid = c /\ thread[t].pattern = mine[c].pattern
        /\ \A i \in (Len(list[c]) + 1)..Sent(c) :
             i <= Len(Items(mine[c].pattern)) => ~Flagged(i)
        /\ RoomEnough => Fits(c)
  BY <1>0, AboutToSend
<1>2. PICK items : items = Items(mine[c].pattern)
  OBVIOUS
<1>3. PICK n : n = Sent(c)
  OBVIOUS
<1>4. /\ items \in Seq(Rule) /\ Len(items) \in Nat /\ n \in Nat /\ thread[t].next = n + 1
      /\ n + 1 <= Len(items) /\ Len(list[c]) \in Nat /\ Len(inbox[c]) \in Nat
  <2>1. /\ items \in Seq(Rule) /\ Len(items) \in Nat /\ Len(list[c]) \in Nat /\ Len(inbox[c]) \in Nat
    BY <1>0, <1>1, <1>2, DialogueTypes DEF ListKept
  <2>2. n \in Nat
    BY <1>3, <2>1, SentTypes
  <2>3. thread[t].next = n + 1
    BY <1>1, <1>3 DEF Worker
  <2>4. thread[t].next <= Len(items)
    BY <1>1, <1>2 DEF ThreadSends
  <2> QED
    BY <2>1, <2>2, <2>3, <2>4
<1>5. PICK m : m = Data(items[n + 1], Flagged(n + 1))
  OBVIOUS
<1>6. m \in Message
  BY <1>4, <1>5, Typing
<1>7. Deliver(c, m)
  BY <1>1, <1>2, <1>4, <1>5 DEF ThreadSends
<1>8. UNCHANGED <<list, mine>> /\ Prefix(c)
  BY <1>0, <1>1 DEF call, Listed
<1>9. /\ Prefix(c)'
      /\ Fits(c) => Sent(c)' = n + 1 /\ Len(inbox'[c]) > 0 /\ lost' = lost
      /\ ~Fits(c) => Sent(c)' = n /\ inbox'[c] = inbox[c]
  <2>1. m = IF n < Len(items) THEN Data(items[n + 1], Flagged(n + 1)) ELSE Done
    BY <1>4, <1>5
  <2>2. n <= Len(items)
    BY <1>4
  <2> QED
    BY <1>0, <1>1, <1>2, <1>3, <1>6, <1>7, <1>8, <2>1, <2>2, PrefixGrows
<1>12. \A d \in Client \ {c} : inbox'[d] = inbox[d]
  BY <1>0, <1>7 DEF Deliver, TypeOK
<1>10. CASE ~Fits(c)
  <2>1. thread' = [thread EXCEPT ![t] = Free] /\ Free.at = "free"
    BY <1>1, <1>10 DEF ThreadSends, Free
  <2>2. Acks(c)'
    BY <1>0, <1>1, <1>3, <1>8, <1>9, <1>10 DEF Acks
  <2>3. PICK r : r = Free
    OBVIOUS
  <2>4. OneLister' /\ \A d \in Client : Dialogue(d)'
    BY <1>0, <1>1, <1>9, <1>12, <2>1, <2>2, <2>3, WorkKept
  <2>5. ~RoomEnough
    BY <1>1, <1>10
  <2> QED
    BY <2>4, <2>5
<1>11. CASE Fits(c)
  <2>1. PICK r : r = thread'[t]
    OBVIOUS
  <2>2. PICK a : a = IF Flagged(n + 1) THEN "acked" ELSE "sends"
    OBVIOUS
  <2>3. thread' = [thread EXCEPT ![t].next = (n + 1) + 1, ![t].at = a]
    BY <1>1, <1>4, <1>11, <2>2 DEF ThreadSends
  <2>4. /\ r.at = a /\ r.next = (n + 1) + 1 /\ r.pid = c /\ r.pattern = mine[c].pattern
        /\ thread' = [thread EXCEPT ![t] = r]
    BY <1>0, <1>1, <2>1, <2>3 DEF ThreadState
  <2>5. Worker(t, c)'
    BY <1>2, <1>4, <1>8, <1>9, <1>11, <2>1, <2>2, <2>4 DEF Worker
  <2>6. Acks(c)'
    <3>1. ASSUME NEW i \in (Len(list[c]) + 1)..(n + 1), i <= Len(items), Flagged(i)
          PROVE  i = n + 1 /\ \E u \in Thread : thread'[u].at = "acked"
      <4>1. i = n + 1
        BY <1>1, <1>2, <1>3, <1>4, <3>1
      <4> QED
        BY <2>1, <2>2, <2>4, <3>1, <4>1
    <3> QED
      BY <1>0, <1>1, <1>2, <1>8, <1>9, <1>11, <3>1 DEF Acks
  <2>9. r.at # "born"
    BY <2>2, <2>4
  <2>7. OneLister' /\ \A d \in Client : Dialogue(d)'
    BY <1>0, <1>1, <1>9, <1>11, <1>12, <2>4, <2>5, <2>6, <2>9, WorkKept
  <2>8. RoomEnough => ~lost'
    BY <1>0, <1>9, <1>11
  <2> QED
    BY <2>7, <2>8
<1> QED
  BY <1>10, <1>11

\* MSG_DONE is sent when every rule has been.
LEMMA ThreadDoneDialogue ==
  ASSUME IInv, prompt, NEW t \in Thread, ThreadDone(t)
  PROVE  OneLister' /\ (\A d \in Client : Dialogue(d)') /\ (RoomEnough => ~lost')
<1>0. /\ TypeOK /\ thread \in [Thread -> ThreadState] /\ thread[t].at = "sends"
      /\ UNCHANGED <<params, comp, call>> /\ (RoomEnough => ~lost)
  BY DEF ThreadDone, IInv, TypeOK
<1>1. PICK c \in Client :
        /\ op[c] = "list" /\ ListKept(c) /\ Listed(c) /\ Worker(t, c)
        /\ \A u \in Thread : u # t => thread[u].at = "free"
        /\ comp = 0 /\ thread[t].pid = c /\ thread[t].pattern = mine[c].pattern
        /\ \A i \in (Len(list[c]) + 1)..Sent(c) :
             i <= Len(Items(mine[c].pattern)) => ~Flagged(i)
        /\ RoomEnough => Fits(c)
  BY <1>0, AboutToSend
<1>2. PICK items : items = Items(mine[c].pattern)
  OBVIOUS
<1>3. PICK n : n = Sent(c)
  OBVIOUS
<1>4. /\ Len(items) \in Nat /\ n \in Nat /\ thread[t].next = n + 1
      /\ n + 1 > Len(items) /\ n <= Len(items) /\ Len(list[c]) \in Nat /\ Len(inbox[c]) \in Nat
  <2>1. Len(items) \in Nat /\ Len(list[c]) \in Nat /\ Len(inbox[c]) \in Nat
    BY <1>0, <1>1, <1>2, DialogueTypes DEF ListKept
  <2>2. n \in Nat
    BY <1>3, <2>1, SentTypes
  <2>3. thread[t].next = n + 1 /\ n <= Len(items)
    BY <1>1, <1>2, <1>3 DEF Worker
  <2>4. thread[t].next > Len(items)
    BY <1>1, <1>2 DEF ThreadDone
  <2> QED
    BY <2>1, <2>2, <2>3, <2>4
<1>5. n = Len(items)
  BY <1>4
<1>6. Deliver(c, Done) /\ Done \in Message
  BY <1>1, Typing DEF ThreadDone
<1>7. UNCHANGED <<list, mine>> /\ Prefix(c)
  BY <1>0, <1>1 DEF call, Listed
<1>8. /\ Prefix(c)'
      /\ Fits(c) => Sent(c)' = n + 1 /\ Len(inbox'[c]) > 0 /\ lost' = lost
      /\ ~Fits(c) => Sent(c)' = n /\ inbox'[c] = inbox[c]
  <2>1. Done = IF n < Len(items) THEN Data(items[n + 1], Flagged(n + 1)) ELSE Done
    BY <1>4, <1>5
  <2> QED
    BY <1>0, <1>1, <1>2, <1>3, <1>4, <1>6, <1>7, <2>1, PrefixGrows
<1>9. thread' = [thread EXCEPT ![t] = Free] /\ Free.at = "free"
  BY DEF ThreadDone, Free
<1>10. Acks(c)'
  <2>1. \A i \in (Len(list[c]) + 1)..Sent(c)' : i <= Len(items) => ~Flagged(i)
    BY <1>1, <1>2, <1>3, <1>4, <1>5, <1>8
  <2> QED
    BY <1>0, <1>1, <1>2, <1>7, <2>1 DEF Acks
<1>11. OneLister' /\ \A d \in Client : Dialogue(d)'
  <2>1. PICK r : r = Free
    OBVIOUS
  <2>2. \A d \in Client \ {c} : inbox'[d] = inbox[d]
    BY <1>0, <1>6 DEF Deliver, TypeOK
  <2> QED
    BY <1>0, <1>1, <1>8, <1>9, <1>10, <2>1, <2>2, WorkKept
<1>12. RoomEnough => ~lost'
  BY <1>0, <1>1, <1>8
<1> QED
  BY <1>11, <1>12

\* Nothing makes a late dialogue prompt again.
LEMMA OnceLate ==
  ASSUME TypeOK, Next, prompt'
  PROVE  prompt
BY DEF Next, Make, Change, AddPolicyRule, DeleteRules, GetRules, SendFails, Receive, RecvData, RecvDone,
       RecvErr, Take, Timeout, Send, ThreadReadsPid, ThreadReadsPattern, ThreadSends, ThreadAcked,
       ThreadGivesUp, ThreadDone

LEMMA DialogueStep ==
  ASSUME IInv, Next, prompt'
  PROVE  OneLister' /\ (\A d \in Client : Dialogue(d)') /\ (RoomEnough => ~lost')
<1>0. prompt /\ (RoomEnough => ~lost)
  BY OnceLate DEF IInv
<1>1. ASSUME NEW c \in Client, Make(c)
      PROVE  OneLister' /\ (\A d \in Client : Dialogue(d)') /\ (RoomEnough => ~lost')
  <2>1. ~DeleteRules(c)
    BY DEF DeleteRules
  <2> QED
    BY <1>0, <1>1, <2>1, ChangeDialogue, AddPolicyRuleDialogue, GetRulesDialogue, SendFailsDialogue DEF Make
<1>2. ASSUME NEW c \in Client, Receive(c)
      PROVE  OneLister' /\ (\A d \in Client : Dialogue(d)') /\ (RoomEnough => ~lost')
  BY <1>0, <1>2, RecvDataDialogue, RecvDoneDialogue, RecvErrDialogue DEF Receive
<1>3. ~\E c \in Client : Timeout(c)
  BY DEF Timeout
<1>4. ASSUME NEW t \in Thread, Send(t)
      PROVE  OneLister' /\ (\A d \in Client : Dialogue(d)') /\ (RoomEnough => ~lost')
  <2>1. ~ThreadGivesUp(t)
    BY DEF ThreadGivesUp
  <2> QED
    BY <1>0, <1>4, <2>1, ThreadReadsDialogue, ThreadAckedDialogue, ThreadSendsDialogue,
       ThreadDoneDialogue DEF Send
<1> QED
  BY <1>1, <1>2, <1>3, <1>4 DEF Next

LEMMA InitInv ==
  Init => IInv
<1> SUFFICES ASSUME Init PROVE IInv
  OBVIOUS
<1>1. TypeOK
  BY TypeInit
<1>2. Fresh
  BY DEF Init, Fresh, Free
<1>3. \A c \in Client : ListKept(c)
  BY ConstantsAssumption DEF Init, ListKept
<1>6. OneLister
  BY DEF Init, OneLister, Quiet, Free
<1>4. \A c \in Client : Dialogue(c)
  BY DEF Init, Dialogue, Returned, Result
<1>5. ~lost
  BY DEF Init
<1> QED
  BY <1>1, <1>2, <1>3, <1>4, <1>5, <1>6 DEF IInv

LEMMA StepInv ==
  ASSUME IInv, [Next]_vars
  PROVE  IInv'
<1>1. TypeOK'
  BY TypeStep DEF IInv
<1>2. CASE Next
  <2>1. Fresh' /\ \A c \in Client : ListKept(c)'
    BY <1>2, FreshStep, ListKeptStep DEF IInv
  <2> QED
    BY <1>1, <1>2, <2>1, DialogueStep DEF IInv
<1>3. CASE UNCHANGED vars
  <2>1. UNCHANGED <<params, comp, thread, inbox, lost, op, list, last, mine, prompt>>
    BY <1>3 DEF vars, kernel, call
  <2>2. Fresh' /\ \A c \in Client : ListKept(c)'
    BY <2>1 DEF IInv, Fresh, ListKept
  <2>3. ASSUME prompt', NEW d \in Client PROVE Dialogue(d)'
    BY <2>1, <2>3, DialogueStays DEF IInv
  <2>4. prompt' => OneLister'
    BY <2>1 DEF IInv, OneLister, Quiet
  <2> QED
    BY <1>1, <2>1, <2>2, <2>3, <2>4 DEF IInv
<1> QED
  BY <1>2, <1>3

LEMMA Invariant == Spec => []IInv
<1>1. Init => IInv
  BY InitInv
<1>2. IInv /\ [Next]_vars => IInv'
  BY StepInv
<1> QED
  BY <1>1, <1>2, PTL DEF Spec

-----------------------------------------------------------------------------
(* Theorems.                                                               *)

\* Whatever fails, is lost, late or mixed up, each variable keeps its type.
THEOREM TypeCorrect == Spec => []TypeOK
<1>1. IInv => TypeOK
  BY DEF IInv
<1> QED
  BY <1>1, Invariant, PTL

\* A call that is answered in time has its own answer, whatever other clients send beside it.
THEOREM AnswersMatch == Spec => []OwnAnswer
<1>1. IInv => OwnAnswer
  BY DEF IInv, Dialogue, Returned, OwnAnswer
<1> QED
  BY <1>1, Invariant, PTL

\* A listing that ends in time is complete, in order and without repetition,
\* however short the queue is.
THEOREM ListingsComplete == Spec => []FullList
<1>1. IInv => FullList
  BY DEF IInv, Dialogue, Returned, FullList
<1> QED
  BY <1>1, Invariant, PTL

\* A queue that holds the policies and the rules of one acknowledgement never
\* overflows, however many rules and clients there are.
THEOREM AcksKeepPace ==
  ASSUME RoomEnough
  PROVE  Spec => []NothingLost
<1>1. IInv => NothingLost
  BY DEF IInv, NothingLost
<1> QED
  BY <1>1, Invariant, PTL

\* A rule is only ever put into the list of a call that waits for it, and a client
\* whose calls are in time never follows a pointer that leads nowhere, though it has
\* one until its first listing and after every listing that could not be sent.
THEOREM FilledInCall == Spec => []FilledOnlyInCall
<1>1. ASSUME IInv, NEW c \in Client
      PROVE  (list[c] \notin {NULL, WILD} <=> op[c] = "list") /\ (prompt => op[c] # "crashed")
  <2>1. list[c] \in Seq(Rule) \cup {NULL, WILD} /\ NULL \notin Seq(Rule) /\ WILD \notin Seq(Rule)
    BY <1>1, ConstantsAssumption DEF IInv, TypeOK
  <2>2. list[c] \in Seq(Rule) <=> op[c] = "list"
    BY <1>1 DEF IInv, ListKept
  <2>3. prompt => op[c] # "crashed"
    BY <1>1 DEF IInv, Dialogue
  <2> QED
    BY <2>1, <2>2, <2>3
<1>2. IInv => FilledOnlyInCall
  BY <1>1 DEF FilledOnlyInCall
<1> QED
  BY <1>2, Invariant, PTL

=============================================================================
