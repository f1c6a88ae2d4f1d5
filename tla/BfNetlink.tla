------------------------------ MODULE BfNetlink ------------------------------
(***************************************************************************)
(* The dialogue over the netlink socket.  On one side BFControl            *)
(* (bf-link/bfcontrol.cpp): every call sends one message and turns a       *)
(* nested event loop until an answer, MSG_DONE or a timer ends it.  On the *)
(* other the kernel module: a message is answered in the context of its    *)
(* sender, and MSG_GET_RULES starts a kernel thread that sends the rules   *)
(* one by one and waits for MSG_OK after every AckEvery of them            *)
(* (bf-ko/nl_int.c, list_rules in bf-ko/bf_module.c).                      *)
(*                                                                         *)
(* What a change does to the rules is BfKernel's business: here its        *)
(* outcome is arbitrary, and the rules listed for a pattern are constant.  *)
(***************************************************************************)
EXTENDS Integers, Sequences

CONSTANTS
  Client,    \* the processes with a BFControl
  Thread,    \* the list threads: bounds how many run at a time
  Pattern, Rule,
  Listing,   \* the rules that each pattern selects, in the order of the chains
  Policies,  \* the two policy pseudo rules that open every listing
  Kinds,     \* the kinds of calls the clients make
  AckEvery,  \* ACK_EVERY_N_MSG
  QueueMax,  \* what fits into a socket's receive queue
  Expires,   \* the clients whose timers may run out before the answer comes
  AckExpires,\* TRUE: wfc() may give up before the MSG_OK comes
  Calls,     \* bound: how many calls are made
  NULL,
  WILD       \* a pointer that leads nowhere: never set, or to a list that is gone

Kind == {"change", "policyadd", "flush", "list"}
Code == {"OK", "ERR"}

ASSUME ConstantsAssumption ==
  /\ Client # {} /\ Pattern # {}
  /\ Kinds \subseteq Kind /\ Expires \subseteq Client
  /\ Policies \in Seq(Rule) /\ Listing \in [Pattern -> Seq(Rule)]
  /\ AckEvery \in Nat \ {0} /\ QueueMax \in Nat /\ Calls \in Nat
  /\ NULL \notin Seq(Rule) /\ WILD \notin Seq(Rule) /\ NULL # WILD

VARIABLES
  params,   \* the global thrd_params: the last sender, the last pattern asked for
  comp,     \* the global completion: how many MSG_OK nobody has waited for
  thread,   \* each list thread
  inbox,    \* each client's receive queue
  op,       \* what each client is doing
  list,     \* d->ruleslst: NULL, WILD, or the list being filled
  err,      \* ErrorReciever of the call
  last,     \* what its last call returned
  \* The rest is auxiliary: no action's guard reads it.
  calls,    \* how many calls have been made
  mine,     \* what its call asked for, and what the kernel answered
  lost,     \* some message did not fit into a queue
  prompt    \* no timer has run out, no answer has been left to come unread, and
            \* no message has crossed the listing of another client

kernel == <<params, comp, thread>>
call == <<op, list, err, last, calls, mine>>
vars == <<kernel, inbox, lost, call, prompt>>

Items(p) == Policies \o Listing[p]
AnyPattern == CHOOSE p \in Pattern : TRUE

Free == [at |-> "free", pid |-> NULL, pattern |-> AnyPattern, next |-> 1]

\* The messages to a client; "of" is auxiliary: the number of the call answered.
Data(r, ack) == [type |-> "DATA", rule |-> r, ack |-> ack]
Done == [type |-> "DONE"]
Err(code, of) == [type |-> "ERR", code |-> code, of |-> of]

Result(end, code, rules) == [end |-> end, code |-> code, list |-> rules]

\* nlmsg_unicast(): what does not fit into the queue, or has no receiver, is lost.
Fits(c) == Len(inbox[c]) < QueueMax /\ op[c] # "crashed"

\* Mutant of Deliver: a break is missing, and a second answer follows.
DeliverTwice(c, m) ==
  /\ inbox' = IF Fits(c) THEN [inbox EXCEPT ![c] = @ \o <<m, m>>] ELSE inbox
  /\ lost' = (lost \/ ~Fits(c))

Deliver(c, m) ==
  /\ inbox' = IF Fits(c) THEN [inbox EXCEPT ![c] = Append(@, m)] ELSE inbox
  /\ lost' = (lost \/ ~Fits(c))

-----------------------------------------------------------------------------
(* A call of BFControl.  The kernel handles its message before send()      *)
(* returns; every message overwrites thrd_params.pid.                      *)

\* A list thread has yet to read whom it works for.
Unread == \E t \in Thread : thread[t].at = "born"

Begin(c, p, truth) ==
  /\ op[c] = "idle"
  /\ calls < Calls
  /\ calls' = calls + 1
  /\ mine' = [mine EXCEPT ![c] = [pattern |-> p, truth |-> truth]]

\* QWaitForDone::start
Loop(c, next) ==
  /\ op' = [op EXCEPT ![c] = next]
  /\ err' = [err EXCEPT ![c] = "OK"]
  /\ UNCHANGED last

\* addRule, updateRule, deleteRule, setChainPolicy.
Change(c, code) ==
  /\ "change" \in Kinds
  /\ Begin(c, AnyPattern, code)
  /\ Loop(c, "wait")
  /\ params' = [params EXCEPT !.pid = c]
  /\ Deliver(c, Err(code, calls + 1))
  /\ prompt' = (prompt /\ ~Unread)
  /\ UNCHANGED <<comp, thread, list>>

\* addRule of a policy pseudo rule: the kernel breaks without an answer.
AddPolicyRule(c) ==
  /\ "policyadd" \in Kinds
  /\ Begin(c, AnyPattern, "NONE")
  /\ Loop(c, "wait")
  /\ params' = [params EXCEPT !.pid = c]
  /\ prompt' = (prompt /\ ~Unread)
  /\ UNCHANGED <<comp, thread, inbox, lost, list>>

\* deleteRules: the kernel answers, the client does not wait for it.
DeleteRules(c) ==
  /\ "flush" \in Kinds
  /\ Begin(c, AnyPattern, "OK")
  /\ params' = [params EXCEPT !.pid = c]
  /\ Deliver(c, Err("OK", calls + 1))
  /\ last' = [last EXCEPT ![c] = Result("sent", "OK", <<>>)]
  /\ prompt' = FALSE
  /\ UNCHANGED <<comp, thread, op, list, err>>

\* getRulesSync: the kernel starts a list thread and hands it &thrd_params.
GetRules(c, p) ==
  /\ "list" \in Kinds
  /\ Begin(c, p, "NONE")
  /\ Loop(c, "list")
  /\ list' = [list EXCEPT ![c] = <<>>]
  /\ params' = [pid |-> c, pattern |-> p]
  /\ \E t \in Thread :
       /\ thread[t].at = "free"
       /\ thread' = [thread EXCEPT ![t].at = "born"]
  /\ prompt' = (prompt /\ \A d \in Client : op[d] # "list")
  /\ UNCHANGED <<comp, inbox, lost>>

\* sendMsg() fails, and the call returns at once.  getRulesSync leaves ruleslst at a list
\* of its caller's; a load, which is a change for each rule, sets it NULL.
SendFails(c) ==
  /\ Begin(c, AnyPattern, "NONE")
  /\ last' = [last EXCEPT ![c] = Result("failed", "ERR", <<>>)]
  /\ \/ "list" \in Kinds /\ list' = [list EXCEPT ![c] = WILD]
     \/ "change" \in Kinds /\ list' = [list EXCEPT ![c] = NULL]
     \/ list' = list
  /\ UNCHANGED <<kernel, inbox, lost, op, err, prompt>>

\* Mutant of Return: ruleslst stays.
ReturnKeepsList(c, end, code) ==
  /\ op' = [op EXCEPT ![c] = "idle"]
  /\ last' = [last EXCEPT ![c] = Result(end, code, IF op[c] = "list" THEN list[c] ELSE <<>>)]
  /\ UNCHANGED list

\* The nested loop is left; getRulesSync resets ruleslst.
Return(c, end, code) ==
  /\ op' = [op EXCEPT ![c] = "idle"]
  /\ last' = [last EXCEPT ![c] = Result(end, code, IF op[c] = "list" THEN list[c] ELSE <<>>)]
  /\ list' = IF op[c] = "list" THEN [list EXCEPT ![c] = NULL] ELSE list

\* The event loop hands the next message to BFControl::process.
Take(c, type) ==
  /\ op[c] # "crashed"
  /\ inbox[c] # <<>>
  /\ Head(inbox[c]).type = type
  /\ inbox' = [inbox EXCEPT ![c] = Tail(@)]
  /\ UNCHANGED <<thread, lost, calls, mine, prompt>>

\* Mutant of RecvData: a rule is kept or acknowledged, not both.
RecvDataOrAck(c) ==
  LET m == Head(inbox[c]) IN
  /\ Take(c, "DATA")
  /\ list' = IF list[c] \in {NULL, WILD} \/ m.ack THEN list ELSE [list EXCEPT ![c] = Append(@, m.rule)]
  /\ IF m.ack THEN comp' = comp + 1 /\ params' = [params EXCEPT !.pid = c]
              ELSE UNCHANGED <<comp, params>>
  /\ UNCHANGED <<op, err, last>>

\* The MSG_OK that an NLM_F_ACK asks for; nobody looks whether it could be sent.
Acknowledges(c, ack) ==
  \/ ack /\ comp' = comp + 1 /\ params' = [params EXCEPT !.pid = c]
  \/ UNCHANGED <<comp, params>>

\* Without a list to fill, the rule goes to data(filter_rule_t), which nobody
\* needs; behind a wild pointer nothing is defined any more.
RecvData(c) ==
  LET m == Head(inbox[c]) IN
  /\ Take(c, "DATA")
  /\ \/ list[c] = WILD /\ op' = [op EXCEPT ![c] = "crashed"] /\ UNCHANGED <<list, comp, params>>
     \/ list[c] = NULL /\ UNCHANGED <<op, list>> /\ Acknowledges(c, m.ack)
     \/ /\ list[c] \notin {NULL, WILD}
        /\ list' = [list EXCEPT ![c] = Append(@, m.rule)]
        /\ UNCHANGED op /\ Acknowledges(c, m.ack)
  /\ UNCHANGED <<err, last>>

\* data(*d->ruleslst), done(), ruleslst = NULL.
RecvDone(c) ==
  /\ Take(c, "DONE")
  /\ IF list[c] \in {NULL, WILD}
     THEN op' = [op EXCEPT ![c] = "crashed"] /\ UNCHANGED <<list, last>>
     ELSE Return(c, "done", err[c])
  /\ UNCHANGED <<params, comp, err>>

\* error(code): a call that waits for an answer has it; getRulesSync only
\* notes it; between two calls nobody is connected.
RecvErr(c) ==
  LET m == Head(inbox[c]) IN
  /\ Take(c, "ERR")
  /\ err' = IF op[c] = "idle" THEN err ELSE [err EXCEPT ![c] = m.code]
  /\ IF op[c] = "wait" THEN Return(c, "answered", m.code) ELSE UNCHANGED <<op, list, last>>
  /\ UNCHANGED <<params, comp>>

Running(c) == op[c] \in {"wait", "list"}

\* The timer's own quit(): the call returns what err holds, 0 if nothing came.  No
\* message has put it off: data(filter_rule_t), to which restart() is connected, is
\* only emitted when no list is being filled.
Timeout(c) ==
  /\ c \in Expires
  /\ Running(c)
  /\ Return(c, IF op[c] = "wait" THEN "silence" ELSE "timeout", err[c])
  /\ prompt' = FALSE
  /\ UNCHANGED <<kernel, inbox, lost, err, calls, mine>>

-----------------------------------------------------------------------------
(* The list thread.                                                        *)

\* It copies pid and pattern out of thrd_params when it comes to run.
ThreadReadsPid(t) ==
  /\ thread[t].at = "born"
  /\ thread' = [thread EXCEPT ![t].at = "reads", ![t].pid = params.pid]
  /\ UNCHANGED <<params, comp, inbox, lost, call, prompt>>

ThreadReadsPattern(t) ==
  /\ thread[t].at = "reads"
  /\ thread' = [thread EXCEPT ![t].at = "sends", ![t].pattern = params.pattern]
  /\ UNCHANGED <<params, comp, inbox, lost, call, prompt>>

\* The i-th message is flagged when it is the AckEvery-th rule after the last one.
Flagged(i) == i > Len(Policies) /\ (i - Len(Policies)) % AckEvery = 0

\* Mutant of ThreadSends: nobody waits for the MSG_OK.
ThreadSendsOn(t) ==
  LET c == thread[t].pid
      i == thread[t].next
      items == Items(thread[t].pattern)
  IN /\ thread[t].at = "sends"
     /\ i <= Len(items)
     /\ Deliver(c, Data(items[i], Flagged(i)))
     /\ thread' = [thread EXCEPT ![t] = IF Fits(c) THEN [@ EXCEPT !.next = i + 1] ELSE Free]
     /\ UNCHANGED <<params, comp, call, prompt>>

\* A message that cannot be sent ends the listing without MSG_DONE.
ThreadSends(t) ==
  LET c == thread[t].pid
      i == thread[t].next
      items == Items(thread[t].pattern)
  IN /\ thread[t].at = "sends"
     /\ i <= Len(items)
     /\ Deliver(c, Data(items[i], Flagged(i)))
     /\ thread' =
          IF ~Fits(c) THEN [thread EXCEPT ![t] = Free]
          ELSE [thread EXCEPT ![t].next = i + 1, ![t].at = IF Flagged(i) THEN "acked" ELSE "sends"]
     /\ UNCHANGED <<params, comp, call, prompt>>

\* wfc(): any MSG_OK will do, from whomever and however old.
ThreadAcked(t) ==
  /\ thread[t].at = "acked"
  /\ comp > 0
  /\ comp' = comp - 1
  /\ thread' = [thread EXCEPT ![t].at = "sends"]
  /\ UNCHANGED <<params, inbox, lost, call, prompt>>

\* Mutant of ThreadGivesUp: wait_for_completion, without a timeout.
ThreadNeverGivesUp(t) == FALSE /\ UNCHANGED vars

ThreadGivesUp(t) ==
  /\ AckExpires
  /\ thread[t].at = "acked"
  /\ comp = 0
  /\ thread' = [thread EXCEPT ![t].at = "sends"]
  /\ prompt' = FALSE
  /\ UNCHANGED <<params, comp, inbox, lost, call>>

ThreadDone(t) ==
  /\ thread[t].at = "sends"
  /\ thread[t].next > Len(Items(thread[t].pattern))
  /\ Deliver(thread[t].pid, Done)
  /\ thread' = [thread EXCEPT ![t] = Free]
  /\ UNCHANGED <<params, comp, call, prompt>>

-----------------------------------------------------------------------------
Init ==
  /\ params = [pid |-> NULL, pattern |-> AnyPattern]
  /\ comp = 0
  /\ thread = [t \in Thread |-> Free]
  /\ inbox = [c \in Client |-> <<>>]
  /\ lost = FALSE
  /\ prompt = TRUE
  /\ op = [c \in Client |-> "idle"]
  /\ list = [c \in Client |-> WILD] \* BFControlPrivate() does not set it
  /\ err = [c \in Client |-> "OK"]
  /\ last = [c \in Client |-> Result("none", "OK", <<>>)]
  /\ calls = 0
  /\ mine = [c \in Client |-> [pattern |-> AnyPattern, truth |-> "NONE"]]

Make(c) ==
  \/ \E code \in Code : Change(c, code)
  \/ AddPolicyRule(c)
  \/ DeleteRules(c)
  \/ \E p \in Pattern : GetRules(c, p)
  \/ SendFails(c)

Receive(c) == RecvData(c) \/ RecvDone(c) \/ RecvErr(c)

Send(t) ==
  \/ ThreadReadsPid(t) \/ ThreadReadsPattern(t) \/ ThreadSends(t)
  \/ ThreadAcked(t) \/ ThreadGivesUp(t) \/ ThreadDone(t)

Next ==
  \/ \E c \in Client : Make(c) \/ Receive(c) \/ Timeout(c)
  \/ \E t \in Thread : Send(t)

Spec == Init /\ [][Next]_vars

\* Time passes and the kernel's threads run; a client that has a call open turns
\* its event loop.  Nobody has to make a call.
FairSpec ==
  /\ Spec
  /\ \A c \in Client : WF_vars(Receive(c)) /\ WF_vars(Timeout(c))
  /\ \A t \in Thread : WF_vars(Send(t))

-----------------------------------------------------------------------------
(* Properties.                                                             *)

\* As long as no call has run into its timer, left its answer unread or crossed the
\* listing of another client, a call returns what the kernel answered to it and not to
\* another one, although BFControl::process matches nothing.
OwnAnswer ==
  \A c \in Client :
    (prompt /\ op[c] = "idle" /\ last[c].end = "answered") => last[c].code = mine[c].truth

\* As long as that is so, a listing that ends with MSG_DONE is the policies and every
\* rule that the pattern selects, in order, and nothing else.
FullList ==
  \A c \in Client :
    (prompt /\ op[c] = "idle" /\ last[c].end = "done") => last[c].list = Items(mine[c].pattern)

\* And the acknowledgements keep a listing from overrunning its receiver's queue,
\* as long as the kernel's wait for them does not run out either.
NothingLost == prompt => ~lost

\* A list is being filled exactly while getRulesSync waits for it.  Before the first
\* listing, and after one that could not be sent, ruleslst leads nowhere, and
\* bfcontrol.cpp:38 and :51 follow it all the same: the client is safe only because
\* nothing comes unasked, until a call runs into its timer or is crossed by another.
FilledOnlyInCall ==
  \A c \in Client :
    /\ list[c] \notin {NULL, WILD} <=> op[c] = "list"
    /\ prompt => op[c] # "crashed"

\* Every list thread ends, also for a receiver that never sends MSG_OK.
ThreadsEnd == \A t \in Thread : thread[t].at # "free" ~> thread[t].at = "free"
=============================================================================
