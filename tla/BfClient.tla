------------------------------ MODULE BfClient ------------------------------
(***************************************************************************)
(* BFLocalControl: the client's end of the local socket, for a program     *)
(* that goes on when a call has failed: answers that come in pieces,       *)
(* timers, connections that break and are made again, commands that are    *)
(* queued while there is none, and the one list, ruleslst, that every      *)
(* answer to a listing is put into.  A call turns an event loop, in which  *)
(* the program may begin another one (the slots of the GUI's main window   *)
(* do): so calls form a stack, and only the innermost can return.          *)
(*                                                                         *)
(* The server is external: it answers the commands of a connection in      *)
(* order, with as many answers as processMessage has for them.  (What it   *)
(* may get wrong is BfLocalServer's business.)  A frame is a size and a    *)
(* body of one or two pieces; a read that brings several pieces is as many *)
(* steps in a row, as onReadyRead calls itself until nothing is left.      *)
(***************************************************************************)
EXTENDS Naturals, Sequences, SequencesExt

CONSTANTS
  Op,       \* the calls the program makes
  MaxCalls, \* bound: how many of them
  MaxConn,  \* bound: how many connections
  MaxRules  \* bound: rules in a listing

Pieces(type) == IF type = "data" THEN 2 ELSE 1 \* only that some frames are longer

ASSUME ClientAssumption ==
  /\ Op \subseteq {"add", "send", "get", "async"}
  /\ MaxCalls \in Nat /\ MaxConn \in Nat /\ MaxRules \in Nat

VARIABLES
  sock,     \* mLocalSocket is connected
  slots,    \* how often its signals are connected: once by each init()
  wanted,   \* mSocketWantedData
  buffer,   \* what has arrived and has not been read
  queue,    \* mCommandQueue
  ruleslst, \* "wild" (the constructor sets nothing), "null", a list of a call
            \* that waits ("call"), of one that is over ("dead"), or one that
            \* getRulesAsync has allocated ("async")
  stack,    \* the calls being executed, the innermost last
  asked,    \* the connection: commands on their way to the server ...
  coming,   \* ... and frames on their way back, in pieces
  calls, conns,
  crash,    \* how the program has ended, if it has
  \* The rest is auxiliary: no action's guard reads it.
  torn,     \* something was read as a size or as a body that is not one
  alien,    \* a call has taken an answer to another command
  why       \* why answers may reach another call than the one they belong to

vars == <<sock, slots, wanted, buffer, queue, ruleslst, stack, asked, coming, calls, conns,
          crash, torn, alien, why>>
stream == <<wanted, buffer>>
session == <<sock, slots, conns>>

Top == Last(stack)
Waits(op) == \E i \in DOMAIN stack : stack[i].op = op

\* A call that is under way waits for n's answer: left further rules of
\* sendRulesSync are to follow.
Calling(op, n, left) == [op |-> op, n |-> n, left |-> left, failed |-> FALSE, quit |-> FALSE]

\* Answers to other commands than the one just being sent are still to come.
Outstanding == asked # <<>> \/ coming # <<>> \/ wanted # 0
If(reason, cond) == IF cond THEN {reason} ELSE {}

-----------------------------------------------------------------------------
(* Calls.                                                                    *)

Cmd(op, n) == [op |-> IF op = "send" THEN "add" ELSE op, n |-> n]

\* getRulesSync and getRulesAsync set ruleslst before they send.  When there is no
\* connection the first returns as it is, and its caller's list goes; the second
\* and sendRulesSync reset it.
ListWhenAsked(op) == CASE op = "get" -> "call" [] op = "async" -> "async" [] OTHER -> ruleslst
ListWhenOff(op) == CASE op = "get" -> "dead" [] op \in {"async", "send"} -> "null" [] OTHER -> ruleslst

\* sendCommand writes the command, ...
Written(cmd) ==
  /\ sock
  /\ asked' = Append(asked, cmd)
  /\ UNCHANGED queue

\* ... or queues it and returns an error; as it does, too, when a write fails, of the
\* command's size or of its body.
NotWritten(cmd) ==
  /\ \/ ~sock /\ queue' = Append(queue, cmd) /\ UNCHANGED asked
     \/ sock /\ asked' \in {asked, Append(asked, [cmd EXCEPT !.op = "half"])} /\ UNCHANGED queue
  /\ why' = why \cup If("unsent", sock /\ Outstanding)

Begin(op) ==
  /\ crash = "no"
  /\ calls < MaxCalls
  /\ calls' = calls + 1
  /\ Written(Cmd(op, calls + 1))
  /\ ruleslst' = ListWhenAsked(op)
  /\ stack' = IF op = "async" THEN stack
              ELSE Append(stack, Calling(op, calls + 1, IF op = "send" THEN 1 ELSE 0))
  /\ why' = why \cup If("overlap", Outstanding /\ ruleslst = "async") \cup If("nested", stack # <<>>)
  /\ UNCHANGED <<session, stream, coming, crash, torn, alien>>

BeginOff(op) ==
  /\ crash = "no"
  /\ calls < MaxCalls
  /\ calls' = calls + 1
  /\ NotWritten(Cmd(op, calls + 1))
  /\ ruleslst' = ListWhenOff(op)
  /\ UNCHANGED <<session, stream, stack, coming, crash, torn, alien>>

\* A call ends.  getRulesSync resets ruleslst, as sendRulesSync does after an error.
ListAfterKept(failed) == ruleslst \* Mutant of ListAfter: the reset is missing.
ListAfter(failed) ==
  IF Top.op = "get" \/ (Top.op = "send" /\ failed) THEN "null" ELSE ruleslst

\* The event loop of the innermost call was told to quit; errr says how it went.
Return ==
  /\ stack # <<>> /\ Top.quit /\ crash = "no"
  /\ Top.left = 0 \/ Top.failed
  /\ stack' = Front(stack)
  /\ ruleslst' = ListAfter(Top.failed)
  /\ UNCHANGED <<session, stream, queue, asked, coming, calls, crash, torn, alien, why>>

\* sendRulesSync goes on with the next rule.
NextRule ==
  /\ stack # <<>> /\ Top.quit /\ crash = "no"
  /\ Top.left > 0 /\ ~Top.failed
  /\ calls' = calls + 1
  /\ \/ /\ Written(Cmd("add", calls + 1))
        /\ stack' = Append(Front(stack), Calling("send", calls + 1, Top.left - 1))
        /\ UNCHANGED <<ruleslst, why>>
     \/ /\ NotWritten(Cmd("add", calls + 1))
        /\ stack' = Front(stack)
        /\ ruleslst' = ListAfter(TRUE)
  /\ UNCHANGED <<session, stream, coming, crash, torn, alien>>

\* The timer of any call under way may end its wait.
Timeout ==
  /\ crash = "no"
  /\ \E i \in DOMAIN stack : ~stack[i].quit /\ stack' = [stack EXCEPT ![i].quit = TRUE]
  /\ why' = why \cup If("timeout", Outstanding)
  /\ UNCHANGED <<session, stream, queue, ruleslst, asked, coming, calls, crash, torn, alien>>

-----------------------------------------------------------------------------
(* Connections.                                                              *)

LeastOf(a, b) == IF a < b THEN a ELSE b

\* init().  Each earlier init() has connected onConnected, and each of those sends
\* one command of the queue (which is lost when it cannot be written); this one's comes
\* too late.
Connect ==
  /\ ~sock /\ conns < MaxConn /\ crash = "no"
  /\ LET k == LeastOf(slots, Len(queue)) IN
       /\ \E written \in 0 .. k : asked' = SubSeq(queue, 1, written)
       /\ queue' = SubSeq(queue, k + 1, Len(queue))
       /\ why' = why \cup If("queue", k > 0)
  /\ sock' = TRUE
  /\ slots' = slots + 1
  /\ conns' = conns + 1
  /\ wanted' = 0
  /\ UNCHANGED <<buffer, ruleslst, stack, coming, calls, crash, torn, alien>>

\* The program closes the connection, or the server does, or there is an error:
\* onDisconnected, onSocketError.  What has not been read is lost.
Disconnect ==
  /\ sock /\ crash = "no"
  /\ sock' = FALSE
  /\ wanted' = 0
  /\ buffer' = <<>>
  /\ asked' = <<>>
  /\ coming' = <<>>
  /\ UNCHANGED <<slots, queue, ruleslst, stack, calls, conns, crash, torn, alien, why>>

-----------------------------------------------------------------------------
(* The server, BFLocalServer::processMessage: an error, which may be 0, or   *)
(* the rules and their end.  What it makes of half a command is not          *)
(* modelled: it waits for the rest.                                          *)

Frame(n, type) == [i \in 1 .. Pieces(type) + 1 |-> [n |-> n, type |-> type, part |-> i - 1]]

Listing(n, k) == \* k frames with a rule, and the one that ends it
  LET rules == 3 * k IN
  [i \in 1 .. rules + 2 |->
    [n |-> n, type |-> IF i <= rules THEN "data" ELSE "done",
     part |-> IF i <= rules THEN (i - 1) % 3 ELSE i - rules - 1]]

Serve ==
  /\ asked # <<>> /\ Head(asked).op # "half" /\ crash = "no"
  /\ asked' = Tail(asked)
  /\ LET c == Head(asked) IN
     coming' \in {coming \o Frame(c.n, "err")} \cup
       (IF c.op \in {"get", "async"} THEN {coming \o Listing(c.n, k) : k \in 0 .. MaxRules} ELSE {})
  /\ UNCHANGED <<session, stream, queue, ruleslst, stack, calls, crash, torn, alien, why>>

-----------------------------------------------------------------------------
(* Answers: onReadyRead.                                                     *)

Size(piece) == Pieces(piece.type)

\* A size is read when none is known.
ReadSize ==
  /\ sock /\ crash = "no"
  /\ coming # <<>> /\ wanted = 0
  /\ coming' = Tail(coming)
  /\ wanted' = Size(Head(coming))
  /\ torn' = (torn \/ Head(coming).part # 0)
  /\ UNCHANGED <<session, buffer, queue, ruleslst, stack, asked, calls, crash, alien, why>>

ReadPart ==
  /\ sock /\ crash = "no"
  /\ coming # <<>> /\ Len(buffer) + 1 < wanted
  /\ coming' = Tail(coming)
  /\ buffer' = Append(buffer, Head(coming))
  /\ UNCHANGED <<session, wanted, queue, ruleslst, stack, asked, calls, crash, torn, alien, why>>

\* The rest of the body: a message, of which only the type is looked at.
Message(type) ==
  /\ sock /\ crash = "no"
  /\ coming # <<>> /\ Len(buffer) + 1 = wanted
  /\ Head(coming).type = type
  /\ coming' = Tail(coming)
  /\ buffer' = <<>>
  /\ LET body == Append(buffer, Head(coming)) IN
     torn' = (torn \/ \E i \in 1 .. wanted : body[i] # [Head(coming) EXCEPT !.part = i])
  /\ alien' = (alien \/ \E i \in DOMAIN stack : Head(coming).n # stack[i].n)
  /\ UNCHANGED <<session, queue, asked, calls, why>>

TakenKept == UNCHANGED wanted \* Mutant of Taken: the size is not forgotten.
Taken == wanted' = 0

\* emit error: every call but a listing ends by it.
ReadErr ==
  /\ Message("err")
  /\ Taken
  /\ \E failed \in BOOLEAN :
       stack' = [i \in DOMAIN stack |->
         IF stack[i].op = "get" THEN stack[i] ELSE [stack[i] EXCEPT !.failed = failed, !.quit = TRUE]]
  /\ UNCHANGED <<ruleslst, crash>>

\* The list that ruleslst points to does not exist.
Dead == ruleslst \in {"dead", "wild"} \/ (ruleslst = "call" /\ ~Waits("get"))

\* done(), as it reaches the listings.
Done == stack' = [i \in DOMAIN stack |->
                    IF stack[i].op = "get" THEN [stack[i] EXCEPT !.quit = TRUE] ELSE stack[i]]

\* Mutant of ReadData: a rule ends the wait instead of prolonging it.
ReadDataQuits ==
  /\ Message("data")
  /\ Taken
  /\ crash' = IF Dead THEN "dead" ELSE "no"
  /\ Done
  /\ UNCHANGED ruleslst

\* A rule is appended to the list, if ruleslst is not NULL.
ReadData ==
  /\ Message("data")
  /\ Taken
  /\ crash' = IF Dead THEN "dead" ELSE "no"
  /\ UNCHANGED <<ruleslst, stack>>

\* emit data(*ruleslst), which copies the list, and done(), which ends the wait of the
\* listings.
ReadDone ==
  /\ Message("done")
  /\ Taken
  /\ crash' = CASE ruleslst = "null" -> "null" [] Dead -> "dead" [] OTHER -> "no"
  /\ Done
  /\ ruleslst' = "null"

-----------------------------------------------------------------------------
Init ==
  /\ sock = FALSE /\ slots = 0 /\ wanted = 0 /\ buffer = <<>>
  /\ queue = <<>> /\ ruleslst = "wild" /\ stack = <<>>
  /\ asked = <<>> /\ coming = <<>>
  /\ calls = 0 /\ conns = 0 /\ crash = "no"
  /\ torn = FALSE /\ alien = FALSE /\ why = {}

Next ==
  \/ \E op \in Op : Begin(op) \/ BeginOff(op)
  \/ Return \/ NextRule \/ Timeout
  \/ Connect \/ Disconnect
  \/ Serve
  \/ ReadSize \/ ReadPart \/ ReadErr \/ ReadData \/ ReadDone

Spec == Init /\ [][Next]_vars

-----------------------------------------------------------------------------
\* bflocalcontrolprivate.cpp:70: whatever pieces the answers come in, and wherever a
\* connection breaks, a size is read where a size is and a body where a body is.
FramesWhole == ~torn

\* BFLocalControl does not look at the number of an answer (line 86).  A call gets
\* the answer to its own command all the same, unless an earlier one was given up by
\* its timer or came from the queue, a call was begun in the event loop of another or
\* beside an asynchronous listing, or one could not write its command while answers to
\* another were to come.
OwnAnswer == alien => why # {}

\* Line 110 copies the list that ruleslst points to, and MSG_DATA appends to it.  It points
\* to none only after one of the same five; and to one that is gone, as the list of a
\* getRulesSync that could not write its command is, only when other answers were to
\* come then or a queued listing has been sent.
ListsSafe ==
  /\ crash = "null" => why # {}
  /\ crash = "dead" => why \cap {"queue", "unsent"} # {}
=============================================================================
