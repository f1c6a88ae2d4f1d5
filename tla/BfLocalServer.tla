----------------------------- MODULE BfLocalServer -----------------------------
(***************************************************************************)
(* The service's local server (bf-link/bflocalserver.cpp).  It runs in one *)
(* thread, and yet two commands may be under way at once: processMessage   *)
(* calls BFControl, whose calls turn a nested event loop until the kernel  *)
(* answers, and that loop may read another client's command.  So calls     *)
(* form a stack; only the innermost one can return.  Signals of BFControl, *)
(* however, reach every call on it.                                        *)
(*                                                                         *)
(* A message to the kernel may fail to be sent.  The call then returns at  *)
(* once, and its command is answered with an error; but getRulesSync has   *)
(* set d->ruleslst by then, which is left at a list that is gone.          *)
(*                                                                         *)
(* The clients are BFLocalControl's (bf-link/bflocalcontrolprivate.cpp);   *)
(* the kernel answers at once, and sends a listing as one rule and a       *)
(* MSG_DONE (the dialogue itself is BfNetlink's).                          *)
(***************************************************************************)
EXTENDS Integers, Sequences, SequencesExt, FiniteSets

CONSTANTS
  Client,
  Calls,    \* bound: the commands a client sends
  Number,   \* the numbers generateSeq() gives the commands of each client
  Kinds,    \* the kinds of commands each client sends
  Fails,    \* the kinds of commands whose message to the kernel may fail
  Impatient,\* the kinds of commands whose timer in the service may run out
  Expires,  \* the clients whose own timers may run out
  Killed,   \* the clients that may end with a call open
  NoClient

Kind == {"change", "policyadd", "flush", "list"}
Code == {"OK", "ERR"}
Id == Client \X (1..Calls)

ASSUME ClientAssumption ==
  /\ NoClient \notin Client /\ Calls \in Nat
  /\ Number \in [Client -> [1..Calls -> Nat]]
  /\ Kinds \in [Client -> SUBSET Kind]
  /\ Fails \subseteq Kind /\ Impatient \subseteq Kind
  /\ Expires \subseteq Client /\ Killed \subseteq Client

VARIABLES
  sock,     \* the service's socket for each client
  request,  \* the commands in its buffer
  route,    \* mClientCommands: a command's number -> the client of its socket
  stack,    \* the calls of processMessage under way, the innermost last
  again,    \* the client whose onLocalReadyRead calls itself next
  netlink,  \* BFControl's receive queue
  threads,  \* the kernel's list threads: the command each works for, and its step
  filling,  \* d->ruleslst: the depth of the call whose list is filled; 0 is NULL,
            \* and WILD a pointer to nothing
  up,       \* the service has not used a pointer that is NULL or leads to nothing
  call,     \* what each client is doing
  response, \* the responses on their way to it
  \* The rest is auxiliary: no action's guard reads it.
  truth,    \* what the kernel answered to each command
  answered, \* the numbers of the commands whose responses each client was sent
  apart     \* no command was read while one of the same number was under way

server == <<sock, request, route, stack, again, up>>
kernel == <<netlink, threads>>
vars == <<server, kernel, filling, call, response, truth, answered, apart>>

WILD == -1

NumberOf(id) == Number[id[1]][id[2]]

\* What the socket object of a client is: "new" before onLocalNewConnection,
\* "stray" when destroySocket has not found it, "doomed" between deleteLater, in
\* a loop this deep, and its deletion.
Socket == [at : {"new", "open", "stray", "doomed", "gone"}, depth : Nat]
Plain(at) == [at |-> at, depth |-> 0]
Alive(s) == s.at # "gone"

Err(code, of) == [type |-> "ERR", code |-> code, of |-> of]
Data(of) == [type |-> "DATA", code |-> "OK", of |-> of]
Done(of) == [type |-> "DONE", code |-> "OK", of |-> of]

ErrResponse(n, code) == [type |-> "ERR", number |-> n, code |-> code, list |-> <<>>]
ListResponse(n, list) == [type |-> "LIST", number |-> n, code |-> "OK", list |-> list]

Top == Last(stack)
\* The innermost event loop is running, and no slot is in the middle of its work.
LoopRuns == up /\ again = NoClient /\ ~(stack # <<>> /\ Top.quit)
Reading(c) == \E i \in DOMAIN stack : stack[i].id[1] = c

-----------------------------------------------------------------------------
\* onLocalNewConnection
NewConnection(c) ==
  /\ LoopRuns
  /\ sock[c].at = "new"
  /\ sock' = [sock EXCEPT ![c] = Plain("open")]
  /\ UNCHANGED <<request, route, stack, again, up, kernel, filling, call, response, truth, answered, apart>>

\* sendResponse: the response goes to the socket that the number leads to.
SendResponse(rt, r, times) ==
  LET c == rt[r.number]
      Sent(x) == [i \in 1..times |-> x]
  IN IF r.number \in DOMAIN rt /\ sock[c].at = "open"
     THEN /\ response' = [response EXCEPT ![c] = @ \o Sent(r)]
          /\ answered' = [answered EXCEPT ![c] = @ \o Sent(r.number)]
     ELSE UNCHANGED <<response, answered>>

\* The number leads to an object that is there.
Safe(rt, n) == n \in DOMAIN rt => Alive(sock[rt[n]])

Push(id, kind) ==
  stack' = Append(stack, [id |-> id, kind |-> kind, err |-> "OK", list |-> <<>>, quit |-> FALSE])

\* addRule, updateRule, deleteRule, setChainPolicy of BFControl.
DoChange(id) ==
  \E code \in Code :
    /\ Push(id, "change")
    /\ netlink' = Append(netlink, Err(code, id))
    /\ truth' = [truth EXCEPT ![id] = code]
    /\ again' = NoClient
    /\ UNCHANGED <<up, threads, filling, response, answered>>

\* addRule of a policy pseudo rule: the kernel does not answer.
DoPolicyAdd(id) ==
  /\ Push(id, "policyadd")
  /\ again' = NoClient
  /\ UNCHANGED <<up, kernel, filling, truth, response, answered>>

\* Reading goes on at once if there is more in the buffer.
ReadOn(c) == again' = IF request'[c] # <<>> THEN c ELSE NoClient

\* The message was not sent: the call returns at once.
DoUnsent(id, kind) ==
  /\ kind \in Fails
  /\ filling' = IF kind = "list" THEN WILD ELSE filling
  /\ SendResponse(route', ErrResponse(NumberOf(id), "ERR"), 1)
  /\ ReadOn(id[1])
  /\ UNCHANGED <<stack, kernel, truth, up>>

\* BFControl::deleteRules does not wait for the kernel's answer.
DoFlush(id) ==
  /\ netlink' = Append(netlink, Err("OK", id))
  /\ truth' = [truth EXCEPT ![id] = "OK"]
  /\ SendResponse(route', ErrResponse(NumberOf(id), "OK"), 1)
  /\ ReadOn(id[1])
  /\ UNCHANGED <<stack, threads, filling, up>>

DoList(id) ==
  /\ Push(id, "list")
  /\ filling' = Len(stack) + 1
  /\ threads' = threads \cup {[of |-> id, at |-> "data"]}
  /\ again' = NoClient
  /\ UNCHANGED <<up, netlink, truth, response, answered>>

\* onLocalReadyRead, up to the call of BFControl.  readyRead() is not emitted
\* again while a slot of the same socket runs.
ReadyRead(c) ==
  /\ \/ LoopRuns /\ sock[c].at = "open" /\ ~Reading(c)
     \/ up /\ again = c
  /\ request[c] # <<>>
  /\ LET m == Head(request[c]) IN
     /\ request' = [request EXCEPT ![c] = Tail(@)]
     /\ route' = [n \in DOMAIN route \cup {NumberOf(m.id)} |->
                    IF n = NumberOf(m.id) THEN c ELSE route[n]]
     /\ \/ m.kind = "change" /\ DoChange(m.id)
        \/ m.kind = "policyadd" /\ DoPolicyAdd(m.id)
        \/ m.kind = "flush" /\ DoFlush(m.id)
        \/ m.kind = "list" /\ DoList(m.id)
        \/ DoUnsent(m.id, m.kind)
     /\ apart' = (apart /\ \A i \in DOMAIN stack : NumberOf(stack[i].id) # NumberOf(m.id))
  /\ UNCHANGED <<sock, call>>

Response(f) ==
  IF f.kind = "list" /\ f.err = "OK" THEN ListResponse(NumberOf(f.id), f.list)
                                     ELSE ErrResponse(NumberOf(f.id), f.err)

\* The call of BFControl returns; processMessage sends the response, and
\* onLocalReadyRead looks at its socket again.
Back(list, times) ==
  LET c == Top.id[1]
      n == NumberOf(Top.id)
  IN /\ up /\ again = NoClient /\ stack # <<>> /\ Top.quit
     /\ stack' = Front(stack)
     /\ filling' = list
     /\ SendResponse(route, Response(Top), times)
     /\ up' = (Safe(route, n) /\ Alive(sock[c]))
     /\ again' = IF request[c] # <<>> THEN c ELSE NoClient
     /\ UNCHANGED <<sock, request, route, kernel, call, truth, apart>>

\* Mutants of Return: a case falls into the next one; ruleslst is forgotten by
\* every call.
ReturnTwice == Back(IF Top.kind = "list" THEN 0 ELSE filling, 2)
ReturnForgetsList == Back(0, 1)

Return == Back(IF Top.kind = "list" THEN 0 ELSE filling, 1)

\* Mutant of Expire: a call waits without a timer.
ExpireOfChanges(i) ==
  /\ LoopRuns
  /\ i \in DOMAIN stack
  /\ stack[i].kind = "change"
  /\ stack' = [stack EXCEPT ![i].quit = TRUE]
  /\ UNCHANGED <<sock, request, route, again, up, kernel, filling, call, response, truth, answered, apart>>

\* The timer of any call on the stack may run out.
Expire(i) ==
  /\ LoopRuns
  /\ i \in DOMAIN stack
  /\ stack[i].kind \in Impatient
  /\ stack' = [stack EXCEPT ![i].quit = TRUE]
  /\ UNCHANGED <<sock, request, route, again, up, kernel, filling, call, response, truth, answered, apart>>

-----------------------------------------------------------------------------
(* BFControl::process, in whatever loop is innermost.                      *)

Take(type) ==
  /\ LoopRuns
  /\ netlink # <<>>
  /\ Head(netlink).type = type
  /\ netlink' = Tail(netlink)
  /\ UNCHANGED <<sock, request, route, again, threads, call, response, truth, answered, apart>>

\* error(code) reaches every call; all but getRulesSync are left for it.
NlErr ==
  LET m == Head(netlink) IN
  /\ Take("ERR")
  /\ stack' = [i \in DOMAIN stack |->
       [stack[i] EXCEPT !.err = m.code, !.quit = @ \/ stack[i].kind # "list"]]
  /\ UNCHANGED <<filling, up>>

NlData ==
  LET m == Head(netlink) IN
  /\ Take("DATA")
  /\ up' = (filling # WILD)
  /\ stack' = IF filling \in {0, WILD} THEN stack ELSE [stack EXCEPT ![filling].list = Append(@, m.of)]
  /\ UNCHANGED filling

\* data(*d->ruleslst), done(), ruleslst = NULL.
NlDone ==
  /\ Take("DONE")
  /\ up' = (filling \notin {0, WILD})
  /\ stack' = [i \in DOMAIN stack |-> [stack[i] EXCEPT !.quit = @ \/ stack[i].kind = "list"]]
  /\ filling' = 0

ThreadSends(t) ==
  /\ t \in threads
  /\ IF t.at = "data"
     THEN threads' = (threads \ {t}) \cup {[t EXCEPT !.at = "done"]} /\ netlink' = Append(netlink, Data(t.of))
     ELSE threads' = threads \ {t} /\ netlink' = Append(netlink, Done(t.of))
  /\ UNCHANGED <<server, filling, call, response, truth, answered, apart>>

-----------------------------------------------------------------------------
(* Sockets that close.                                                     *)

\* Mutant of DestroySocket: only the first number found is removed.
DestroyOne(c) ==
  LET mine == {n \in DOMAIN route : route[n] = c} IN
  /\ \E n \in (IF mine = {} THEN {0} ELSE mine) : route' = [k \in DOMAIN route \ {n} |-> route[k]]
  /\ sock' = [sock EXCEPT ![c] = IF mine = {} THEN Plain("stray")
                                 ELSE [at |-> "doomed", depth |-> Len(stack)]]

\* destroySocket: all the numbers that lead to the socket go; the socket itself
\* is deleted only if there was one.
DestroySocket(c) ==
  LET mine == {n \in DOMAIN route : route[n] = c} IN
  /\ route' = [n \in DOMAIN route \ mine |-> route[n]]
  /\ sock' = [sock EXCEPT ![c] = IF mine = {} THEN Plain("stray")
                                 ELSE [at |-> "doomed", depth |-> Len(stack)]]

\* onLocalError and onLocalDisconnected: of the two calls of destroySocket the second
\* finds nothing more to remove.  What the client had sent is read first, unless a slot
\* of the socket is running.
Disconnected(c) ==
  /\ LoopRuns
  /\ sock[c].at = "open"
  /\ call[c].at = "ended"
  /\ request[c] = <<>> \/ Reading(c)
  /\ DestroySocket(c)
  /\ UNCHANGED <<request, stack, again, up, kernel, filling, call, response, truth, answered, apart>>

\* deleteLater takes effect when a loop no deeper than the caller's runs again.
Delete(c) ==
  /\ LoopRuns
  /\ sock[c].at = "doomed" /\ Len(stack) <= sock[c].depth
  /\ sock' = [sock EXCEPT ![c] = Plain("gone")]
  /\ request' = [request EXCEPT ![c] = <<>>]
  /\ UNCHANGED <<route, stack, again, up, kernel, filling, call, response, truth, answered, apart>>

-----------------------------------------------------------------------------
(* The clients.                                                            *)

\* sendMsg, and the nested loop of the call.
Send(c, kind) ==
  /\ call[c].at = "idle"
  /\ kind \in Kinds[c]
  /\ call[c].made < Calls
  /\ LET k == call[c].made + 1 IN
     /\ call' = [call EXCEPT ![c] = [at |-> IF kind = "list" THEN "list" ELSE "wait", made |-> k]]
     /\ request' = [request EXCEPT ![c] = Append(@, [id |-> <<c, k>>, kind |-> kind])]
  /\ UNCHANGED <<sock, route, stack, again, up, kernel, filling, response, truth, answered, apart>>

\* onReadyRead: whatever the number says, a call that waits for an error takes
\* the next one; getRulesSync waits for BF_CMD_DONE.
Receive(c) ==
  /\ call[c].at # "ended"
  /\ response[c] # <<>>
  /\ response' = [response EXCEPT ![c] = Tail(@)]
  /\ call' = [call EXCEPT ![c].at =
       IF <<@, Head(response[c]).type>> \in {<<"wait", "ERR">>, <<"list", "LIST">>} THEN "idle" ELSE @]
  /\ UNCHANGED <<server, kernel, filling, truth, answered, apart>>

Timeout(c) ==
  /\ c \in Expires
  /\ call[c].at \in {"wait", "list"}
  /\ call' = [call EXCEPT ![c].at = "idle"]
  /\ UNCHANGED <<server, kernel, filling, response, truth, answered, apart>>

End(c) ==
  /\ call[c].at = "idle" \/ (c \in Killed /\ call[c].at # "ended")
  /\ call' = [call EXCEPT ![c].at = "ended"]
  /\ response' = [response EXCEPT ![c] = <<>>]
  /\ UNCHANGED <<server, kernel, filling, truth, answered, apart>>

-----------------------------------------------------------------------------
Init ==
  /\ sock = [c \in Client |-> Plain("new")]
  /\ request = [c \in Client |-> <<>>]
  /\ route = [n \in {} |-> NoClient]
  /\ stack = <<>>
  /\ again = NoClient
  /\ netlink = <<>>
  /\ threads = {}
  /\ filling = WILD
  /\ up = TRUE
  /\ call = [c \in Client |-> [at |-> "idle", made |-> 0]]
  /\ response = [c \in Client |-> <<>>]
  /\ truth = [id \in Id |-> "NONE"]
  /\ answered = [c \in Client |-> <<>>]
  /\ apart = TRUE

Serve(c) == NewConnection(c) \/ ReadyRead(c) \/ Disconnected(c) \/ Delete(c)
Process == NlErr \/ NlData \/ NlDone

Next ==
  \/ \E c \in Client : Serve(c) \/ Receive(c) \/ Timeout(c) \/ End(c)
  \/ \E c \in Client, kind \in Kind : Send(c, kind)
  \/ Return \/ Process
  \/ \E i \in 1..Cardinality(Client) : Expire(i)
  \/ \E t \in threads : ThreadSends(t)

Spec == Init /\ [][Next]_vars

\* The service's thread, its timers and the kernel's threads run.
FairSpec ==
  /\ Spec
  /\ WF_vars(Return) /\ WF_vars(Process)
  /\ \A c \in Client : WF_vars(ReadyRead(c))
  /\ \A i \in 1..Cardinality(Client) : WF_vars(Expire(i))
  /\ WF_vars(\E t \in threads : ThreadSends(t))

-----------------------------------------------------------------------------
(* Properties.                                                             *)

\* Whoever leaves and however the calls nest, a client is only sent responses that
\* bear the number of a command it has sent; and as long as no command is read while
\* another of the same number is under way, it is sent those to its own commands,
\* one for each and in their order.  (The numbers are those of qrand(), which no
\* client seeds: they are the same in every client.)
AnsweredInTurn ==
  \A c \in Client : \A i \in DOMAIN answered[c] :
    /\ \E k \in 1..call[c].made : answered[c][i] = Number[c][k]
    /\ apart => i <= Calls /\ answered[c][i] = Number[c][i]

\* As long as the numbers tell the commands apart, no number of a client that waits
\* for its answers leads to a socket that is deleted, or soon will be: a response is
\* never written through it, also when the client ends in the middle of a call.
RoutesToOpen ==
  apart => \A n \in DOMAIN route : sock[route[n]].at = "open" \/ route[n] \in Expires

\* As long as listings do not overlap, the service never fills a list that is
\* NULL or gone, whatever sends fail, and the only deleted socket it ever uses is that
\* of a client which ended with a command open: onLocalReadyRead looks at it again,
\* or the number of another command, which was read meanwhile, leads to it.
ServerSurvives ==
  [][(up /\ ~up') =>
       /\ stack # <<>> /\ Top.quit
       /\ \E c \in Client :
            /\ c = Top.id[1] \/ (~apart /\ NumberOf(Top.id) \in DOMAIN route /\ c = route[NumberOf(Top.id)])
            /\ call[c].at = "ended" /\ sock[c].at = "gone"]_vars

\* The nest of calls unwinds: the outermost command is answered, too.
ServerComesBack == (up /\ stack # <<>>) ~> (~up \/ stack = <<>>)

\* trx_data.h: the number of a command is copied into the response, to find
\* one's way in the flow of responses.  So a response that bears the number of
\* a client's command tells what became of that command, at least as long as the
\* numbers tell the commands apart.
ResponseIsTheCommands ==
  apart => \A c \in Client : \A k \in 1..Calls : \A i \in DOMAIN response[c] :
    LET r == response[c][i] IN
    (r.type = "ERR" /\ r.number = Number[c][k] /\ truth[<<c, k>>] # "NONE") => r.code = truth[<<c, k>>]
=============================================================================
