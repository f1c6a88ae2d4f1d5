-------------------------- MODULE BfLocalServerProofs --------------------------
(***************************************************************************)
(* What is proved of BfLocalServer, whatever numbers the clients give their *)
(* commands: as long as no command is read while another of the same       *)
(* number is under way, whoever waits is reached by the numbers of its     *)
(* commands (RoutesToOpen), and every client is sent the answers to its    *)
(* own commands in their order (AnsweredInTurn), however many clients there *)
(* are, however deep their calls nest, whatever sends fail and whoever     *)
(* leaves; and the service goes down only for the reasons that             *)
(* ServerSurvives names.                                                   *)
(***************************************************************************)
EXTENDS BfLocalServer, TLAPS

\* One client lists, and the service waits for the end of every listing.
OneLister ==
  /\ \A c, d \in Client : "list" \in Kinds[c] /\ "list" \in Kinds[d] => c = d
  /\ "list" \notin Impatient

-----------------------------------------------------------------------------
(* The inductive invariant.                                                *)

Frame == [id : Id, kind : Kind, err : Code, list : Seq(Id), quit : BOOLEAN]
Order == [id : Id, kind : Kind]
Message == [type : {"ERR", "DATA", "DONE"}, code : Code, of : Id]
Reply == [type : {"ERR", "LIST"}, number : Nat, code : Code, list : Seq(Id)]
Thread == [of : Id, at : {"data", "done"}]

Types ==
  /\ sock \in [Client -> [at : {"new", "open", "stray", "doomed", "gone"}, depth : Nat]]
  /\ request \in [Client -> Seq(Order)]
  /\ DOMAIN route \subseteq Nat /\ \A n \in DOMAIN route : route[n] \in Client
  /\ stack \in Seq(Frame)
  /\ again \in Client \cup {NoClient}
  /\ netlink \in Seq(Message)
  /\ threads \subseteq Thread
  /\ filling \in Nat \cup {WILD}
  /\ up \in BOOLEAN /\ apart \in BOOLEAN
  /\ call \in [Client -> [at : {"idle", "wait", "list", "ended"}, made : 0..Calls]]
  /\ response \in [Client -> Seq(Reply)]
  /\ answered \in [Client -> Seq(Nat)]

\* A client has one call on the stack at most, and none when its buffer is read on.
OneFrame ==
  /\ \A i, j \in DOMAIN stack : stack[i].id[1] = stack[j].id[1] => i = j
  /\ again # NoClient => ~Reading(again)

\* A command is of the client in whose buffer it is, was sent by it, and is of a kind
\* that it sends.
OwnOf(c) ==
  /\ \A j \in DOMAIN request[c] :
       /\ request[c][j].id[1] = c /\ request[c][j].id[2] <= call[c].made
       /\ request[c][j].kind \in Kinds[c]
  /\ \A i \in DOMAIN stack : stack[i].id[1] = c => stack[i].kind \in Kinds[c]

\* The number of a response is that of a command which its client has sent; and what
\* leads to a client is such a number, too.
HeardOf(c) == \A i \in DOMAIN answered[c] : \E k \in 1..call[c].made : answered[c][i] = Number[c][k]
Owned == \A n \in DOMAIN route : \E k \in 1..call[route[n]].made : n = Number[route[n]][k]

\* As long as they are apart, the number of a call on the stack leads to its client,
\* if it leads anywhere.
Routed ==
  apart => \A i \in DOMAIN stack :
             NumberOf(stack[i].id) \in DOMAIN route => route[NumberOf(stack[i].id)] = stack[i].id[1]

\* And the commands that are answered, on the stack and in the buffer follow each other.
Begun(c) == IF Reading(c) THEN Len(answered[c]) + 1 ELSE Len(answered[c])
TurnOf(c) ==
  apart =>
    /\ \A i \in DOMAIN answered[c] : i <= Calls /\ answered[c][i] = Number[c][i]
    /\ sock[c].at \in {"new", "open"} =>
         /\ call[c].made = Begun(c) + Len(request[c])
         /\ \A j \in DOMAIN request[c] : request[c][j].id = <<c, Begun(c) + j>>
         /\ \A i \in DOMAIN stack : stack[i].id[1] = c => stack[i].id[2] = Begun(c)

\* A socket that is open is found by the number of the call.
RoutesOf(c) ==
  /\ sock[c].at = "new" => ~Reading(c) /\ again # c /\ \A n \in DOMAIN route : route[n] # c
  /\ apart /\ sock[c].at = "open" =>
       \A i \in DOMAIN stack : stack[i].id[1] = c => NumberOf(stack[i].id) \in DOMAIN route
  /\ sock[c].at \notin {"new", "open"} => call[c].at = "ended"

\* A client that waits has one command under way at most.
WaitsOf(c) ==
  apart /\ c \notin Expires =>
    /\ again # c
    /\ Len(request[c]) <= 1 /\ Len(response[c]) <= 1
    /\ request[c] # <<>> => ~Reading(c)
    /\ response[c] # <<>> => request[c] = <<>> /\ ~Reading(c)
    /\ call[c].at = "idle" => request[c] = <<>> /\ response[c] = <<>> /\ ~Reading(c)
    /\ sock[c].at # "open" => \A n \in DOMAIN route : route[n] # c

ClientInv(c) == OwnOf(c) /\ HeardOf(c) /\ TurnOf(c) /\ RoutesOf(c) /\ WaitsOf(c)

IInv == Types /\ OneFrame /\ Owned /\ Routed /\ \A c \in Client : ClientInv(c)

\* The list that is filled is that of a listing on the stack, which waits as long
\* as the kernel has something to send of it.
Dones == {i \in DOMAIN netlink : netlink[i].type = "DONE"}
Datas == {i \in DOMAIN netlink : netlink[i].type = "DATA"}
Filling ==
  /\ filling \notin {0, WILD} => filling \in DOMAIN stack /\ stack[filling].kind = "list"
  /\ \A t, u \in threads : t = u
  /\ \A i, j \in Dones : i = j
  /\ \A i \in Datas, j \in Dones : i < j
  /\ threads # {} => Dones = {}
  /\ threads # {} \/ Dones # {} \/ Datas # {} => filling \notin {0, WILD} /\ ~stack[filling].quit

-----------------------------------------------------------------------------
(* Sequences.                                                              *)

\* Appending.
LEMMA AppendSeq ==
  ASSUME NEW T, NEW s \in Seq(T), NEW x \in T
  PROVE  /\ Append(s, x) \in Seq(T) /\ Len(Append(s, x)) = Len(s) + 1
         /\ DOMAIN Append(s, x) = 1..Len(s) + 1 /\ DOMAIN s = 1..Len(s) /\ Len(s) \in Nat
         /\ \A i \in DOMAIN s : Append(s, x)[i] = s[i]
         /\ Append(s, x)[Len(s) + 1] = x
<1>1. Append(s, x) \in Seq(T) /\ Len(Append(s, x)) = Len(s) + 1 /\ Len(s) \in Nat
  OBVIOUS
<1>2. DOMAIN Append(s, x) = 1..Len(s) + 1 /\ DOMAIN s = 1..Len(s)
  BY <1>1
<1>3. \A i \in DOMAIN s : Append(s, x)[i] = s[i]
  BY <1>1, <1>2
<1>4. Append(s, x)[Len(s) + 1] = x
  OBVIOUS
<1> QED
  BY <1>1, <1>2, <1>3, <1>4

\* The first element, and the rest.
LEMMA TailSeq ==
  ASSUME NEW T, NEW s \in Seq(T), s # <<>>
  PROVE  /\ Head(s) \in T /\ Head(s) = s[1] /\ 1 \in DOMAIN s
         /\ Tail(s) \in Seq(T) /\ Len(Tail(s)) = Len(s) - 1 /\ Len(s) \in Nat \ {0}
         /\ DOMAIN Tail(s) = 1..Len(s) - 1 /\ DOMAIN s = 1..Len(s)
         /\ \A i \in DOMAIN Tail(s) : i + 1 \in DOMAIN s /\ Tail(s)[i] = s[i + 1]
<1>1. Len(s) \in Nat /\ Len(s) > 0 /\ DOMAIN s = 1..Len(s)
  OBVIOUS
<1>2. Head(s) \in T /\ Head(s) = s[1] /\ 1 \in DOMAIN s
  BY <1>1
<1>3. Tail(s) \in Seq(T) /\ Len(Tail(s)) = Len(s) - 1
  BY <1>1
<1>4. DOMAIN Tail(s) = 1..Len(s) - 1
  BY <1>3
<1>5. \A i \in DOMAIN Tail(s) : i + 1 \in DOMAIN s /\ Tail(s)[i] = s[i + 1]
  BY <1>1, <1>4
<1> QED
  BY <1>1, <1>2, <1>3, <1>4, <1>5

\* A sequence with one element or none.
LEMMA ShortTail ==
  ASSUME NEW T, NEW s \in Seq(T), s # <<>>, Len(s) <= 1
  PROVE  Tail(s) = <<>>
<1>1. PICK n \in Nat : n = Len(s) /\ n # 0
  BY TailSeq
<1>2. Tail(s) \in Seq(T) /\ Len(Tail(s)) = n - 1
  BY <1>1, TailSeq
<1>3. Len(Tail(s)) = 0
  BY <1>1, <1>2
<1> QED
  BY <1>2, <1>3

\* All but the last element.
LEMMA FrontSeq ==
  ASSUME NEW T, NEW s \in Seq(T), s # <<>>
  PROVE  /\ Last(s) \in T /\ Last(s) = s[Len(s)] /\ Len(s) \in DOMAIN s
         /\ Front(s) \in Seq(T) /\ Len(Front(s)) = Len(s) - 1 /\ Len(s) \in Nat \ {0}
         /\ DOMAIN Front(s) = 1..Len(s) - 1 /\ DOMAIN s = 1..Len(s)
         /\ \A i \in DOMAIN Front(s) : i \in DOMAIN s /\ i # Len(s) /\ Front(s)[i] = s[i]
<1>1. Len(s) \in Nat /\ Len(s) > 0 /\ DOMAIN s = 1..Len(s)
  OBVIOUS
<1>2. Last(s) \in T /\ Last(s) = s[Len(s)] /\ Len(s) \in DOMAIN s
  BY <1>1 DEF Last
<1>3. \A i \in 1..Len(s) - 1 : s[i] \in T
  BY <1>1
<1>4. Front(s) \in Seq(T) /\ Len(Front(s)) = Len(s) - 1
  BY <1>1, <1>3 DEF Front
<1>5. DOMAIN Front(s) = 1..Len(s) - 1
  BY <1>4
<1>6. \A i \in 1..Len(s) - 1 : Front(s)[i] = s[i]
  BY <1>1, <1>3 DEF Front
<1> QED
  BY <1>1, <1>2, <1>4, <1>5, <1>6

\* One more element, in the form that sendResponse has it.
LEMMA OneMore ==
  ASSUME NEW T, NEW s \in Seq(T), NEW x \in T, NEW r, r = s \o [i \in 1..1 |-> x]
  PROVE  /\ r \in Seq(T) /\ Len(r) = Len(s) + 1
         /\ DOMAIN r = 1..Len(s) + 1 /\ DOMAIN s = 1..Len(s) /\ Len(s) \in Nat
         /\ \A i \in DOMAIN s : r[i] = s[i]
         /\ r[Len(s) + 1] = x
<1>1. PICK one : one = [i \in 1..1 |-> x]
  OBVIOUS
<1>2. one \in Seq(T) /\ Len(one) = 1 /\ one[1] = x
  <2>1. one = <<x>>
    BY <1>1
  <2> QED
    BY <2>1
<1>3. r = s \o one
  BY <1>1
<1>4. r \in Seq(T) /\ Len(r) = Len(s) + 1 /\ Len(s) \in Nat
  BY <1>2, <1>3
<1>5. DOMAIN r = 1..Len(s) + 1 /\ DOMAIN s = 1..Len(s)
  BY <1>4
<1>6. \A i \in 1..Len(s) : r[i] = s[i]
  BY <1>2, <1>3, <1>4
<1>7. r[Len(s) + 1] = x
  BY <1>2, <1>3, <1>4
<1> QED
  BY <1>4, <1>5, <1>6, <1>7

-----------------------------------------------------------------------------
(* What a step does to the stack and to the clients.                       *)

\* The step leaves client d alone.
Kept(d) ==
  /\ request'[d] = request[d] /\ sock'[d] = sock[d] /\ call'[d] = call[d]
  /\ response'[d] = response[d] /\ answered'[d] = answered[d]
  /\ again' = d => again = d
  /\ apart' => apart
  /\ Reading(d)' <=> Reading(d)
  /\ \A i \in DOMAIN stack' : stack'[i].id[1] = d =>
       i \in DOMAIN stack /\ stack'[i].id = stack[i].id /\ stack'[i].kind = stack[i].kind
  /\ \A n \in DOMAIN route' : route'[n] = d => n \in DOMAIN route /\ route[n] = d
  /\ apart => \A i \in DOMAIN stack : stack[i].id[1] = d =>
       (NumberOf(stack[i].id) \in DOMAIN route => NumberOf(stack[i].id) \in DOMAIN route')

\* What is known of a client stays while it is left alone.
LEMMA KeptInv ==
  ASSUME NEW d \in Client, ClientInv(d), Kept(d)
  PROVE  ClientInv(d)'
<1>1. OwnOf(d)'
  BY DEF ClientInv, Kept, OwnOf
<1>2. TurnOf(d)'
  <2>1. Begun(d)' = Begun(d)
    BY DEF Kept, Begun
  <2> QED
    BY <2>1 DEF ClientInv, Kept, TurnOf
<1>3. RoutesOf(d)'
  BY DEF ClientInv, Kept, RoutesOf, NumberOf
<1>4. WaitsOf(d)'
  BY DEF ClientInv, Kept, WaitsOf
<1>5. HeardOf(d)'
  BY DEF ClientInv, Kept, HeardOf
<1> QED
  BY <1>1, <1>2, <1>3, <1>4, <1>5 DEF ClientInv

\* A step that touches the calls under way only in what they have heard.
SameCalls ==
  /\ DOMAIN stack' = DOMAIN stack
  /\ \A i \in DOMAIN stack : stack'[i].id = stack[i].id /\ stack'[i].kind = stack[i].kind

LEMMA SameReading ==
  ASSUME SameCalls
  PROVE  \A d : Reading(d)' <=> Reading(d)
BY DEF SameCalls, Reading

\* A call more on the stack.
LEMMA Pushed ==
  ASSUME Types, OneFrame, NEW f \in Frame, ~Reading(f.id[1]), stack' = Append(stack, f)
  PROVE  /\ stack' \in Seq(Frame)
         /\ \A d : Reading(d)' <=> Reading(d) \/ d = f.id[1]
         /\ \A i, j \in DOMAIN stack' : stack'[i].id[1] = stack'[j].id[1] => i = j
         /\ \A i \in DOMAIN stack' :
              (i \in DOMAIN stack /\ stack'[i] = stack[i]) \/ (i = Len(stack) + 1 /\ stack'[i] = f)
         /\ \A i \in DOMAIN stack : i \in DOMAIN stack' /\ stack'[i] = stack[i]
<1>1. PICK n \in Nat : n = Len(stack)
  BY DEF Types
<1>2. /\ stack' \in Seq(Frame) /\ DOMAIN stack' = 1..n + 1 /\ DOMAIN stack = 1..n
      /\ \A i \in DOMAIN stack : stack'[i] = stack[i]
      /\ stack'[n + 1] = f
  BY <1>1, AppendSeq DEF Types
<1>3. \A i \in DOMAIN stack' :
        (i \in DOMAIN stack /\ stack'[i] = stack[i]) \/ (i = n + 1 /\ stack'[i] = f)
  BY <1>2
<1>4. \A i \in DOMAIN stack : i \in DOMAIN stack' /\ stack'[i] = stack[i]
  BY <1>2
<1>5. n + 1 \in DOMAIN stack'
  BY <1>2
<1>6. \A d : Reading(d)' <=> Reading(d) \/ d = f.id[1]
  BY <1>2, <1>3, <1>4, <1>5 DEF Reading
<1>7. \A i, j \in DOMAIN stack' : stack'[i].id[1] = stack'[j].id[1] => i = j
  BY <1>3 DEF Reading, OneFrame
<1> QED
  BY <1>1, <1>2, <1>3, <1>4, <1>6, <1>7

\* The innermost call returns.
LEMMA Popped ==
  ASSUME Types, OneFrame, stack # <<>>, stack' = Front(stack)
  PROVE  /\ stack' \in Seq(Frame) /\ Top \in Frame /\ Len(stack) \in DOMAIN stack
         /\ stack[Len(stack)] = Top /\ Reading(Top.id[1])
         /\ \A d : Reading(d)' <=> Reading(d) /\ d # Top.id[1]
         /\ \A i, j \in DOMAIN stack' : stack'[i].id[1] = stack'[j].id[1] => i = j
         /\ \A i \in DOMAIN stack' : i \in DOMAIN stack /\ stack'[i] = stack[i] /\ i # Len(stack)
         /\ \A i \in DOMAIN stack : i # Len(stack) => i \in DOMAIN stack'
<1>1. PICK n \in Nat \ {0} : n = Len(stack)
  BY FrontSeq DEF Types
<1>2. /\ stack' \in Seq(Frame) /\ DOMAIN stack' = 1..n - 1 /\ DOMAIN stack = 1..n
      /\ \A i \in DOMAIN stack' : i \in DOMAIN stack /\ i # n /\ stack'[i] = stack[i]
      /\ Top \in Frame /\ stack[n] = Top /\ n \in DOMAIN stack
  BY <1>1, FrontSeq DEF Types, Top
<1>3. \A i \in DOMAIN stack : i # n => i \in DOMAIN stack'
  BY <1>2
<1>4. Reading(Top.id[1])
  BY <1>2 DEF Reading
<1>5. \A i \in DOMAIN stack' : stack'[i].id[1] # Top.id[1]
  BY <1>2 DEF OneFrame
<1>6. \A d : Reading(d)' <=> Reading(d) /\ d # Top.id[1]
  BY <1>2, <1>3, <1>5 DEF Reading
<1>7. \A i, j \in DOMAIN stack' : stack'[i].id[1] = stack'[j].id[1] => i = j
  BY <1>2 DEF OneFrame
<1> QED
  BY <1>1, <1>2, <1>3, <1>4, <1>6, <1>7

\* A response goes to the client that its number leads to, if the socket is open.
Gets(d, rt, n) == n \in DOMAIN rt /\ rt[n] = d /\ sock[d].at = "open"

LEMMA Sends ==
  ASSUME Types, NEW rt, \A n \in DOMAIN rt : rt[n] \in Client, NEW r \in Reply, SendResponse(rt, r, 1)
  PROVE  /\ response' \in [Client -> Seq(Reply)] /\ answered' \in [Client -> Seq(Nat)]
         /\ \A d \in Client :
              /\ ~Gets(d, rt, r.number) => response'[d] = response[d] /\ answered'[d] = answered[d]
              /\ Gets(d, rt, r.number) =>
                   /\ Len(response'[d]) = Len(response[d]) + 1
                   /\ Len(answered'[d]) = Len(answered[d]) + 1
                   /\ DOMAIN answered'[d] = 1..Len(answered[d]) + 1
                   /\ DOMAIN answered[d] = 1..Len(answered[d])
                   /\ \A i \in DOMAIN answered[d] : answered'[d][i] = answered[d][i]
                   /\ answered'[d][Len(answered[d]) + 1] = r.number
<1>1. CASE r.number \in DOMAIN rt /\ sock[rt[r.number]].at = "open"
  <2>1. PICK c \in Client : c = rt[r.number]
    BY <1>1
  <2>2. /\ response' = [response EXCEPT ![c] = response[c] \o [i \in 1..1 |-> r]]
        /\ answered' = [answered EXCEPT ![c] = answered[c] \o [i \in 1..1 |-> r.number]]
    BY <1>1, <2>1 DEF SendResponse
  <2>3. r.number \in Nat /\ response[c] \in Seq(Reply) /\ answered[c] \in Seq(Nat)
    BY DEF Types, Reply
  <2>4. response'[c] = response[c] \o [i \in 1..1 |-> r] /\ \A d \in Client \ {c} : response'[d] = response[d]
    BY <2>2 DEF Types
  <2>5. /\ answered'[c] = answered[c] \o [i \in 1..1 |-> r.number]
        /\ \A d \in Client \ {c} : answered'[d] = answered[d]
    BY <2>2 DEF Types
  <2>6. response'[c] \in Seq(Reply) /\ Len(response'[c]) = Len(response[c]) + 1
    BY <2>3, <2>4, OneMore
  <2>7. /\ answered'[c] \in Seq(Nat) /\ Len(answered'[c]) = Len(answered[c]) + 1
        /\ DOMAIN answered'[c] = 1..Len(answered[c]) + 1
        /\ DOMAIN answered[c] = 1..Len(answered[c])
        /\ \A i \in DOMAIN answered[c] : answered'[c][i] = answered[c][i]
        /\ answered'[c][Len(answered[c]) + 1] = r.number
    BY <2>3, <2>5, OneMore
  <2>8. response' \in [Client -> Seq(Reply)]
    BY <2>2, <2>4, <2>6 DEF Types
  <2>9. answered' \in [Client -> Seq(Nat)]
    BY <2>2, <2>5, <2>7 DEF Types
  <2>10. \A d \in Client : Gets(d, rt, r.number) <=> d = c
    BY <1>1, <2>1 DEF Gets
  <2> QED
    BY <2>4, <2>5, <2>6, <2>7, <2>8, <2>9, <2>10
<1>2. CASE ~(r.number \in DOMAIN rt /\ sock[rt[r.number]].at = "open")
  <2>1. response' = response /\ answered' = answered
    BY <1>2 DEF SendResponse
  <2>2. \A d \in Client : ~Gets(d, rt, r.number)
    BY <1>2 DEF Gets
  <2> QED
    BY <2>1, <2>2 DEF Types
<1> QED
  BY <1>1, <1>2

\* The command that onLocalReadyRead takes from the buffer.
LEMMA Reads ==
  ASSUME Types, NEW c \in Client, OwnOf(c), ReadyRead(c)
  PROVE  \E k \in 1..Calls, m \in Order :
           /\ request[c] # <<>> /\ m = request[c][1] /\ 1 \in DOMAIN request[c]
           /\ m.id = <<c, k>> /\ NumberOf(m.id) = Number[c][k] /\ m.kind \in Kinds[c]
           /\ Number[c][k] \in Nat /\ k <= call[c].made
           /\ request' = [request EXCEPT ![c] = Tail(request[c])]
           /\ request'[c] = Tail(request[c]) /\ \A d \in Client \ {c} : request'[d] = request[d]
           /\ route' = [n \in DOMAIN route \cup {Number[c][k]} |-> IF n = Number[c][k] THEN c ELSE route[n]]
           /\ UNCHANGED <<sock, call>>
           /\ \/ m.kind = "change" /\ DoChange(m.id)
              \/ m.kind = "policyadd" /\ DoPolicyAdd(m.id)
              \/ m.kind = "flush" /\ DoFlush(m.id)
              \/ m.kind = "list" /\ DoList(m.id)
              \/ DoUnsent(m.id, m.kind)
           /\ apart' = (apart /\ \A i \in DOMAIN stack : NumberOf(stack[i].id) # Number[c][k])
<1>1. request[c] # <<>> /\ request[c] \in Seq(Order)
  BY DEF ReadyRead, Types
<1>2. PICK m : m = Head(request[c])
  OBVIOUS
<1>3. m \in Order /\ m = request[c][1] /\ 1 \in DOMAIN request[c]
  BY <1>1, <1>2, TailSeq
<1>4. m.id \in Id /\ m.id[1] = c /\ m.id[2] <= call[c].made /\ m.kind \in Kinds[c]
  BY <1>3 DEF OwnOf, Order
<1>5. PICK k \in 1..Calls : m.id = <<c, k>>
  BY <1>4 DEF Id
<1>6. NumberOf(m.id) = Number[c][k] /\ Number[c][k] \in Nat
  BY <1>5, ClientAssumption DEF NumberOf
<1>7. /\ request' = [request EXCEPT ![c] = Tail(request[c])]
      /\ route' = [n \in DOMAIN route \cup {NumberOf(m.id)} |-> IF n = NumberOf(m.id) THEN c ELSE route[n]]
      /\ UNCHANGED <<sock, call>>
      /\ \/ m.kind = "change" /\ DoChange(m.id)
         \/ m.kind = "policyadd" /\ DoPolicyAdd(m.id)
         \/ m.kind = "flush" /\ DoFlush(m.id)
         \/ m.kind = "list" /\ DoList(m.id)
         \/ DoUnsent(m.id, m.kind)
      /\ apart' = (apart /\ \A i \in DOMAIN stack : NumberOf(stack[i].id) # NumberOf(m.id))
  BY <1>2 DEF ReadyRead
<1>8. request'[c] = Tail(request[c]) /\ \A d \in Client \ {c} : request'[d] = request[d]
  BY <1>7 DEF Types
<1>9. k <= call[c].made
  BY <1>4, <1>5
<1>10. \/ m.kind = "change" /\ DoChange(m.id)
       \/ m.kind = "policyadd" /\ DoPolicyAdd(m.id)
       \/ m.kind = "flush" /\ DoFlush(m.id)
       \/ m.kind = "list" /\ DoList(m.id)
       \/ DoUnsent(m.id, m.kind)
  BY <1>7
<1>11. PICK n : n = Number[c][k]
  OBVIOUS
<1>12. /\ route' = [i \in DOMAIN route \cup {n} |-> IF i = n THEN c ELSE route[i]]
       /\ apart' = (apart /\ \A i \in DOMAIN stack : NumberOf(stack[i].id) # n)
  BY <1>6, <1>7, <1>11
<1> WITNESS k \in 1..Calls
<1> m \in Order
  BY <1>3
<1> WITNESS m \in Order
<1> QED
  BY <1>1, <1>3, <1>4, <1>5, <1>6, <1>7, <1>8, <1>9, <1>10, <1>11, <1>12

-----------------------------------------------------------------------------
(* Steps in which no call begins or returns.                               *)

\* The calls stay, with what they have heard changed.
LEMMA SameStack ==
  ASSUME Types, stack' = [i \in DOMAIN stack |-> stack'[i]],
         \A i \in DOMAIN stack : /\ stack'[i] \in Frame
                                 /\ stack'[i].id = stack[i].id /\ stack'[i].kind = stack[i].kind
  PROVE  stack' \in Seq(Frame) /\ SameCalls
<1>1. DOMAIN stack = 1..Len(stack) /\ Len(stack) \in Nat
  BY DEF Types
<1>2. DOMAIN stack' = DOMAIN stack
  OBVIOUS
<1>3. stack' \in Seq(Frame)
  BY <1>1
<1> QED
  BY <1>2, <1>3 DEF SameCalls

\* Such a step preserves the invariant.
LEMMA QuietStep ==
  ASSUME IInv, SameCalls, Types',
         UNCHANGED <<sock, request, route, again, call, response, answered, apart>>
  PROVE  IInv'
<1>1. \A d : Reading(d)' <=> Reading(d)
  BY SameReading
<1>2. ASSUME NEW d \in Client PROVE ClientInv(d)'
  <2>1. Kept(d)
    BY <1>1 DEF Kept, SameCalls
  <2> QED
    BY <2>1, KeptInv DEF IInv
<1>3. OneFrame'
  BY <1>1 DEF IInv, OneFrame, SameCalls
<1>4. Owned'
  BY DEF IInv, Owned
<1>5. Routed'
  BY DEF IInv, Routed, SameCalls, NumberOf
<1> QED
  BY <1>2, <1>3, <1>4, <1>5 DEF IInv

\* A timer runs out.
LEMMA ExpireStep ==
  ASSUME IInv, NEW i, Expire(i)
  PROVE  IInv'
<1> USE DEF IInv
<1>1. i \in DOMAIN stack /\ stack' = [stack EXCEPT ![i] = [stack[i] EXCEPT !.quit = TRUE]]
  BY DEF Expire
<1>2. stack \in [DOMAIN stack -> Frame]
  BY DEF Types
<1>3. [stack[i] EXCEPT !.quit = TRUE] \in Frame
  BY <1>1, <1>2 DEF Frame
<1>4. stack' = [j \in DOMAIN stack |-> stack'[j]]
  BY <1>1
<1>5. \A j \in DOMAIN stack : /\ stack'[j] \in Frame
                              /\ stack'[j].id = stack[j].id /\ stack'[j].kind = stack[j].kind
  BY <1>1, <1>2, <1>3 DEF Frame
<1>6. stack' \in Seq(Frame) /\ SameCalls
  BY <1>4, <1>5, SameStack
<1>7. UNCHANGED <<sock, request, route, again, up, kernel, filling, call, response, truth, answered, apart>>
  BY DEF Expire
<1>8. Types'
  BY <1>6, <1>7 DEF Types, kernel
<1> QED
  BY <1>6, <1>7, <1>8, QuietStep

\* BFControl hears of an error.
LEMMA NlErrStep ==
  ASSUME IInv, NlErr
  PROVE  IInv'
<1> USE DEF IInv
<1>1. PICK m : m = Head(netlink)
  OBVIOUS
<1>2. netlink # <<>> /\ netlink' = Tail(netlink)
  BY DEF NlErr, Take
<1>3. m \in Message /\ netlink' \in Seq(Message)
  BY <1>1, <1>2, TailSeq DEF Types
<1>4. stack' = [i \in DOMAIN stack |->
        [stack[i] EXCEPT !.err = m.code, !.quit = stack[i].quit \/ stack[i].kind # "list"]]
  BY <1>1 DEF NlErr
<1>5. stack \in [DOMAIN stack -> Frame]
  BY DEF Types
<1>6. \A j \in DOMAIN stack : /\ stack'[j] \in Frame
                              /\ stack'[j].id = stack[j].id /\ stack'[j].kind = stack[j].kind
  <2> SUFFICES ASSUME NEW j \in DOMAIN stack
               PROVE  /\ stack'[j] \in Frame
                      /\ stack'[j].id = stack[j].id /\ stack'[j].kind = stack[j].kind
    OBVIOUS
  <2>1. stack[j] \in Frame
    BY <1>5
  <2>2. PICK q \in BOOLEAN : q = (stack[j].quit \/ stack[j].kind # "list")
    OBVIOUS
  <2>3. stack'[j] = [stack[j] EXCEPT !.err = m.code, !.quit = q]
    BY <1>4, <2>2
  <2>4. m.code \in Code
    BY <1>3 DEF Message
  <2> QED
    BY <2>1, <2>3, <2>4 DEF Frame
<1>7. stack' \in Seq(Frame) /\ SameCalls
  BY <1>4, <1>6, SameStack
<1>8. UNCHANGED <<sock, request, route, again, threads, call, response, truth, answered, apart, filling, up>>
  BY DEF NlErr, Take
<1>9. Types'
  BY <1>3, <1>7, <1>8 DEF Types
<1> QED
  BY <1>7, <1>8, <1>9, QuietStep

\* BFControl hears of a rule.
LEMMA NlDataStep ==
  ASSUME IInv, NlData
  PROVE  IInv'
<1> USE DEF IInv
<1>1. PICK m : m = Head(netlink)
  OBVIOUS
<1>2. netlink # <<>> /\ netlink' = Tail(netlink)
  BY DEF NlData, Take
<1>3. m \in Message /\ netlink' \in Seq(Message)
  BY <1>1, <1>2, TailSeq DEF Types
<1>4. stack \in [DOMAIN stack -> Frame]
  BY DEF Types
<1>5. stack' \in Seq(Frame) /\ SameCalls
  <2>1. CASE stack' = stack
    BY <2>1 DEF Types, SameCalls
  <2>2. CASE filling \in DOMAIN stack /\ stack' # stack
    <3>0. filling \notin {0, WILD}
      BY <2>2 DEF NlData
    <3>1. PICK r : r = [stack[filling] EXCEPT !.list = Append(stack[filling].list, m.of)]
      OBVIOUS
    <3>2. stack' = [stack EXCEPT ![filling] = r]
      BY <1>1, <2>2, <3>0, <3>1 DEF NlData
    <3>3. stack[filling] \in Frame
      BY <1>4, <2>2
    <3>4. Append(stack[filling].list, m.of) \in Seq(Id)
      BY <1>3, <3>3 DEF Frame, Message
    <3>5. r \in Frame /\ r.id = stack[filling].id /\ r.kind = stack[filling].kind
      BY <3>1, <3>3, <3>4 DEF Frame
    <3>6. stack' = [j \in DOMAIN stack |-> stack'[j]]
      BY <3>2
    <3>7. \A j \in DOMAIN stack : /\ stack'[j] \in Frame
                                  /\ stack'[j].id = stack[j].id /\ stack'[j].kind = stack[j].kind
      BY <1>4, <2>2, <3>2, <3>5
    <3> QED
      BY <3>6, <3>7, SameStack
  <2>3. CASE filling \notin DOMAIN stack
    <3>1. stack' = stack
      BY <1>4, <2>3 DEF NlData
    <3> QED
      BY <2>1, <3>1
  <2> QED
    BY <2>1, <2>2, <2>3
<1>6. UNCHANGED <<sock, request, route, again, threads, call, response, truth, answered, apart, filling>>
  BY DEF NlData, Take
<1>7. up' \in BOOLEAN
  BY DEF NlData
<1>8. Types'
  BY <1>3, <1>5, <1>6, <1>7 DEF Types
<1> QED
  BY <1>5, <1>6, <1>8, QuietStep

\* BFControl hears of the end of a listing.
LEMMA NlDoneStep ==
  ASSUME IInv, NlDone
  PROVE  IInv'
<1> USE DEF IInv
<1>1. netlink # <<>> /\ netlink' = Tail(netlink)
  BY DEF NlDone, Take
<1>2. netlink' \in Seq(Message)
  BY <1>1, TailSeq DEF Types
<1>3. stack' = [i \in DOMAIN stack |-> [stack[i] EXCEPT !.quit = stack[i].quit \/ stack[i].kind = "list"]]
  BY DEF NlDone
<1>4. stack \in [DOMAIN stack -> Frame]
  BY DEF Types
<1>5. \A j \in DOMAIN stack : /\ stack'[j] \in Frame
                              /\ stack'[j].id = stack[j].id /\ stack'[j].kind = stack[j].kind
  <2> SUFFICES ASSUME NEW j \in DOMAIN stack
               PROVE  /\ stack'[j] \in Frame
                      /\ stack'[j].id = stack[j].id /\ stack'[j].kind = stack[j].kind
    OBVIOUS
  <2>1. stack[j] \in Frame
    BY <1>4
  <2>2. PICK q \in BOOLEAN : q = (stack[j].quit \/ stack[j].kind = "list")
    OBVIOUS
  <2>3. stack'[j] = [stack[j] EXCEPT !.quit = q]
    BY <1>3, <2>2
  <2> QED
    BY <2>1, <2>3 DEF Frame
<1>6. stack' \in Seq(Frame) /\ SameCalls
  BY <1>3, <1>5, SameStack
<1>7. UNCHANGED <<sock, request, route, again, threads, call, response, truth, answered, apart>>
  BY DEF NlDone, Take
<1>8. filling' \in Nat \cup {WILD} /\ up' \in BOOLEAN
  BY DEF NlDone
<1>9. Types'
  BY <1>2, <1>6, <1>7, <1>8 DEF Types
<1> QED
  BY <1>6, <1>7, <1>9, QuietStep

\* A list thread sends its rule, or the end of the listing.
LEMMA ThreadStep ==
  ASSUME IInv, NEW t, ThreadSends(t)
  PROVE  IInv'
<1> USE DEF IInv
<1>1. t \in Thread
  BY DEF ThreadSends, Types
<1>2. UNCHANGED <<sock, request, route, stack, again, up, filling, call, response, truth, answered, apart>>
  BY DEF ThreadSends, server
<1>3. threads' \subseteq Thread /\ netlink' \in Seq(Message)
  <2>1. CASE t.at = "data"
    <3>1. /\ threads' = (threads \ {t}) \cup {[t EXCEPT !.at = "done"]}
          /\ netlink' = Append(netlink, Data(t.of))
      BY <2>1 DEF ThreadSends
    <3>2. [t EXCEPT !.at = "done"] \in Thread /\ Data(t.of) \in Message
      BY <1>1 DEF Thread, Message, Data, Code
    <3>3. threads \subseteq Thread /\ netlink \in Seq(Message)
      BY DEF Types
    <3>4. threads' \subseteq Thread
      BY <3>1, <3>2, <3>3
    <3>5. PICK d \in Message : d = Data(t.of)
      BY <3>2
    <3>6. Append(netlink, d) \in Seq(Message)
      BY <3>3, AppendSeq
    <3> QED
      BY <3>1, <3>4, <3>5, <3>6
  <2>2. CASE t.at # "data"
    <3>1. threads' = threads \ {t} /\ netlink' = Append(netlink, Done(t.of))
      BY <2>2 DEF ThreadSends
    <3>2. Done(t.of) \in Message
      BY <1>1 DEF Thread, Message, Done, Code
    <3>3. threads \subseteq Thread /\ netlink \in Seq(Message)
      BY DEF Types
    <3>4. PICK d \in Message : d = Done(t.of)
      BY <3>2
    <3>5. Append(netlink, d) \in Seq(Message)
      BY <3>3, AppendSeq
    <3> QED
      BY <3>1, <3>3, <3>4, <3>5
  <2> QED
    BY <2>1, <2>2
<1>4. Types'
  BY <1>2, <1>3 DEF Types
<1>5. SameCalls
  BY <1>2 DEF SameCalls
<1> QED
  BY <1>2, <1>4, <1>5, QuietStep

-----------------------------------------------------------------------------
(* Steps of one client, or about its socket.                               *)

\* It is enough to look at that client, if the step leaves the others alone.
LEMMA OneClient ==
  ASSUME IInv, NEW c \in Client, Types', OneFrame', Owned', Routed', \A d \in Client \ {c} : Kept(d), ClientInv(c)'
  PROVE  IInv'
<1>1. \A d \in Client \ {c} : ClientInv(d)'
  BY KeptInv DEF IInv
<1> QED
  BY <1>1 DEF IInv

\* onLocalNewConnection: nothing leads to the socket, and no call is of its client.
LEMMA NewConnectionStep ==
  ASSUME IInv, NEW c \in Client, NewConnection(c)
  PROVE  IInv'
<1> USE DEF IInv
<1>1. /\ sock[c].at = "new" /\ sock' = [sock EXCEPT ![c] = Plain("open")]
      /\ UNCHANGED <<request, route, stack, again, up, netlink, threads, filling, call, response, answered, apart>>
  BY DEF NewConnection, kernel
<1>2. sock'[c].at = "open" /\ \A d \in Client \ {c} : sock'[d] = sock[d]
  BY <1>1 DEF Types, Plain
<1>3. Types'
  BY <1>1 DEF Types, Plain
<1>4. \A d : Reading(d)' <=> Reading(d)
  BY <1>1 DEF Reading
<1>5. OneFrame' /\ Owned' /\ Routed'
  BY <1>1, <1>4 DEF OneFrame, Owned, Routed, NumberOf
<1>6. \A d \in Client \ {c} : Kept(d)
  BY <1>1, <1>2, <1>4 DEF Kept
<1>7. Begun(c)' = Begun(c)
  BY <1>1, <1>4 DEF Begun
<1>8. OwnOf(c)' /\ HeardOf(c)' /\ TurnOf(c)'
  BY <1>1, <1>2, <1>7 DEF ClientInv, OwnOf, HeardOf, TurnOf
<1>9. ~Reading(c)
  BY <1>1 DEF ClientInv, RoutesOf
<1>10. RoutesOf(c)'
  BY <1>1, <1>2, <1>9 DEF RoutesOf, Reading
<1>11. WaitsOf(c)'
  BY <1>1, <1>2, <1>4 DEF ClientInv, WaitsOf
<1> QED
  BY <1>3, <1>5, <1>6, <1>8, <1>10, <1>11, OneClient DEF ClientInv

\* onLocalDisconnected: the numbers of the client go, and only those.
LEMMA DisconnectedStep ==
  ASSUME IInv, NEW c \in Client, Disconnected(c)
  PROVE  IInv'
<1>0. Types /\ OneFrame /\ Owned /\ Routed /\ ClientInv(c)
  BY DEF IInv
<1>1. /\ call[c].at = "ended"
      /\ UNCHANGED <<request, stack, again, up, netlink, threads, filling, call, response, answered, apart>>
  BY DEF Disconnected, kernel
<1>2. PICK mine : mine = {n \in DOMAIN route : route[n] = c}
  OBVIOUS
<1>3. PICK s : s = IF mine = {} THEN Plain("stray") ELSE [at |-> "doomed", depth |-> Len(stack)]
  OBVIOUS
<1>4. s.at \in {"stray", "doomed"} /\ s \in [at : {"new", "open", "stray", "doomed", "gone"}, depth : Nat]
  <2>1. Len(stack) \in Nat
    BY <1>0 DEF Types
  <2> QED
    BY <1>3, <2>1 DEF Plain
<1>5. route' = [n \in DOMAIN route \ mine |-> route[n]] /\ sock' = [sock EXCEPT ![c] = s]
  BY <1>2, <1>3 DEF Disconnected, DestroySocket
<1>6. sock'[c] = s /\ \A d \in Client \ {c} : sock'[d] = sock[d]
  BY <1>0, <1>5 DEF Types
<1>7. /\ \A n \in DOMAIN route' : n \in DOMAIN route /\ route'[n] = route[n] /\ route'[n] # c
      /\ \A n \in DOMAIN route : route[n] # c => n \in DOMAIN route'
  BY <1>2, <1>5
<1>8. Types'
  BY <1>0, <1>1, <1>4, <1>5, <1>7 DEF Types
<1>9. \A d : Reading(d)' <=> Reading(d)
  BY <1>1 DEF Reading
<1>10. OneFrame' /\ Owned' /\ Routed'
  <2>1. OneFrame' /\ Owned'
    BY <1>0, <1>1, <1>7, <1>9 DEF OneFrame, Owned
  <2>2. Routed'
    BY <1>0, <1>1, <1>7 DEF Routed, NumberOf
  <2> QED
    BY <2>1, <2>2
<1>11. ASSUME NEW d \in Client \ {c} PROVE Kept(d)
  <2>1. apart => \A i \in DOMAIN stack : stack[i].id[1] = d =>
          (NumberOf(stack[i].id) \in DOMAIN route => NumberOf(stack[i].id) \in DOMAIN route')
    BY <1>0, <1>7 DEF Routed
  <2> QED
    BY <1>1, <1>6, <1>7, <1>9, <2>1 DEF Kept
<1>12. OwnOf(c)' /\ HeardOf(c)'
  BY <1>0, <1>1 DEF ClientInv, OwnOf, HeardOf
<1>13. TurnOf(c)'
  BY <1>0, <1>1, <1>4, <1>6 DEF ClientInv, TurnOf
<1>14. RoutesOf(c)'
  BY <1>1, <1>4, <1>6 DEF RoutesOf
<1>15. WaitsOf(c)'
  BY <1>0, <1>1, <1>7, <1>9 DEF ClientInv, WaitsOf
<1> QED
  BY <1>8, <1>10, <1>11, <1>12, <1>13, <1>14, <1>15, OneClient DEF ClientInv

\* The socket is deleted, and what is left in its buffer with it.
LEMMA DeleteStep ==
  ASSUME IInv, NEW c \in Client, Delete(c)
  PROVE  IInv'
<1>0. Types /\ OneFrame /\ Owned /\ Routed /\ ClientInv(c)
  BY DEF IInv
<1>1. /\ sock[c].at = "doomed"
      /\ sock' = [sock EXCEPT ![c] = Plain("gone")] /\ request' = [request EXCEPT ![c] = <<>>]
      /\ UNCHANGED <<route, stack, again, up, netlink, threads, filling, call, response, answered, apart>>
  BY DEF Delete, kernel
<1>2. sock'[c].at = "gone" /\ \A d \in Client \ {c} : sock'[d] = sock[d]
  BY <1>0, <1>1 DEF Types, Plain
<1>3. request'[c] = <<>> /\ \A d \in Client \ {c} : request'[d] = request[d]
  BY <1>0, <1>1 DEF Types
<1>4. Types'
  BY <1>0, <1>1 DEF Types, Plain
<1>5. \A d : Reading(d)' <=> Reading(d)
  BY <1>1 DEF Reading
<1>6. OneFrame' /\ Owned' /\ Routed'
  BY <1>0, <1>1, <1>5 DEF OneFrame, Owned, Routed, NumberOf
<1>7. \A d \in Client \ {c} : Kept(d)
  BY <1>1, <1>2, <1>3, <1>5 DEF Kept
<1>8. OwnOf(c)' /\ HeardOf(c)'
  BY <1>0, <1>1, <1>3 DEF ClientInv, OwnOf, HeardOf
<1>9. TurnOf(c)'
  BY <1>0, <1>1, <1>2 DEF ClientInv, TurnOf
<1>10. RoutesOf(c)'
  BY <1>0, <1>1, <1>2 DEF ClientInv, RoutesOf
<1>11. WaitsOf(c)'
  BY <1>0, <1>1, <1>3, <1>5 DEF ClientInv, WaitsOf
<1> QED
  BY <1>4, <1>6, <1>7, <1>8, <1>9, <1>10, <1>11, OneClient DEF ClientInv

\* The numbers that lead to a client stay its own.
LEMMA OwnedStays ==
  ASSUME Types, Types', Owned, \A d \in Client : call[d].made <= call'[d].made,
         \A n \in DOMAIN route' : n \in DOMAIN route /\ route'[n] = route[n]
  PROVE  Owned'
<1>1. SUFFICES ASSUME NEW n \in DOMAIN route'
               PROVE  \E k \in 1..call'[route'[n]].made : n = Number[route'[n]][k]
  BY DEF Owned
<1>2. PICK d \in Client : d = route'[n] /\ d = route[n]
  BY DEF Types
<1>3. PICK k \in 1..call[d].made : n = Number[d][k]
  BY <1>2 DEF Owned
<1>4. call[d].made \in Nat /\ call'[d].made \in Nat /\ call[d].made <= call'[d].made
  <2>1. call[d] \in [at : {"idle", "wait", "list", "ended"}, made : 0..Calls]
    BY DEF Types
  <2>2. call'[d] \in [at : {"idle", "wait", "list", "ended"}, made : 0..Calls]
    BY DEF Types
  <2>3. 0..Calls \subseteq Nat
    BY ClientAssumption
  <2> QED
    BY <2>1, <2>2, <2>3
<1>5. k \in 1..call'[d].made
  BY <1>4
<1> QED
  BY <1>2, <1>3, <1>5

\* What a client does beside the service: its calls, its buffers.
LEMMA ClientSide ==
  ASSUME IInv, NEW c \in Client, Types',
         UNCHANGED <<sock, route, stack, again, answered, apart>>,
         \A d \in Client \ {c} : call'[d] = call[d] /\ request'[d] = request[d] /\ response'[d] = response[d],
         call[c].made <= call'[c].made,
         OwnOf(c)', TurnOf(c)', RoutesOf(c)', WaitsOf(c)'
  PROVE  IInv'
<1>0. Types /\ ClientInv(c)
  BY DEF IInv
<1>1. \A d : Reading(d)' <=> Reading(d)
  BY DEF Reading
<1>2. OneFrame' /\ Routed'
  BY <1>1 DEF IInv, OneFrame, Routed, NumberOf
<1>3. \A d \in Client \ {c} : Kept(d)
  BY <1>1 DEF Kept
<1>4. \A d \in Client : call[d].made \in Nat /\ call'[d].made \in Nat /\ call[d].made <= call'[d].made
  <2>1. call \in [Client -> [at : {"idle", "wait", "list", "ended"}, made : 0..Calls]]
    BY <1>0 DEF Types
  <2>2. call' \in [Client -> [at : {"idle", "wait", "list", "ended"}, made : 0..Calls]]
    BY DEF Types
  <2>3. \A i \in 0..Calls : i \in Nat /\ i <= i
    BY ClientAssumption
  <2>4. \A d \in Client : call[d].made \in Nat /\ call'[d].made \in Nat
    BY <2>1, <2>2, <2>3
  <2> QED
    BY <2>4
<1>5. Owned'
  BY <1>0, <1>4, OwnedStays DEF IInv
<1>6. HeardOf(c)'
  <2>1. SUFFICES ASSUME NEW i \in DOMAIN answered[c]
                 PROVE  \E k \in 1..call'[c].made : answered[c][i] = Number[c][k]
    BY DEF HeardOf
  <2>2. PICK k \in 1..call[c].made : answered[c][i] = Number[c][k]
    BY <1>0 DEF ClientInv, HeardOf
  <2>3. k \in 1..call'[c].made
    BY <1>4
  <2> QED
    BY <2>2, <2>3
<1> QED
  BY <1>2, <1>3, <1>5, <1>6, OneClient DEF ClientInv

\* A client sends a command: only an idle one does.
LEMMA SendStep ==
  ASSUME IInv, NEW c \in Client, NEW kind \in Kind, Send(c, kind)
  PROVE  IInv'
<1>0. Types /\ ClientInv(c)
  BY DEF IInv
<1>1. PICK k : k = call[c].made + 1
  OBVIOUS
<1>2. /\ call[c].at = "idle" /\ kind \in Kinds[c] /\ call[c].made < Calls
      /\ call' = [call EXCEPT ![c] = [at |-> IF kind = "list" THEN "list" ELSE "wait", made |-> k]]
      /\ request' = [request EXCEPT ![c] = Append(request[c], [id |-> <<c, k>>, kind |-> kind])]
      /\ UNCHANGED <<sock, route, stack, again, up, netlink, threads, filling, response, answered, apart>>
  BY <1>1 DEF Send, kernel
<1>3. call[c].made \in 0..Calls /\ Calls \in Nat
  BY <1>0, ClientAssumption DEF Types
<1>4. k \in 1..Calls
  BY <1>1, <1>2, <1>3
<1>5. PICK m : m = [id |-> <<c, k>>, kind |-> kind]
  OBVIOUS
<1>6. m \in Order /\ m.id = <<c, k>> /\ m.kind = kind
  BY <1>4, <1>5 DEF Order, Id
<1>7. request[c] \in Seq(Order)
  BY <1>0 DEF Types
<1>8. request'[c] = Append(request[c], m) /\ \A d \in Client \ {c} : request'[d] = request[d]
  BY <1>0, <1>2, <1>5 DEF Types
<1>9. PICK n \in Nat : n = Len(request[c])
  BY <1>7
<1>10. /\ request'[c] \in Seq(Order) /\ Len(request'[c]) = n + 1
       /\ DOMAIN request'[c] = 1..n + 1 /\ DOMAIN request[c] = 1..n
       /\ \A j \in DOMAIN request[c] : request'[c][j] = request[c][j]
       /\ request'[c][n + 1] = m
  BY <1>6, <1>7, <1>8, <1>9, AppendSeq
<1>11. call'[c].made = k /\ call'[c].at \in {"wait", "list"} /\ \A d \in Client \ {c} : call'[d] = call[d]
  BY <1>0, <1>2 DEF Types
<1>12. call' \in [Client -> [at : {"idle", "wait", "list", "ended"}, made : 0..Calls]]
  <2>1. k \in 0..Calls
    BY <1>4
  <2> QED
    BY <1>0, <1>2, <2>1 DEF Types
<1>13. request' \in [Client -> Seq(Order)]
  BY <1>0, <1>2, <1>8, <1>10 DEF Types
<1>14. Types'
  BY <1>0, <1>2, <1>12, <1>13 DEF Types
<1>15. \A d : Reading(d)' <=> Reading(d)
  BY <1>2 DEF Reading
<1>16. OwnOf(c)'
  <2>1. \A j \in DOMAIN request'[c] : j \in DOMAIN request[c] \/ j = n + 1
    BY <1>10
  <2>2. m.id[2] = k /\ k <= k
    BY <1>4, <1>6
  <2>3. \A j \in DOMAIN request[c] : request[c][j].id[2] <= k
    <3>1. SUFFICES ASSUME NEW j \in DOMAIN request[c]
                   PROVE  request[c][j].id[2] <= k
      OBVIOUS
    <3>2. request[c][j].id \in Id
      <4>1. request[c][j] \in Order
        BY <1>7
      <4> QED
        BY <4>1 DEF Order
    <3>3. PICK i \in 1..Calls : i = request[c][j].id[2]
      BY <3>2 DEF Id
    <3>4. i <= call[c].made
      BY <1>0, <3>3 DEF ClientInv, OwnOf
    <3> QED
      BY <1>1, <1>3, <3>3, <3>4
  <2>4. \A j \in DOMAIN request'[c] : request'[c][j].id[2] <= call'[c].made
    BY <1>10, <1>11, <2>1, <2>2, <2>3
  <2> QED
    BY <1>0, <1>2, <1>6, <1>10, <2>1, <2>4 DEF ClientInv, OwnOf
<1>17. sock[c].at \in {"new", "open"}
  BY <1>0, <1>2 DEF ClientInv, RoutesOf
<1>18. TurnOf(c)'
  <2>0. SUFFICES ASSUME apart
                 PROVE  TurnOf(c)'
    BY <1>2 DEF TurnOf
  <2>1. PICK b : b = Begun(c)
    OBVIOUS
  <2>2. Begun(c)' = b
    BY <1>2, <1>15, <2>1 DEF Begun
  <2>3. b \in Nat
    BY <1>0, <2>1 DEF Begun, Types
  <2>4. /\ call[c].made = b + n
        /\ \A j \in DOMAIN request[c] : request[c][j].id = <<c, b + j>>
        /\ \A i \in DOMAIN stack : stack[i].id[1] = c => stack[i].id[2] = b
        /\ \A i \in DOMAIN answered[c] : i <= Calls /\ answered[c][i] = Number[c][i]
    BY <1>0, <1>9, <1>17, <2>0, <2>1 DEF ClientInv, TurnOf
  <2>5. k = b + (n + 1)
    BY <1>1, <2>3, <2>4
  <2>6. \A j \in DOMAIN request'[c] : request'[c][j].id = <<c, b + j>>
    BY <1>6, <1>10, <2>4, <2>5
  <2> QED
    BY <1>2, <1>10, <1>11, <2>2, <2>4, <2>5, <2>6 DEF TurnOf
<1>19. RoutesOf(c)'
  <2>1. sock'[c].at \in {"new", "open"}
    BY <1>2, <1>17
  <2> QED
    BY <1>0, <1>2, <1>15, <2>1 DEF ClientInv, RoutesOf, NumberOf
<1>20. WaitsOf(c)'
  <2>1. SUFFICES ASSUME apart, c \notin Expires
                 PROVE  WaitsOf(c)'
    BY <1>2 DEF WaitsOf
  <2>2. request[c] = <<>> /\ response[c] = <<>> /\ ~Reading(c) /\ again # c
    BY <1>0, <1>2, <2>1 DEF ClientInv, WaitsOf
  <2>3. n = 0
    BY <1>9, <2>2
  <2>4. Len(request'[c]) <= 1
    BY <1>10, <2>3
  <2>5. Len(response'[c]) <= 1 /\ response'[c] = <<>>
    BY <1>2, <2>2
  <2>6. sock'[c].at # "open" => \A r \in DOMAIN route' : route'[r] # c
    BY <1>0, <1>2, <2>1 DEF ClientInv, WaitsOf
  <2>7. ~Reading(c)' /\ again' # c /\ call'[c].at # "idle"
    BY <1>2, <1>11, <1>15, <2>2
  <2> QED
    BY <2>4, <2>5, <2>6, <2>7 DEF WaitsOf
<1>21. \A d \in Client \ {c} : call'[d] = call[d] /\ request'[d] = request[d] /\ response'[d] = response[d]
  BY <1>2, <1>8, <1>11
<1>22. call[c].made <= call'[c].made
  BY <1>1, <1>3, <1>11
<1> QED
  BY <1>2, <1>14, <1>16, <1>18, <1>19, <1>20, <1>21, <1>22, ClientSide

\* Another way for a call to go on, with nothing sent: the client's part of the invariant
\* that is about the service stays.
LEMMA CallGoesOn ==
  ASSUME IInv, NEW c \in Client, NEW at \in {"idle", "wait", "list", "ended"}, NEW r \in Seq(Reply),
         call' = [call EXCEPT ![c].at = at], response' = [response EXCEPT ![c] = r],
         UNCHANGED <<sock, request, route, stack, again, up, netlink, threads, filling, answered, apart>>,
         call[c].at = "ended" => at = "ended", WaitsOf(c)'
  PROVE  IInv'
<1>0. Types /\ ClientInv(c)
  BY DEF IInv
<1>1. call'[c].at = at /\ call'[c].made = call[c].made /\ \A d \in Client \ {c} : call'[d] = call[d]
  BY <1>0 DEF Types
<1>2. response'[c] = r /\ \A d \in Client \ {c} : response'[d] = response[d]
  BY <1>0 DEF Types
<1>3. Types'
  BY <1>0 DEF Types
<1>4. Begun(c)' = Begun(c)
  BY DEF Begun, Reading
<1>5. OwnOf(c)' /\ TurnOf(c)'
  BY <1>0, <1>1, <1>4 DEF ClientInv, OwnOf, TurnOf
<1>6. RoutesOf(c)'
  BY <1>0, <1>1 DEF ClientInv, RoutesOf, Reading, NumberOf
<1>7. call[c].made <= call'[c].made
  <2>1. call[c].made \in Nat
    BY <1>0, ClientAssumption DEF Types
  <2> QED
    BY <1>1, <2>1
<1> QED
  BY <1>1, <1>2, <1>3, <1>5, <1>6, <1>7, ClientSide

\* onReadyRead of a client, its timer, and its end.
LEMMA ReceiveStep ==
  ASSUME IInv, NEW c \in Client, Receive(c)
  PROVE  IInv'
<1>0. Types /\ ClientInv(c)
  BY DEF IInv
<1>1. PICK at : at = IF <<call[c].at, Head(response[c]).type>> \in {<<"wait", "ERR">>, <<"list", "LIST">>}
                     THEN "idle" ELSE call[c].at
  OBVIOUS
<1>2. /\ call[c].at # "ended" /\ response[c] # <<>>
      /\ response' = [response EXCEPT ![c] = Tail(response[c])]
      /\ call' = [call EXCEPT ![c].at = at]
      /\ UNCHANGED <<sock, request, route, stack, again, up, netlink, threads, filling, answered, apart>>
  BY <1>1 DEF Receive, server, kernel
<1>3. at \in {"idle", "wait", "list", "ended"}
  BY <1>0, <1>1 DEF Types
<1>4. response[c] \in Seq(Reply) /\ Tail(response[c]) \in Seq(Reply)
  BY <1>0, <1>2, TailSeq DEF Types
<1>5. WaitsOf(c)'
  <2>1. SUFFICES ASSUME apart, c \notin Expires
                 PROVE  WaitsOf(c)'
    BY <1>2 DEF WaitsOf
  <2>2. /\ again # c /\ Len(request[c]) <= 1 /\ Len(response[c]) <= 1 /\ request[c] = <<>> /\ ~Reading(c)
        /\ sock[c].at # "open" => \A n \in DOMAIN route : route[n] # c
    BY <1>0, <1>2, <2>1 DEF ClientInv, WaitsOf
  <2>3. Tail(response[c]) = <<>>
    BY <1>2, <1>4, <2>2, ShortTail
  <2>4. response'[c] = <<>> /\ Len(response'[c]) <= 1
    <3>1. c \in DOMAIN response
      BY <1>0 DEF Types
    <3>2. response'[c] = Tail(response[c])
      BY <1>2, <3>1
    <3>3. response'[c] = <<>>
      BY <2>3, <3>2
    <3>4. PICK x : x = response'[c]
      OBVIOUS
    <3>5. x = <<>>
      BY <3>3, <3>4
    <3>6. Len(x) <= 1
      BY <3>5
    <3> QED
      BY <3>3, <3>4, <3>6
  <2>5. ~Reading(c)'
    BY <1>2, <2>2 DEF Reading
  <2> QED
    BY <1>2, <2>2, <2>4, <2>5 DEF WaitsOf
<1> QED
  BY <1>2, <1>3, <1>4, <1>5, CallGoesOn

LEMMA TimeoutStep ==
  ASSUME IInv, NEW c \in Client, Timeout(c)
  PROVE  IInv'
<1>0. Types
  BY DEF IInv
<1>1. /\ c \in Expires /\ call[c].at \in {"wait", "list"} /\ call' = [call EXCEPT ![c].at = "idle"]
      /\ UNCHANGED <<sock, request, route, stack, again, up, netlink, threads, filling, response, answered, apart>>
  BY DEF Timeout, server, kernel
<1>2. response' = [response EXCEPT ![c] = response[c]] /\ response[c] \in Seq(Reply)
  BY <1>0, <1>1 DEF Types
<1>3. WaitsOf(c)'
  BY <1>1 DEF WaitsOf
<1> QED
  BY <1>1, <1>2, <1>3, CallGoesOn

LEMMA EndStep ==
  ASSUME IInv, NEW c \in Client, End(c)
  PROVE  IInv'
<1>0. Types /\ ClientInv(c)
  BY DEF IInv
<1>1. /\ call' = [call EXCEPT ![c].at = "ended"] /\ response' = [response EXCEPT ![c] = <<>>]
      /\ UNCHANGED <<sock, request, route, stack, again, up, netlink, threads, filling, answered, apart>>
  BY DEF End, server, kernel
<1>2. call'[c].at = "ended" /\ response'[c] = <<>> /\ <<>> \in Seq(Reply)
  BY <1>0, <1>1 DEF Types
<1>3. WaitsOf(c)'
  BY <1>0, <1>1, <1>2 DEF ClientInv, WaitsOf, Reading
<1> QED
  BY <1>1, <1>2, <1>3, CallGoesOn

-----------------------------------------------------------------------------
(* A command is read.                                                      *)

\* What holds of the command taken and of the number that leads to its client.
Taken(c, k, m) ==
  /\ m.id = <<c, k>> /\ m.id \in Id /\ m.kind \in Kinds[c] /\ NumberOf(m.id) = Number[c][k]
  /\ Number[c][k] \in Nat /\ k <= call[c].made
  /\ apart' => apart /\ \A i \in DOMAIN stack : NumberOf(stack[i].id) # Number[c][k]
  /\ apart' \in BOOLEAN
  /\ ~Reading(c) /\ sock[c].at # "new" /\ (apart /\ c \notin Expires => sock[c].at = "open")
  /\ apart /\ sock[c].at = "open" => k = Begun(c) + 1
  /\ request[c] # <<>> /\ request'[c] = Tail(request[c])
  /\ request' \in [Client -> Seq(Order)] /\ \A d \in Client \ {c} : request'[d] = request[d]
  /\ UNCHANGED <<sock, call>>
  /\ DOMAIN route' = DOMAIN route \cup {Number[c][k]} /\ route'[Number[c][k]] = c
  /\ \A n \in DOMAIN route' : route'[n] # c => n \in DOMAIN route /\ route'[n] = route[n]
  /\ \A n \in DOMAIN route' : n # Number[c][k] => n \in DOMAIN route /\ route'[n] = route[n]
  /\ \A n \in DOMAIN route' : route'[n] \in Client
  /\ Owned'

LEMMA ReadStart ==
  ASSUME IInv, NEW c \in Client, ReadyRead(c)
  PROVE  \E k \in 1..Calls, m \in Order :
           /\ Taken(c, k, m)
           /\ \/ m.kind = "change" /\ DoChange(m.id)
              \/ m.kind = "policyadd" /\ DoPolicyAdd(m.id)
              \/ m.kind = "flush" /\ DoFlush(m.id)
              \/ m.kind = "list" /\ DoList(m.id)
              \/ DoUnsent(m.id, m.kind)
<1>0. Types /\ OneFrame /\ Owned /\ Routed /\ ClientInv(c)
  BY DEF IInv
<1>1. c # NoClient
  BY ClientAssumption
<1>2. (LoopRuns /\ sock[c].at = "open" /\ ~Reading(c)) \/ again = c
  BY DEF ReadyRead
<1>3. ~Reading(c)
  BY <1>0, <1>1, <1>2 DEF OneFrame
<1>4. sock[c].at # "new" /\ (apart /\ c \notin Expires => sock[c].at = "open")
  BY <1>0, <1>2 DEF ClientInv, RoutesOf, WaitsOf
<1>5. OwnOf(c)
  BY <1>0 DEF ClientInv
<1>6. PICK k \in 1..Calls, m \in Order :
        /\ request[c] # <<>> /\ m = request[c][1] /\ 1 \in DOMAIN request[c]
        /\ m.id = <<c, k>> /\ NumberOf(m.id) = Number[c][k] /\ m.kind \in Kinds[c]
        /\ Number[c][k] \in Nat /\ k <= call[c].made
        /\ request' = [request EXCEPT ![c] = Tail(request[c])]
        /\ request'[c] = Tail(request[c]) /\ \A d \in Client \ {c} : request'[d] = request[d]
        /\ route' = [n \in DOMAIN route \cup {Number[c][k]} |-> IF n = Number[c][k] THEN c ELSE route[n]]
        /\ UNCHANGED <<sock, call>>
        /\ \/ m.kind = "change" /\ DoChange(m.id)
           \/ m.kind = "policyadd" /\ DoPolicyAdd(m.id)
           \/ m.kind = "flush" /\ DoFlush(m.id)
           \/ m.kind = "list" /\ DoList(m.id)
           \/ DoUnsent(m.id, m.kind)
        /\ apart' = (apart /\ \A i \in DOMAIN stack : NumberOf(stack[i].id) # Number[c][k])
  BY <1>0, <1>5, Reads
<1>7. m.id \in Id
  BY DEF Order
<1>8. apart /\ sock[c].at = "open" => k = Begun(c) + 1
  <2>1. SUFFICES ASSUME apart, sock[c].at = "open"
                 PROVE  k = Begun(c) + 1
    OBVIOUS
  <2>2. m.id = <<c, Begun(c) + 1>>
    BY <1>0, <1>6, <2>1 DEF ClientInv, TurnOf
  <2> QED
    BY <1>6, <2>2
<1>9. request' \in [Client -> Seq(Order)]
  <2>1. Tail(request[c]) \in Seq(Order)
    BY <1>0, <1>6, TailSeq DEF Types
  <2> QED
    BY <1>0, <1>6, <2>1 DEF Types
<1>10. PICK n0 : n0 = Number[c][k]
  OBVIOUS
<1>11. route' = [n \in DOMAIN route \cup {n0} |-> IF n = n0 THEN c ELSE route[n]]
  BY <1>6, <1>10
<1>12. /\ DOMAIN route' = DOMAIN route \cup {n0} /\ route'[n0] = c
       /\ \A n \in DOMAIN route' : route'[n] # c => n \in DOMAIN route /\ route'[n] = route[n]
       /\ \A n \in DOMAIN route' : (n = n0 /\ route'[n] = c) \/ (n \in DOMAIN route /\ route'[n] = route[n])
       /\ \A n \in DOMAIN route' : n # n0 => n \in DOMAIN route /\ route'[n] = route[n]
  BY <1>11
<1>13. \A n \in DOMAIN route' : route'[n] \in Client
  BY <1>0, <1>12 DEF Types
<1>14. Owned'
  BY <1>0, <1>6, <1>10, <1>12 DEF Owned
<1>15. apart' \in BOOLEAN
  BY <1>0, <1>6 DEF Types
<1>16. Taken(c, k, m)
  BY <1>15, <1>3, <1>4, <1>6, <1>7, <1>8, <1>9, <1>10, <1>12, <1>13, <1>14 DEF Taken
<1> QED
  BY <1>6, <1>16

\* The rest of the buffer.
LEMMA RestOfBuffer ==
  ASSUME IInv, NEW c \in Client, NEW k \in 1..Calls, NEW m \in Order, Taken(c, k, m)
  PROVE  /\ \A j \in DOMAIN request'[c] :
              /\ request'[c][j].id[1] = c /\ request'[c][j].id[2] <= call[c].made
              /\ request'[c][j].kind \in Kinds[c]
         /\ apart /\ sock[c].at = "open" =>
              /\ Begun(c) \in Nat /\ Begun(c) = Len(answered[c])
              /\ call[c].made = Begun(c) + 1 + Len(request'[c])
              /\ \A j \in DOMAIN request'[c] : request'[c][j].id = <<c, Begun(c) + 1 + j>>
         /\ apart /\ c \notin Expires =>
              request'[c] = <<>> /\ response[c] = <<>> /\ again # c /\ call[c].at # "idle"
<1>0. Types /\ ClientInv(c)
  BY DEF IInv
<1>1. request[c] \in Seq(Order) /\ request[c] # <<>> /\ request'[c] = Tail(request[c])
  BY <1>0 DEF Types, Taken
<1>2. PICK n \in Nat \ {0} : n = Len(request[c])
  BY <1>1, TailSeq
<1>3. /\ Len(request'[c]) = n - 1 /\ DOMAIN request'[c] = 1..n - 1 /\ DOMAIN request[c] = 1..n
      /\ \A j \in DOMAIN request'[c] : j + 1 \in DOMAIN request[c] /\ request'[c][j] = request[c][j + 1]
  BY <1>1, <1>2, TailSeq
<1>4. \A j \in DOMAIN request'[c] :
        /\ request'[c][j].id[1] = c /\ request'[c][j].id[2] <= call[c].made
        /\ request'[c][j].kind \in Kinds[c]
  BY <1>0, <1>3 DEF ClientInv, OwnOf
<1>5. ASSUME apart, sock[c].at = "open"
      PROVE  /\ Begun(c) \in Nat /\ Begun(c) = Len(answered[c])
             /\ call[c].made = Begun(c) + 1 + Len(request'[c])
             /\ \A j \in DOMAIN request'[c] : request'[c][j].id = <<c, Begun(c) + 1 + j>>
  <2>1. Begun(c) = Len(answered[c]) /\ Len(answered[c]) \in Nat
    BY <1>0 DEF Taken, Begun, Types
  <2>2. PICK b \in Nat : b = Begun(c)
    BY <2>1
  <2>3. call[c].made = b + n /\ \A j \in DOMAIN request[c] : request[c][j].id = <<c, b + j>>
    BY <1>0, <1>2, <1>5, <2>2 DEF ClientInv, TurnOf
  <2>4. call[c].made = b + 1 + Len(request'[c])
    BY <1>3, <2>3
  <2>5. \A j \in DOMAIN request'[c] : j \in Nat /\ request'[c][j].id = <<c, b + (j + 1)>>
    <3>1. SUFFICES ASSUME NEW j \in DOMAIN request'[c]
                   PROVE  j \in Nat /\ request'[c][j].id = <<c, b + (j + 1)>>
      OBVIOUS
    <3>2. j \in Nat /\ j + 1 \in DOMAIN request[c] /\ request'[c][j] = request[c][j + 1]
      BY <1>3
    <3>3. request[c][j + 1].id = <<c, b + (j + 1)>>
      BY <2>3, <3>2
    <3> QED
      BY <3>2, <3>3
  <2>6. \A j \in DOMAIN request'[c] : request'[c][j].id = <<c, b + 1 + j>>
    BY <2>5
  <2> QED
    BY <2>1, <2>2, <2>4, <2>6
<1>6. ASSUME apart, c \notin Expires
      PROVE  request'[c] = <<>> /\ response[c] = <<>> /\ again # c /\ call[c].at # "idle"
  BY <1>0, <1>1, <1>6, ShortTail DEF ClientInv, WaitsOf
<1> QED
  BY <1>4, <1>5, <1>6

\* A command that the service waits for.
LEMMA ReadPush ==
  ASSUME IInv, NEW c \in Client, NEW k \in 1..Calls, NEW m \in Order, Taken(c, k, m),
         Push(m.id, m.kind), again' = NoClient, UNCHANGED <<response, answered>>, Types'
  PROVE  IInv'
<1>0. Types /\ OneFrame /\ ClientInv(c) /\ NoClient \notin Client
  BY ClientAssumption DEF IInv
<1>1. PICK f : f = [id |-> m.id, kind |-> m.kind, err |-> "OK", list |-> <<>>, quit |-> FALSE]
  OBVIOUS
<1>2. f \in Frame /\ f.id = m.id /\ f.kind = m.kind
  BY <1>1 DEF Frame, Order, Code
<1>3. f.id = <<c, k>> /\ f.id[1] = c /\ ~Reading(c)
  BY <1>2 DEF Taken
<1>4. stack' = Append(stack, f)
  BY <1>1 DEF Push
<1>5. /\ \A d : Reading(d)' <=> Reading(d) \/ d = f.id[1]
      /\ \A i, j \in DOMAIN stack' : stack'[i].id[1] = stack'[j].id[1] => i = j
      /\ \A i \in DOMAIN stack' :
           (i \in DOMAIN stack /\ stack'[i] = stack[i]) \/ (i = Len(stack) + 1 /\ stack'[i] = f)
      /\ \A i \in DOMAIN stack : i \in DOMAIN stack' /\ stack'[i] = stack[i]
  BY <1>0, <1>2, <1>3, <1>4, Pushed
<1>6. OneFrame'
  BY <1>5 DEF OneFrame
<1>7. ASSUME NEW d \in Client \ {c} PROVE Kept(d)
  <2>1. Reading(d)' <=> Reading(d)
    BY <1>3, <1>5
  <2>2. \A i \in DOMAIN stack' : stack'[i].id[1] = d => i \in DOMAIN stack /\ stack'[i] = stack[i]
    BY <1>3, <1>5
  <2>3. \A n \in DOMAIN route' : route'[n] = d => n \in DOMAIN route /\ route[n] = d
    BY DEF Taken
  <2>4. \A n \in DOMAIN route : n \in DOMAIN route'
    BY DEF Taken
  <2>5. request'[d] = request[d] /\ UNCHANGED <<sock, call>>
    BY DEF Taken
  <2>6. apart' => apart
    BY DEF Taken
  <2> QED
    BY <1>0, <2>1, <2>2, <2>3, <2>4, <2>5, <2>6 DEF Kept
<1>8. \A i \in DOMAIN stack' : stack'[i].id[1] = c => stack'[i] = f
  BY <1>3, <1>5 DEF Reading
<1>9. Reading(c)'
  BY <1>3, <1>5
<1>10. UNCHANGED <<sock, call>>
  BY DEF Taken
<1>11. OwnOf(c)' /\ HeardOf(c)'
  <2>1. m.kind \in Kinds[c]
    BY DEF Taken
  <2> QED
    BY <1>0, <1>2, <1>8, <1>10, <2>1, RestOfBuffer DEF ClientInv, OwnOf, HeardOf
<1>12. TurnOf(c)'
  <2>0. SUFFICES ASSUME apart'
                 PROVE  TurnOf(c)'
    BY DEF TurnOf
  <2> apart
    BY <2>0 DEF Taken
  <2>1. \A i \in DOMAIN answered'[c] : i <= Calls /\ answered'[c][i] = Number[c][i]
    BY <1>0 DEF ClientInv, TurnOf
  <2>2. SUFFICES ASSUME sock[c].at = "open"
                 PROVE  /\ call'[c].made = Begun(c)' + Len(request'[c])
                        /\ \A j \in DOMAIN request'[c] : request'[c][j].id = <<c, Begun(c)' + j>>
                        /\ \A i \in DOMAIN stack' : stack'[i].id[1] = c => stack'[i].id[2] = Begun(c)'
    BY <1>10, <2>1 DEF TurnOf, Taken
  <2>3. Begun(c)' = Begun(c) + 1
    BY <1>9, <2>2, RestOfBuffer DEF Begun
  <2>4. k = Begun(c) + 1
    BY <2>2 DEF Taken
  <2> QED
    BY <1>3, <1>8, <1>10, <2>2, <2>3, <2>4, RestOfBuffer
<1>13. RoutesOf(c)'
  <2>1. NumberOf(f.id) = Number[c][k] /\ Number[c][k] \in DOMAIN route'
    BY <1>2 DEF Taken
  <2>2. \A i \in DOMAIN stack' : stack'[i].id[1] = c => NumberOf(stack'[i].id) \in DOMAIN route'
    BY <1>8, <2>1
  <2>3. sock[c].at # "new"
    BY DEF Taken
  <2> QED
    BY <1>0, <1>10, <2>2, <2>3 DEF ClientInv, RoutesOf
<1>14. WaitsOf(c)'
  <2>1. SUFFICES ASSUME apart, c \notin Expires
                 PROVE  WaitsOf(c)'
    BY DEF WaitsOf, Taken
  <2>2. request'[c] = <<>> /\ response'[c] = <<>> /\ again' # c /\ call'[c].at # "idle"
    BY <1>0, <1>10, <2>1, RestOfBuffer
  <2>3. sock'[c].at = "open"
    BY <1>10, <2>1 DEF Taken
  <2> QED
    BY <2>2, <2>3 DEF WaitsOf
<1>15. Owned'
  BY DEF Taken
<1>16. Routed'
  <2>1. SUFFICES ASSUME apart', NEW i \in DOMAIN stack', NumberOf(stack'[i].id) \in DOMAIN route'
                 PROVE  route'[NumberOf(stack'[i].id)] = stack'[i].id[1]
    BY DEF Routed, NumberOf
  <2>2. CASE i \in DOMAIN stack /\ stack'[i] = stack[i]
    <3>1. PICK n : n = NumberOf(stack[i].id)
      OBVIOUS
    <3>2. apart /\ n # Number[c][k] /\ n \in DOMAIN route'
      BY <2>1, <2>2, <3>1 DEF Taken
    <3>3. n \in DOMAIN route
      BY <3>2 DEF Taken
    <3>4. route[n] = stack[i].id[1]
      BY <2>2, <3>1, <3>2, <3>3 DEF IInv, Routed
    <3>5. route'[n] = route[n]
      BY <3>2 DEF Taken
    <3> QED
      BY <2>2, <3>1, <3>4, <3>5
  <2>3. CASE stack'[i] = f
    BY <1>2, <1>3, <2>3 DEF Taken
  <2> QED
    BY <1>5, <2>2, <2>3
<1> QED
  BY <1>16, <1>6, <1>7, <1>11, <1>12, <1>13, <1>14, <1>15, OneClient DEF ClientInv

\* A command that is answered at once.
LEMMA ReadAtOnce ==
  ASSUME IInv, NEW c \in Client, NEW k \in 1..Calls, NEW m \in Order, Taken(c, k, m), NEW code \in Code,
         SendResponse(route', ErrResponse(NumberOf(m.id), code), 1), ReadOn(m.id[1]),
         netlink' \in Seq(Message), filling' \in Nat \cup {WILD}, UNCHANGED <<stack, threads, up>>
  PROVE  IInv'
<1>0. Types /\ OneFrame /\ ClientInv(c) /\ NoClient \notin Client
  BY ClientAssumption DEF IInv
<1>1. PICK n : n = Number[c][k]
  OBVIOUS
<1>2. NumberOf(m.id) = n /\ m.id[1] = c /\ m.id \in Id /\ n \in Nat
  BY <1>1 DEF Taken
<1>3. PICK r : r = ErrResponse(n, code)
  OBVIOUS
<1>4. r \in Reply /\ r.number = n
  BY <1>2, <1>3 DEF ErrResponse, Reply, Code
<1>5. /\ SendResponse(route', r, 1)
      /\ again' = IF request'[c] # <<>> THEN c ELSE NoClient
      /\ UNCHANGED <<stack, threads, up>>
  BY <1>2, <1>3 DEF ReadOn
<1>6. UNCHANGED <<sock, call>> /\ \A j \in DOMAIN route' : route'[j] \in Client
  BY DEF Taken
<1>7. \A d : Gets(d, route', n) <=> d = c /\ sock[c].at = "open"
  BY <1>1 DEF Gets, Taken
<1>8. PICK rt : rt = route'
  OBVIOUS
<1>9. /\ response' \in [Client -> Seq(Reply)] /\ answered' \in [Client -> Seq(Nat)]
      /\ \A d \in Client :
           /\ ~Gets(d, rt, n) => response'[d] = response[d] /\ answered'[d] = answered[d]
           /\ Gets(d, rt, n) =>
                /\ Len(response'[d]) = Len(response[d]) + 1
                /\ Len(answered'[d]) = Len(answered[d]) + 1
                /\ DOMAIN answered'[d] = 1..Len(answered[d]) + 1
                /\ DOMAIN answered[d] = 1..Len(answered[d])
                /\ \A i \in DOMAIN answered[d] : answered'[d][i] = answered[d][i]
                /\ answered'[d][Len(answered[d]) + 1] = n
  <2>1. \A j \in DOMAIN rt : rt[j] \in Client
    BY <1>6, <1>8
  <2>2. SendResponse(rt, r, 1)
    BY <1>5, <1>8
  <2>3. PICK q \in Reply : q = r /\ q.number = n
    BY <1>4
  <2>4. SendResponse(rt, q, 1)
    BY <2>2, <2>3
  <2>5. /\ response' \in [Client -> Seq(Reply)] /\ answered' \in [Client -> Seq(Nat)]
        /\ \A d \in Client :
             /\ ~Gets(d, rt, q.number) => response'[d] = response[d] /\ answered'[d] = answered[d]
             /\ Gets(d, rt, q.number) =>
                  /\ Len(response'[d]) = Len(response[d]) + 1
                  /\ Len(answered'[d]) = Len(answered[d]) + 1
                  /\ DOMAIN answered'[d] = 1..Len(answered[d]) + 1
                  /\ DOMAIN answered[d] = 1..Len(answered[d])
                  /\ \A i \in DOMAIN answered[d] : answered'[d][i] = answered[d][i]
                  /\ answered'[d][Len(answered[d]) + 1] = q.number
    BY <1>0, <2>1, <2>4, Sends
  <2> QED
    BY <2>3, <2>5
<1>10. \A d : Reading(d)' <=> Reading(d)
  BY <1>5 DEF Reading
<1>11. ~Reading(c)
  BY DEF Taken
<1>12. Types'
  <2>2. apart' \in BOOLEAN
    BY DEF Taken
  <2>3. DOMAIN route' \subseteq Nat
    BY <1>0, <1>1, <1>2 DEF Types, Taken
  <2>4. again' \in Client \cup {NoClient}
    BY <1>5
  <2>5. request' \in [Client -> Seq(Order)]
    BY DEF Taken
  <2> QED
    BY <1>0, <1>5, <1>6, <1>9, <2>2, <2>3, <2>4, <2>5 DEF Types
<1>13. OneFrame'
  BY <1>0, <1>5, <1>10, <1>11 DEF OneFrame
<1>14. Owned' /\ Routed'
  <2>1. SUFFICES ASSUME apart', NEW i \in DOMAIN stack, NumberOf(stack[i].id) \in DOMAIN route'
                 PROVE  route'[NumberOf(stack[i].id)] = stack[i].id[1]
    BY <1>5 DEF Routed, NumberOf, Taken
  <2>2. PICK q : q = NumberOf(stack[i].id)
    OBVIOUS
  <2>3. apart /\ q # Number[c][k] /\ q \in DOMAIN route'
    BY <2>1, <2>2 DEF Taken
  <2>4. q \in DOMAIN route /\ route'[q] = route[q]
    BY <2>3 DEF Taken
  <2>5. route[q] = stack[i].id[1]
    BY <2>2, <2>3, <2>4 DEF IInv, Routed
  <2> QED
    BY <2>2, <2>4, <2>5
<1>15. ASSUME NEW d \in Client \ {c} PROVE Kept(d)
  <2>1. response'[d] = response[d] /\ answered'[d] = answered[d]
    BY <1>7, <1>8, <1>9
  <2>2. \A j \in DOMAIN route' : route'[j] = d => j \in DOMAIN route /\ route[j] = d
    BY DEF Taken
  <2>3. \A j \in DOMAIN route : j \in DOMAIN route'
    BY DEF Taken
  <2>4. request'[d] = request[d]
    BY DEF Taken
  <2>5. again' # d
    BY <1>0, <1>5
  <2>6. apart' => apart
    BY DEF Taken
  <2> QED
    BY <1>5, <1>6, <1>10, <2>1, <2>2, <2>3, <2>4, <2>5, <2>6 DEF Kept
<1>16. OwnOf(c)' /\ HeardOf(c)'
  <2>1. OwnOf(c)'
    BY <1>0, <1>5, <1>6, RestOfBuffer DEF ClientInv, OwnOf
  <2>2. CASE sock[c].at = "open"
    <3>1. Gets(c, rt, n)
      BY <1>7, <1>8, <2>2
    <3>2. PICK l \in Nat : l = Len(answered[c])
      BY <1>0 DEF Types
    <3>3. /\ DOMAIN answered'[c] = 1..l + 1 /\ DOMAIN answered[c] = 1..l
          /\ \A i \in DOMAIN answered[c] : answered'[c][i] = answered[c][i]
          /\ answered'[c][l + 1] = n
      BY <1>9, <3>1, <3>2
    <3>4. \A i \in DOMAIN answered'[c] : i \in DOMAIN answered[c] \/ i = l + 1
      BY <3>2, <3>3
    <3>5. call[c].made \in Nat /\ k \in 1..call[c].made
      <4>1. call[c].made \in 0..Calls
        BY <1>0 DEF Types
      <4>2. k <= call[c].made
        BY DEF Taken
      <4> QED
        BY <4>1, <4>2, ClientAssumption
    <3>6. \A i \in DOMAIN answered[c] : \E h \in 1..call[c].made : answered[c][i] = Number[c][h]
      BY <1>0 DEF ClientInv, HeardOf
    <3>7. HeardOf(c)'
      BY <1>1, <1>6, <3>3, <3>4, <3>5, <3>6 DEF HeardOf
    <3> QED
      BY <2>1, <3>7
  <2>3. CASE sock[c].at # "open"
    <3>1. answered'[c] = answered[c]
      BY <1>7, <1>8, <1>9, <2>3
    <3> QED
      BY <1>0, <1>6, <2>1, <3>1 DEF ClientInv, HeardOf
  <2> QED
    BY <2>2, <2>3
<1>17. TurnOf(c)'
  <2>0. SUFFICES ASSUME apart'
                 PROVE  TurnOf(c)'
    BY DEF TurnOf
  <2> apart
    BY <2>0 DEF Taken
  <2>1. CASE sock[c].at = "open"
    <3>1. PICK l \in Nat : l = Len(answered[c]) /\ l = Begun(c)
      BY <2>1, RestOfBuffer
    <3>2. /\ Len(answered'[c]) = l + 1 /\ DOMAIN answered'[c] = 1..l + 1 /\ DOMAIN answered[c] = 1..l
          /\ \A i \in DOMAIN answered[c] : answered'[c][i] = answered[c][i]
          /\ answered'[c][l + 1] = n
      <4>1. Gets(c, rt, n)
        BY <1>7, <1>8, <2>1
      <4>2. /\ Len(answered'[c]) = Len(answered[c]) + 1
            /\ DOMAIN answered'[c] = 1..Len(answered[c]) + 1
            /\ DOMAIN answered[c] = 1..Len(answered[c])
            /\ \A i \in DOMAIN answered[c] : answered'[c][i] = answered[c][i]
            /\ answered'[c][Len(answered[c]) + 1] = n
        BY <1>9, <4>1
      <4> QED
        BY <3>1, <4>2
    <3>3. k = l + 1
      BY <2>1, <3>1 DEF Taken
    <3>4. Begun(c)' = l + 1
      BY <1>10, <1>11, <3>2 DEF Begun
    <3>5. \A i \in DOMAIN answered'[c] : i <= Calls /\ answered'[c][i] = Number[c][i]
      <4>1. \A i \in DOMAIN answered[c] : i <= Calls /\ answered[c][i] = Number[c][i]
        BY <1>0 DEF ClientInv, TurnOf
      <4>2. \A i \in DOMAIN answered'[c] : i \in DOMAIN answered[c] \/ i = k
        BY <3>2, <3>3
      <4>3. k <= Calls /\ answered'[c][k] = Number[c][k]
        BY <1>1, <3>2, <3>3
      <4> QED
        BY <3>2, <4>1, <4>2, <4>3
    <3>6. /\ call'[c].made = l + 1 + Len(request'[c])
          /\ \A j \in DOMAIN request'[c] : request'[c][j].id = <<c, l + 1 + j>>
      BY <1>6, <2>1, <3>1, RestOfBuffer
    <3>7. \A i \in DOMAIN stack' : stack'[i].id[1] # c
      BY <1>5, <1>11 DEF Reading
    <3> QED
      BY <3>4, <3>5, <3>6, <3>7 DEF TurnOf
  <2>2. CASE sock[c].at # "open"
    <3>1. sock'[c].at \notin {"new", "open"}
      BY <1>6, <2>2 DEF Taken
    <3>2. answered'[c] = answered[c]
      BY <1>7, <1>8, <1>9, <2>2
    <3> QED
      BY <1>0, <3>1, <3>2 DEF ClientInv, TurnOf
  <2> QED
    BY <2>1, <2>2
<1>18. RoutesOf(c)'
  <2>1. sock[c].at # "new"
    BY DEF Taken
  <2> QED
    BY <1>0, <1>5, <1>6, <1>11, <2>1 DEF ClientInv, RoutesOf, Reading
<1>19. WaitsOf(c)'
  <2>1. SUFFICES ASSUME apart, c \notin Expires
                 PROVE  WaitsOf(c)'
    BY DEF WaitsOf, Taken
  <2>2. request'[c] = <<>> /\ response[c] = <<>> /\ call[c].at # "idle"
    BY <2>1, RestOfBuffer
  <2>3. sock'[c].at = "open" /\ sock[c].at = "open"
    BY <1>6, <2>1 DEF Taken
  <2>4. Len(response'[c]) = Len(response[c]) + 1
    BY <1>7, <1>8, <1>9, <2>3
  <2>5. Len(response'[c]) <= 1
    BY <2>2, <2>4
  <2>6. again' # c
    BY <1>0, <1>5, <2>2
  <2> QED
    BY <1>6, <1>10, <1>11, <2>2, <2>3, <2>5, <2>6 DEF WaitsOf
<1> QED
  BY <1>12, <1>13, <1>14, <1>15, <1>16, <1>17, <1>18, <1>19, OneClient DEF ClientInv

\* onLocalReadyRead.
LEMMA ReadyReadStep ==
  ASSUME IInv, NEW c \in Client, ReadyRead(c)
  PROVE  IInv'
<1>0. Types
  BY DEF IInv
<1>1. PICK k \in 1..Calls, m \in Order :
        /\ Taken(c, k, m)
        /\ \/ m.kind = "change" /\ DoChange(m.id)
           \/ m.kind = "policyadd" /\ DoPolicyAdd(m.id)
           \/ m.kind = "flush" /\ DoFlush(m.id)
           \/ m.kind = "list" /\ DoList(m.id)
           \/ DoUnsent(m.id, m.kind)
  BY ReadStart
<1>2. m.id \in Id /\ ~Reading(m.id[1])
  BY <1>1 DEF Taken
<1>3. CASE m.kind = "flush" /\ DoFlush(m.id)
  <2>1. Err("OK", m.id) \in Message /\ "OK" \in Code
    BY <1>2 DEF Err, Message, Code
  <2>2. netlink' = Append(netlink, Err("OK", m.id)) /\ UNCHANGED <<stack, threads, filling, up>>
        /\ SendResponse(route', ErrResponse(NumberOf(m.id), "OK"), 1) /\ ReadOn(m.id[1])
    BY <1>3 DEF DoFlush
  <2>3. netlink' \in Seq(Message) /\ filling' \in Nat \cup {WILD}
    BY <1>0, <2>1, <2>2 DEF Types
  <2> QED
    BY <1>1, <2>1, <2>2, <2>3, ReadAtOnce
<1>8. CASE DoUnsent(m.id, m.kind)
  <2>1. filling' \in {WILD, filling} /\ UNCHANGED <<stack, netlink, threads, up>> /\ "ERR" \in Code
        /\ SendResponse(route', ErrResponse(NumberOf(m.id), "ERR"), 1) /\ ReadOn(m.id[1])
    BY <1>8 DEF DoUnsent, kernel, Code
  <2>2. netlink' \in Seq(Message) /\ filling' \in Nat \cup {WILD}
    BY <1>0, <2>1 DEF Types
  <2> QED
    BY <1>1, <2>1, <2>2, ReadAtOnce
<1>4. ASSUME Push(m.id, m.kind), again' = NoClient, UNCHANGED <<response, answered, up>>,
             netlink' \in Seq(Message), threads' \subseteq Thread, filling' \in Nat \cup {WILD}
      PROVE  IInv'
  <2>1. PICK f : f = [id |-> m.id, kind |-> m.kind, err |-> "OK", list |-> <<>>, quit |-> FALSE]
    OBVIOUS
  <2>2. f \in Frame
    BY <1>2, <2>1 DEF Frame, Order, Code
  <2>3. stack' \in Seq(Frame)
    BY <1>0, <1>4, <2>1, <2>2 DEF Push, Types
  <2>4. DOMAIN route' \subseteq Nat /\ \A n \in DOMAIN route' : route'[n] \in Client
    BY <1>0, <1>1 DEF Types, Taken
  <2>5. request' \in [Client -> Seq(Order)] /\ UNCHANGED <<sock, call>> /\ apart' \in BOOLEAN
    BY <1>1 DEF Taken
  <2>6. Types'
    BY <1>0, <1>4, <2>3, <2>4, <2>5 DEF Types
  <2> QED
    BY <1>1, <1>4, <2>6, ReadPush
<1>5. CASE m.kind = "change" /\ DoChange(m.id)
  <2>1. PICK code \in Code :
          /\ Push(m.id, "change") /\ netlink' = Append(netlink, Err(code, m.id)) /\ again' = NoClient
          /\ UNCHANGED <<up, threads, filling, response, answered>>
    BY <1>5 DEF DoChange
  <2>2. Err(code, m.id) \in Message
    BY <1>2 DEF Err, Message
  <2>3. netlink' \in Seq(Message)
    BY <1>0, <2>1, <2>2 DEF Types
  <2> QED
    BY <1>0, <1>4, <1>5, <2>1, <2>3 DEF Types
<1>6. CASE m.kind = "policyadd" /\ DoPolicyAdd(m.id)
  BY <1>0, <1>4, <1>6 DEF DoPolicyAdd, kernel, Types
<1>7. CASE m.kind = "list" /\ DoList(m.id)
  <2>1. /\ Push(m.id, "list") /\ again' = NoClient /\ UNCHANGED <<up, netlink, response, answered>>
        /\ filling' = Len(stack) + 1 /\ threads' = threads \cup {[of |-> m.id, at |-> "data"]}
    BY <1>7 DEF DoList
  <2>2. filling' \in Nat \cup {WILD}
    BY <1>0, <2>1 DEF Types
  <2>3. threads' \subseteq Thread
    BY <1>0, <1>2, <2>1 DEF Types, Thread
  <2> QED
    BY <1>0, <1>4, <1>7, <2>1, <2>2, <2>3 DEF Types
<1> QED
  BY <1>1, <1>3, <1>5, <1>6, <1>7, <1>8

-----------------------------------------------------------------------------
(* A call returns.                                                         *)

\* Its response has its number, which leads to its client as long as the socket is open.
LEMMA ReturnStart ==
  ASSUME IInv, Return
  PROVE  \E c \in Client, k \in 1..Calls, r \in Reply :
           /\ stack # <<>> /\ Top.id = <<c, k>> /\ Reading(c) /\ r.number = Number[c][k]
           /\ Top \in Frame /\ stack[Len(stack)] = Top /\ Len(stack) \in DOMAIN stack
           /\ sock[c].at # "new"
           /\ apart /\ sock[c].at = "open" => k = Len(answered[c]) + 1
           /\ SendResponse(route, r, 1)
           /\ apart => \A d \in Client : Gets(d, route, r.number) <=> d = c /\ sock[c].at = "open"
           /\ apart => (Number[c][k] \in DOMAIN route => route[Number[c][k]] = c)
           /\ NumberOf(Top.id) = Number[c][k]
           /\ up' = (Safe(route, Number[c][k]) /\ Alive(sock[c]))
           /\ again = NoClient /\ again' = IF request[c] # <<>> THEN c ELSE NoClient
<1>0. Types /\ OneFrame
  BY DEF IInv
<1>1. /\ up /\ again = NoClient /\ stack # <<>> /\ stack' = Front(stack)
      /\ SendResponse(route, Response(Top), 1)
      /\ up' = (Safe(route, NumberOf(Top.id)) /\ Alive(sock[Top.id[1]]))
      /\ again' = IF request[Top.id[1]] # <<>> THEN Top.id[1] ELSE NoClient
  BY DEF Return, Back
<1>2. Top \in Frame /\ stack[Len(stack)] = Top /\ Len(stack) \in DOMAIN stack /\ Reading(Top.id[1])
  BY <1>0, <1>1, Popped
<1>3. PICK c \in Client, k \in 1..Calls : Top.id = <<c, k>>
  BY <1>2 DEF Frame, Id
<1>4. NumberOf(Top.id) = Number[c][k] /\ Number[c][k] \in Nat
  BY <1>3, ClientAssumption DEF NumberOf
<1>5. PICK r : r = Response(Top)
  OBVIOUS
<1>6. r \in Reply /\ r.number = Number[c][k]
  <2>1. PICK f \in Frame : f = Top
    BY <1>2
  <2>2. f.err \in Code /\ f.list \in Seq(Id) /\ "OK" \in Code
    BY <2>1 DEF Frame, Code
  <2>3. NumberOf(f.id) = Number[c][k] /\ r = Response(f)
    BY <1>4, <1>5, <2>1
  <2>4. CASE f.kind = "list" /\ f.err = "OK"
    <3>1. r = [type |-> "LIST", number |-> Number[c][k], code |-> "OK", list |-> f.list]
      BY <2>3, <2>4 DEF Response, ListResponse
    <3> QED
      BY <1>4, <2>2, <3>1 DEF Reply
  <2>5. CASE ~(f.kind = "list" /\ f.err = "OK")
    <3>1. r = [type |-> "ERR", number |-> Number[c][k], code |-> f.err, list |-> <<>>]
      BY <2>3, <2>5 DEF Response, ErrResponse
    <3> QED
      BY <1>4, <2>2, <3>1 DEF Reply
  <2> QED
    BY <2>4, <2>5
<1>7. ClientInv(c)
  BY DEF IInv
<1>8. sock[c].at # "new"
  BY <1>2, <1>3, <1>7 DEF ClientInv, RoutesOf
<1>9. apart /\ sock[c].at = "open" => k = Len(answered[c]) + 1 /\ Number[c][k] \in DOMAIN route
  <2>1. SUFFICES ASSUME apart, sock[c].at = "open"
                 PROVE  k = Len(answered[c]) + 1 /\ Number[c][k] \in DOMAIN route
    OBVIOUS
  <2>2. stack[Len(stack)].id = <<c, k>>
    BY <1>2, <1>3
  <2>3. k = Begun(c)
    BY <1>2, <1>7, <2>1, <2>2 DEF ClientInv, TurnOf
  <2>4. Begun(c) = Len(answered[c]) + 1
    BY <1>2, <1>3 DEF Begun
  <2>5. NumberOf(stack[Len(stack)].id) \in DOMAIN route
    BY <1>2, <1>7, <2>1, <2>2 DEF ClientInv, RoutesOf
  <2> QED
    BY <1>2, <1>4, <2>3, <2>4, <2>5
<1>10. apart => (Number[c][k] \in DOMAIN route => route[Number[c][k]] = c)
  <2>1. NumberOf(stack[Len(stack)].id) = Number[c][k] /\ stack[Len(stack)].id[1] = c
    BY <1>2, <1>3, <1>4
  <2>2. apart => (NumberOf(stack[Len(stack)].id) \in DOMAIN route =>
          route[NumberOf(stack[Len(stack)].id)] = stack[Len(stack)].id[1])
    BY <1>2 DEF IInv, Routed
  <2> QED
    BY <2>1, <2>2
<1>11. apart => \A d \in Client : Gets(d, route, r.number) <=> d = c /\ sock[c].at = "open"
  BY <1>6, <1>9, <1>10 DEF Gets
<1>12. /\ stack # <<>> /\ Top.id = <<c, k>> /\ Reading(c) /\ SendResponse(route, r, 1)
       /\ up' = (Safe(route, Number[c][k]) /\ Alive(sock[c]))
       /\ again = NoClient /\ again' = IF request[c] # <<>> THEN c ELSE NoClient
  <2>1. Top.id[1] = c
    BY <1>3
  <2>2. up' = (Safe(route, Number[c][k]) /\ Alive(sock[c]))
    BY <1>1, <1>4, <2>1
  <2>3. again = NoClient /\ again' = IF request[c] # <<>> THEN c ELSE NoClient
    BY <1>1, <2>1
  <2>4. Reading(c)
    BY <1>2, <2>1
  <2> QED
    BY <1>1, <1>3, <1>5, <2>2, <2>3, <2>4
<1> r \in Reply
  BY <1>6
<1> WITNESS c \in Client, k \in 1..Calls, r \in Reply
<1> QED
  BY <1>2, <1>4, <1>6, <1>8, <1>9, <1>10, <1>11, <1>12

LEMMA ReturnStep ==
  ASSUME IInv, Return
  PROVE  IInv'
<1>0. Types /\ OneFrame /\ Owned /\ Routed /\ NoClient \notin Client
  BY ClientAssumption DEF IInv
<1>1. /\ stack' = Front(stack) /\ filling' = IF Top.kind = "list" THEN 0 ELSE filling
      /\ UNCHANGED <<sock, request, route, netlink, threads, call, apart>>
  BY DEF Return, Back, kernel
<1>2. PICK c \in Client, k \in 1..Calls, r \in Reply :
        /\ stack # <<>> /\ Top.id = <<c, k>> /\ Reading(c) /\ r.number = Number[c][k]
        /\ sock[c].at # "new"
        /\ apart /\ sock[c].at = "open" => k = Len(answered[c]) + 1
        /\ SendResponse(route, r, 1)
        /\ apart => \A d \in Client : Gets(d, route, r.number) <=> d = c /\ sock[c].at = "open"
        /\ up' = (Safe(route, Number[c][k]) /\ Alive(sock[c]))
        /\ again = NoClient /\ again' = IF request[c] # <<>> THEN c ELSE NoClient
  BY ReturnStart
<1>3. ClientInv(c)
  BY DEF IInv
<1>4. PICK n : n = r.number
  OBVIOUS
<1>5. /\ response' \in [Client -> Seq(Reply)] /\ answered' \in [Client -> Seq(Nat)]
      /\ \A d \in Client :
           /\ ~Gets(d, route, n) => response'[d] = response[d] /\ answered'[d] = answered[d]
           /\ Gets(d, route, n) =>
                /\ Len(response'[d]) = Len(response[d]) + 1
                /\ Len(answered'[d]) = Len(answered[d]) + 1
                /\ DOMAIN answered'[d] = 1..Len(answered[d]) + 1
                /\ DOMAIN answered[d] = 1..Len(answered[d])
                /\ \A i \in DOMAIN answered[d] : answered'[d][i] = answered[d][i]
                /\ answered'[d][Len(answered[d]) + 1] = n
  <2>1. \A j \in DOMAIN route : route[j] \in Client
    BY <1>0 DEF Types
  <2>2. SendResponse(route, r, 1)
    BY <1>2
  <2>3. PICK rt : rt = route
    OBVIOUS
  <2>4. (\A j \in DOMAIN rt : rt[j] \in Client) /\ SendResponse(rt, r, 1)
    BY <2>1, <2>2, <2>3
  <2>5. /\ response' \in [Client -> Seq(Reply)] /\ answered' \in [Client -> Seq(Nat)]
        /\ \A d \in Client :
             /\ ~Gets(d, rt, r.number) => response'[d] = response[d] /\ answered'[d] = answered[d]
             /\ Gets(d, rt, r.number) =>
                  /\ Len(response'[d]) = Len(response[d]) + 1
                  /\ Len(answered'[d]) = Len(answered[d]) + 1
                  /\ DOMAIN answered'[d] = 1..Len(answered[d]) + 1
                  /\ DOMAIN answered[d] = 1..Len(answered[d])
                  /\ \A i \in DOMAIN answered[d] : answered'[d][i] = answered[d][i]
                  /\ answered'[d][Len(answered[d]) + 1] = r.number
    BY ONLY <1>0, <2>4, Sends
  <2> QED
    BY <1>4, <2>3, <2>5
<1>6. Top.id[1] = c
  BY <1>2
<1>7. /\ stack' \in Seq(Frame)
      /\ \A d : Reading(d)' <=> Reading(d) /\ d # c
      /\ \A i, j \in DOMAIN stack' : stack'[i].id[1] = stack'[j].id[1] => i = j
      /\ \A i \in DOMAIN stack' : i \in DOMAIN stack /\ stack'[i] = stack[i]
      /\ stack[Len(stack)].id = <<c, k>> /\ Len(stack) \in DOMAIN stack
      /\ \A i \in DOMAIN stack' : i # Len(stack)
  BY <1>0, <1>1, <1>2, <1>6, Popped
<1>8. Types'
  <2>1. filling' \in Nat \cup {WILD}
    BY <1>0, <1>1 DEF Types
  <2>2. up' \in BOOLEAN
    BY <1>2 DEF Safe, Alive
  <2>3. again' \in Client \cup {NoClient}
    BY <1>2
  <2> QED
    BY <1>0, <1>1, <1>5, <1>7, <2>1, <2>2, <2>3 DEF Types
<1>9. OneFrame'
  BY <1>0, <1>2, <1>7 DEF OneFrame
<1>10. Owned' /\ Routed'
  BY <1>0, <1>1, <1>7 DEF Owned, Routed, NumberOf
<1>11. ASSUME apart, NEW d \in Client \ {c} PROVE Kept(d)
  <2>1. response'[d] = response[d] /\ answered'[d] = answered[d]
    BY <1>2, <1>4, <1>5, <1>11
  <2>2. again' # d
    BY <1>0, <1>2
  <2> QED
    BY <1>1, <1>7, <2>1, <2>2 DEF Kept
<1>12. \A i \in DOMAIN stack' : stack'[i].id[1] # c
  BY <1>7 DEF Reading
<1>13. ASSUME NEW d \in Client PROVE OwnOf(d)' /\ HeardOf(d)'
  <2>1. OwnOf(d) /\ HeardOf(d)
    BY DEF IInv, ClientInv
  <2>2. OwnOf(d)'
    BY <1>1, <1>7, <2>1 DEF OwnOf
  <2>3. CASE Gets(d, route, n)
    <3>1. PICK l \in Nat : l = Len(answered[d])
      BY <1>0 DEF Types
    <3>2. /\ DOMAIN answered'[d] = 1..l + 1 /\ DOMAIN answered[d] = 1..l
          /\ \A i \in DOMAIN answered[d] : answered'[d][i] = answered[d][i]
          /\ answered'[d][l + 1] = n
      BY <1>5, <2>3, <3>1
    <3>3. \A i \in DOMAIN answered'[d] : i \in DOMAIN answered[d] \/ i = l + 1
      BY <3>1, <3>2
    <3>4. \E h \in 1..call[d].made : n = Number[d][h]
      BY <1>0, <2>3 DEF Gets, Owned
    <3>5. HeardOf(d)'
      BY <1>1, <2>1, <3>2, <3>3, <3>4 DEF HeardOf
    <3> QED
      BY <2>2, <3>5
  <2>4. CASE ~Gets(d, route, n)
    <3>1. answered'[d] = answered[d]
      BY <1>5, <2>4
    <3> QED
      BY <1>1, <2>1, <2>2, <3>1 DEF HeardOf
  <2> QED
    BY <2>3, <2>4
<1>14. ASSUME apart PROVE TurnOf(c)'
  <2>1. CASE sock[c].at = "open"
    <3>1. PICK l \in Nat : l = Len(answered[c])
      BY <1>0 DEF Types
    <3>2. /\ Len(answered'[c]) = l + 1 /\ DOMAIN answered'[c] = 1..l + 1 /\ DOMAIN answered[c] = 1..l
          /\ \A i \in DOMAIN answered[c] : answered'[c][i] = answered[c][i]
          /\ answered'[c][l + 1] = n
      BY <1>14, <1>2, <1>4, <1>5, <2>1, <3>1
    <3>3. k = l + 1
      BY <1>14, <1>2, <2>1, <3>1
    <3>4. Begun(c)' = l + 1 /\ Begun(c) = l + 1
      BY <1>2, <1>7, <3>1, <3>2 DEF Begun
    <3>5. \A i \in DOMAIN answered'[c] : i <= Calls /\ answered'[c][i] = Number[c][i]
      <4>1. \A i \in DOMAIN answered[c] : i <= Calls /\ answered[c][i] = Number[c][i]
        BY <1>3, <1>14 DEF ClientInv, TurnOf
      <4>2. \A i \in DOMAIN answered'[c] : i \in DOMAIN answered[c] \/ i = k
        BY <3>2, <3>3
      <4>3. k <= Calls /\ answered'[c][k] = Number[c][k]
        BY <1>2, <1>4, <3>2, <3>3
      <4> QED
        BY <3>2, <4>1, <4>2, <4>3
    <3>6. /\ call[c].made = l + 1 + Len(request[c])
          /\ \A j \in DOMAIN request[c] : request[c][j].id = <<c, l + 1 + j>>
      BY <1>3, <1>14, <2>1, <3>4 DEF ClientInv, TurnOf
    <3> QED
      BY <1>1, <1>12, <3>4, <3>5, <3>6 DEF TurnOf
  <2>2. CASE sock[c].at # "open"
    <3>1. answered'[c] = answered[c]
      BY <1>2, <1>4, <1>5, <1>14, <2>2
    <3>2. sock'[c].at \notin {"new", "open"}
      BY <1>1, <1>2, <2>2
    <3> QED
      BY <1>3, <1>14, <3>1, <3>2 DEF ClientInv, TurnOf
  <2> QED
    BY <2>1, <2>2
<1>15. ASSUME NEW d \in Client PROVE RoutesOf(d)'
  <2>1. RoutesOf(d)
    BY DEF IInv, ClientInv
  <2>2. sock[d].at = "new" => d # c /\ again' # d
    BY <1>0, <1>2
  <2>3. \A i \in DOMAIN stack' : i \in DOMAIN stack /\ stack'[i] = stack[i]
    BY <1>7
  <2> QED
    BY <1>1, <1>7, <2>1, <2>2, <2>3 DEF RoutesOf, NumberOf
<1>16. ASSUME apart PROVE WaitsOf(c)'
  <2>1. SUFFICES ASSUME c \notin Expires
                 PROVE  WaitsOf(c)'
    BY DEF WaitsOf
  <2>2. request[c] = <<>> /\ response[c] = <<>> /\ call[c].at # "idle"
    BY <1>2, <1>3, <1>16, <2>1 DEF ClientInv, WaitsOf
  <2>3. Len(response'[c]) = Len(response[c]) \/ Len(response'[c]) = Len(response[c]) + 1
    <3>1. CASE Gets(c, route, n)
      BY <1>5, <3>1
    <3>2. CASE ~Gets(c, route, n)
      BY <1>5, <3>2
    <3> QED
      BY <3>1, <3>2
  <2>4. Len(response'[c]) <= 1
    <3>1. PICK x : x = response[c]
      OBVIOUS
    <3>2. x = <<>>
      BY <2>2, <3>1
    <3>3. Len(x) = 0
      BY <3>2
    <3>4. Len(response[c]) = 0
      BY <3>1, <3>3
    <3>5. PICK m : m = Len(response[c])
      OBVIOUS
    <3>6. PICK q : q = Len(response'[c])
      OBVIOUS
    <3>7. m = 0 /\ (q = m \/ q = m + 1)
      BY <2>3, <3>4, <3>5, <3>6
    <3>8. q <= 1
      BY <3>7
    <3> QED
      BY <3>6, <3>8
  <2>5. again' # c /\ ~Reading(c)'
    BY <1>0, <1>2, <1>7, <2>2
  <2>6. sock'[c].at # "open" => \A j \in DOMAIN route' : route'[j] # c
    BY <1>1, <1>3, <1>16, <2>1 DEF ClientInv, WaitsOf
  <2>7. request'[c] = <<>> /\ Len(request'[c]) <= 1 /\ call'[c].at # "idle"
    BY <1>1, <2>2
  <2> QED
    BY <2>4, <2>5, <2>6, <2>7 DEF WaitsOf
<1>18. CASE apart
  <2>1. ClientInv(c)'
    BY <1>14, <1>15, <1>16, <1>13, <1>18 DEF ClientInv
  <2> QED
    BY <1>8, <1>9, <1>10, <1>11, <1>18, <2>1, OneClient
<1>19. CASE ~apart
  <2>1. \A d \in Client : TurnOf(d)' /\ WaitsOf(d)'
    BY <1>1, <1>19 DEF TurnOf, WaitsOf
  <2> QED
    BY <1>8, <1>9, <1>10, <1>15, <1>13, <2>1 DEF IInv, ClientInv
<1> QED
  BY <1>18, <1>19

-----------------------------------------------------------------------------
(* The invariant.                                                          *)

LEMMA InitIInv ==
  ASSUME Init
  PROVE  IInv
<1>1. Types
  BY ClientAssumption DEF Init, Types, Plain
<1>2. OneFrame /\ Owned /\ Routed
  BY DEF Init, OneFrame, Owned, Routed
<1>3. ASSUME NEW c \in Client PROVE ClientInv(c)
  <2>1. ~Reading(c) /\ request[c] = <<>> /\ answered[c] = <<>> /\ response[c] = <<>>
    BY DEF Init, Reading
  <2>2. sock[c].at = "new" /\ call[c].made = 0 /\ c # NoClient
    BY ClientAssumption DEF Init, Plain
  <2>3. OwnOf(c) /\ HeardOf(c)
    BY <2>1 DEF Init, OwnOf, HeardOf
  <2>4. TurnOf(c)
    BY <2>1, <2>2 DEF Init, TurnOf, Begun
  <2>5. RoutesOf(c)
    BY <2>1, <2>2 DEF Init, RoutesOf
  <2>6. WaitsOf(c)
    BY <2>1, <2>2 DEF Init, WaitsOf
  <2> QED
    BY <2>3, <2>4, <2>5, <2>6 DEF ClientInv
<1> QED
  BY <1>1, <1>2, <1>3 DEF IInv

LEMMA StepIInv ==
  ASSUME IInv, [Next]_vars
  PROVE  IInv'
<1>1. CASE UNCHANGED vars
  <2>1. UNCHANGED <<sock, request, route, stack, again, up, netlink, threads, filling, call, response, answered, apart>>
    BY <1>1 DEF vars, server, kernel
  <2>2. SameCalls /\ Types'
    BY <2>1 DEF SameCalls, IInv, Types
  <2> QED
    BY <2>1, <2>2, QuietStep
<1>2. ASSUME NEW c \in Client, Serve(c) \/ Receive(c) \/ Timeout(c) \/ End(c) PROVE IInv'
  BY <1>2, NewConnectionStep, ReadyReadStep, DisconnectedStep, DeleteStep, ReceiveStep, TimeoutStep, EndStep
     DEF Serve
<1>3. ASSUME NEW c \in Client, NEW kind \in Kind, Send(c, kind) PROVE IInv'
  BY <1>3, SendStep
<1>4. CASE Return
  BY <1>4, ReturnStep
<1>5. CASE Process
  BY <1>5, NlErrStep, NlDataStep, NlDoneStep DEF Process
<1>6. ASSUME NEW i, Expire(i) PROVE IInv'
  BY <1>6, ExpireStep
<1>7. ASSUME NEW t, ThreadSends(t) PROVE IInv'
  BY <1>7, ThreadStep
<1> QED
  BY <1>1, <1>2, <1>3, <1>4, <1>5, <1>6, <1>7 DEF Next

LEMMA Invariant == Spec => []IInv
<1>1. Init => IInv
  BY InitIInv
<1>2. IInv /\ [Next]_vars => IInv'
  BY StepIInv
<1> QED
  BY <1>1, <1>2, PTL DEF Spec

\* As long as the numbers tell the commands apart, nothing that a waiting client's
\* command left behind leads to a socket that is gone: destroySocket removes all the
\* numbers of the client, and the client has no second command in the buffer that would
\* write its number anew.
THEOREM RoutesLeadToOpen == Spec => []RoutesToOpen
<1>1. IInv => RoutesToOpen
  BY DEF IInv, Types, ClientInv, WaitsOf, RoutesToOpen
<1> QED
  BY <1>1, Invariant, PTL

\* sendResponse sends a client only responses with numbers of its own commands, and, until
\* a command is read while another of the same number is under way, the answers to all its
\* own commands in their order, however the calls of processMessage nest.
THEOREM ServedInTurn == Spec => []AnsweredInTurn
<1>1. IInv => AnsweredInTurn
  BY DEF IInv, ClientInv, TurnOf, HeardOf, AnsweredInTurn
<1> QED
  BY <1>1, Invariant, PTL

-----------------------------------------------------------------------------
(* The list that is filled.                                                *)

\* The messages of listings in the queue, after one message is taken from it or put to it.
LEMMA DonesTail ==
  ASSUME Types, netlink # <<>>, netlink' = Tail(netlink)
  PROVE  /\ \A j \in Dones' : j \in Nat /\ j >= 1 /\ j + 1 \in Dones
         /\ \A j \in Datas' : j \in Nat /\ j >= 1 /\ j + 1 \in Datas
<1>1. /\ DOMAIN netlink' = 1..Len(netlink) - 1 /\ Len(netlink) \in Nat
      /\ \A j \in DOMAIN netlink' : j + 1 \in DOMAIN netlink /\ netlink'[j] = netlink[j + 1]
  BY TailSeq DEF Types
<1>2. \A j \in DOMAIN netlink' : j \in Nat /\ j >= 1
  BY <1>1
<1> QED
  BY <1>1, <1>2 DEF Dones, Datas

LEMMA DonesAppend ==
  ASSUME Types, NEW m \in Message, netlink' = Append(netlink, m)
  PROVE  /\ \A j \in Dones' : j \in Dones \/ (j = Len(netlink) + 1 /\ m.type = "DONE")
         /\ \A j \in Datas' : j \in Datas \/ (j = Len(netlink) + 1 /\ m.type = "DATA")
         /\ \A j \in Datas : j \in Nat /\ j < Len(netlink) + 1
<1>1. PICK n \in Nat : n = Len(netlink)
  BY DEF Types
<1>2. /\ DOMAIN netlink' = 1..n + 1 /\ DOMAIN netlink = 1..n
      /\ \A i \in DOMAIN netlink : netlink'[i] = netlink[i]
      /\ netlink'[n + 1] = m
  BY <1>1, AppendSeq DEF Types
<1>3. \A j \in DOMAIN netlink' : j \in DOMAIN netlink \/ j = n + 1
  BY <1>2
<1>4. \A j \in DOMAIN netlink : j \in Nat /\ j < n + 1
  BY <1>2
<1> QED
  BY <1>1, <1>2, <1>3, <1>4 DEF Dones, Datas

\* A listing under way is the only one: its client waits for it.
LEMMA OneListing ==
  ASSUME IInv, OneLister, NEW i \in DOMAIN stack, stack[i].kind = "list"
  PROVE  /\ \A j \in DOMAIN stack : stack[j].kind = "list" => i = j
         /\ \A c \in Client : "list" \in Kinds[c] => Reading(c)
<1>1. \A j \in DOMAIN stack : stack[j].id[1] \in Client
  <2>1. \A j \in DOMAIN stack : stack[j] \in Frame
    BY DEF IInv, Types
  <2>2. \A f \in Frame : f.id[1] \in Client
    BY DEF Frame, Id
  <2> QED
    BY <2>1, <2>2
<1>2. \A j \in DOMAIN stack : stack[j].kind = "list" => "list" \in Kinds[stack[j].id[1]]
  BY <1>1 DEF IInv, ClientInv, OwnOf
<1>3. \A j \in DOMAIN stack : stack[j].kind = "list" => stack[i].id[1] = stack[j].id[1]
  BY <1>1, <1>2 DEF OneLister
<1>4. \A c \in Client : "list" \in Kinds[c] => c = stack[i].id[1]
  BY <1>1, <1>2 DEF OneLister
<1>5. Reading(stack[i].id[1])
  BY DEF Reading
<1> QED
  BY <1>3, <1>4, <1>5 DEF IInv, OneFrame

\* The listing goes on.
LEMMA FillingStays ==
  ASSUME Filling, filling' = filling, threads' = threads,
         filling \notin {0, WILD} => filling \in DOMAIN stack' /\ stack'[filling].kind = stack[filling].kind,
         filling \notin {0, WILD} => stack'[filling].quit = stack[filling].quit,
         \A i, j \in Dones' : i = j, \A i \in Datas', j \in Dones' : i < j,
         Dones' # {} => Dones # {}, Datas' # {} => Datas # {}
  PROVE  Filling'
<1>1. filling' \notin {0, WILD} => filling' \in DOMAIN stack' /\ stack'[filling'].kind = "list"
  BY DEF Filling
<1>2. \A t, u \in threads' : t = u
  BY DEF Filling
<1>3. threads' # {} => Dones' = {}
  BY DEF Filling
<1>4. threads' # {} \/ Dones' # {} \/ Datas' # {} => filling' \notin {0, WILD} /\ ~stack'[filling'].quit
  BY DEF Filling
<1> QED
  BY <1>1, <1>2, <1>3, <1>4 DEF Filling

\* A message that is not of a listing is put to the queue, and a call perhaps to the stack.
LEMMA FillingPut ==
  ASSUME IInv, Filling, filling' = filling, threads' = threads,
         \A i \in DOMAIN stack : i \in DOMAIN stack' /\ stack'[i] = stack[i],
         \/ netlink' = netlink
         \/ \E m \in Message : m.type \notin {"DONE", "DATA"} /\ netlink' = Append(netlink, m)
  PROVE  Filling'
<1>1. (\A j \in Dones' : j \in Dones) /\ (\A j \in Datas' : j \in Datas)
  <2>1. CASE netlink' = netlink
    BY <2>1 DEF Dones, Datas
  <2>2. CASE \E m \in Message : m.type \notin {"DONE", "DATA"} /\ netlink' = Append(netlink, m)
    <3>1. PICK m \in Message : m.type \notin {"DONE", "DATA"} /\ netlink' = Append(netlink, m)
      BY <2>2
    <3> QED
      BY <3>1, DonesAppend DEF IInv
  <2> QED
    BY <2>1, <2>2
<1>2. /\ \A i, j \in Dones' : i = j
      /\ \A i \in Datas', j \in Dones' : i < j
      /\ Dones' # {} => Dones # {}
      /\ Datas' # {} => Datas # {}
  BY <1>1 DEF Filling
<1>3. filling \notin {0, WILD} => filling \in DOMAIN stack' /\ stack'[filling] = stack[filling]
  BY DEF Filling
<1> QED
  BY <1>2, <1>3, FillingStays

\* A message that ends no listing is taken from the queue.
LEMMA FillingTake ==
  ASSUME IInv, Filling, filling' = filling, threads' = threads, netlink # <<>>, netlink' = Tail(netlink),
         SameCalls, filling \notin {0, WILD} => stack'[filling].quit = stack[filling].quit
  PROVE  Filling'
<1>1. /\ \A j \in Dones' : j \in Nat /\ j + 1 \in Dones
      /\ \A j \in Datas' : j \in Nat /\ j + 1 \in Datas
  BY DonesTail DEF IInv
<1>2. \A i, j \in Dones' : i = j
  <2> SUFFICES ASSUME NEW i \in Dones', NEW j \in Dones'
               PROVE  i = j
    OBVIOUS
  <2>1. i + 1 = j + 1
    BY <1>1 DEF Filling
  <2> QED
    BY <1>1, <2>1
<1>3. \A i \in Datas', j \in Dones' : i < j
  <2> SUFFICES ASSUME NEW i \in Datas', NEW j \in Dones'
               PROVE  i < j
    OBVIOUS
  <2>1. i + 1 < j + 1
    BY <1>1 DEF Filling
  <2> QED
    BY <1>1, <2>1
<1>4. (Dones' # {} => Dones # {}) /\ (Datas' # {} => Datas # {})
  BY <1>1
<1>5. filling \notin {0, WILD} => filling \in DOMAIN stack' /\ stack'[filling].kind = stack[filling].kind
  BY DEF Filling, SameCalls
<1> QED
  BY <1>2, <1>3, <1>4, <1>5, FillingStays

\* BFControl::process: the end that it hears of is the only one, and no thread sends more.
LEMMA FillingProcess ==
  ASSUME IInv, Filling, Process
  PROVE  Filling'
<1>0. Types /\ stack \in [DOMAIN stack -> Frame]
  BY DEF IInv, Types
<1>1. CASE NlErr
  <2>1. /\ netlink # <<>> /\ netlink' = Tail(netlink) /\ UNCHANGED <<filling, threads>>
    BY <1>1 DEF NlErr, Take
  <2>2. PICK code : code = Head(netlink).code
    OBVIOUS
  <2>3. stack' = [i \in DOMAIN stack |->
          [stack[i] EXCEPT !.err = code, !.quit = stack[i].quit \/ stack[i].kind # "list"]]
    BY <1>1, <2>2 DEF NlErr
  <2>4. ASSUME NEW i \in DOMAIN stack
        PROVE  /\ stack'[i].id = stack[i].id /\ stack'[i].kind = stack[i].kind
               /\ stack[i].kind = "list" => stack'[i].quit = stack[i].quit
    <3>1. PICK f \in Frame : f = stack[i]
      BY <1>0
    <3>2. stack'[i] = [f EXCEPT !.err = code, !.quit = f.quit \/ f.kind # "list"]
      BY <2>3, <3>1
    <3>3. stack'[i].id = f.id /\ stack'[i].kind = f.kind /\ stack'[i].quit = (f.quit \/ f.kind # "list")
      BY <3>2 DEF Frame
    <3>4. f.quit \in BOOLEAN
      BY DEF Frame
    <3> QED
      BY <3>1, <3>3, <3>4
  <2>5. DOMAIN stack' = DOMAIN stack
    BY <2>3
  <2>6. SameCalls
    BY <2>4, <2>5 DEF SameCalls
  <2>7. filling \notin {0, WILD} => stack'[filling].quit = stack[filling].quit
    BY <2>4 DEF Filling
  <2> QED
    BY <2>1, <2>6, <2>7, FillingTake
<1>2. CASE NlData
  <2>1. /\ netlink # <<>> /\ netlink' = Tail(netlink) /\ UNCHANGED <<filling, threads>>
    BY <1>2 DEF NlData, Take
  <2>2. CASE filling \in {0, WILD}
    <3>1. stack' = stack
      BY <1>2, <2>2 DEF NlData
    <3> QED
      BY <2>1, <2>2, <3>1, FillingTake DEF SameCalls
  <2>3. CASE filling \notin {0, WILD}
    <3>1. filling \in DOMAIN stack
      BY <2>3 DEF Filling
    <3>2. PICK r : r = [stack[filling] EXCEPT !.list = Append(stack[filling].list, Head(netlink).of)]
      OBVIOUS
    <3>3. stack' = [stack EXCEPT ![filling] = r]
      BY <1>2, <2>3, <3>2 DEF NlData
    <3>4. r.id = stack[filling].id /\ r.kind = stack[filling].kind /\ r.quit = stack[filling].quit
      BY <1>0, <3>1, <3>2 DEF Frame
    <3>5. SameCalls
      BY <3>3, <3>4 DEF SameCalls
    <3>6. stack'[filling].quit = stack[filling].quit
      BY <3>1, <3>3, <3>4
    <3> QED
      BY <2>1, <3>5, <3>6, FillingTake
  <2> QED
    BY <2>2, <2>3
<1>3. CASE NlDone
  <2>1. /\ netlink # <<>> /\ Head(netlink).type = "DONE" /\ netlink' = Tail(netlink)
        /\ threads' = threads /\ filling' = 0
    BY <1>3 DEF NlDone, Take
  <2>2. 1 \in Dones
    BY <1>0, <2>1, TailSeq DEF Types, Dones
  <2>3. threads' = {}
    BY <2>1, <2>2 DEF Filling
  <2>4. Dones' = {} /\ Datas' = {}
    <3>1. ASSUME NEW j \in Dones' PROVE FALSE
      <4>1. j \in Nat /\ j >= 1 /\ j + 1 \in Dones
        BY <1>0, <2>1, DonesTail
      <4>2. j + 1 = 1
        BY <2>2, <4>1 DEF Filling
      <4> QED
        BY <4>1, <4>2
    <3>2. ASSUME NEW j \in Datas' PROVE FALSE
      <4>1. j \in Nat /\ j >= 1 /\ j + 1 \in Datas
        BY <1>0, <2>1, DonesTail
      <4>2. j + 1 < 1
        BY <2>2, <4>1 DEF Filling
      <4> QED
        BY <4>1, <4>2
    <3> QED
      BY <3>1, <3>2
  <2> QED
    BY <2>1, <2>3, <2>4 DEF Filling
<1> QED
  BY <1>1, <1>2, <1>3 DEF Process

\* The thread sends the end of its listing last.
LEMMA FillingThread ==
  ASSUME IInv, Filling, NEW t, ThreadSends(t)
  PROVE  Filling'
<1>0. Types
  BY DEF IInv
<1>1. t \in threads /\ t \in Thread /\ UNCHANGED <<stack, filling>>
  BY <1>0 DEF ThreadSends, Types, server
<1>2. threads = {t} /\ Dones = {} /\ filling \notin {0, WILD} /\ ~stack[filling].quit
  BY <1>1 DEF Filling
<1>3. filling' \notin {0, WILD} => filling' \in DOMAIN stack' /\ stack'[filling'].kind = "list"
  BY <1>1 DEF Filling
<1>4. filling' \notin {0, WILD} /\ ~stack'[filling'].quit
  BY <1>1, <1>2
<1>5. CASE t.at = "data"
  <2>1. threads' = {[t EXCEPT !.at = "done"]} /\ netlink' = Append(netlink, Data(t.of))
    BY <1>2, <1>5 DEF ThreadSends
  <2>2. PICK m : m = Data(t.of)
    OBVIOUS
  <2>3. m \in Message /\ m.type = "DATA"
    BY <1>1, <2>2 DEF Data, Message, Thread, Code
  <2>4. Dones' = {}
    BY <1>0, <1>2, <2>1, <2>2, <2>3, DonesAppend
  <2>5. \A u, v \in threads' : u = v
    BY <2>1
  <2> QED
    BY <1>3, <1>4, <2>4, <2>5 DEF Filling
<1>6. CASE t.at # "data"
  <2>1. threads' = {} /\ netlink' = Append(netlink, Done(t.of))
    BY <1>2, <1>6 DEF ThreadSends
  <2>2. PICK m : m = Done(t.of)
    OBVIOUS
  <2>3. m \in Message
    BY <1>1, <2>2 DEF Done, Message, Thread, Code
  <2>4. \A j \in Dones' : j = Len(netlink) + 1
    BY <1>0, <1>2, <2>1, <2>2, <2>3, DonesAppend
  <2>5. \A i \in Datas' : i < Len(netlink) + 1
    <3>1. m.type = "DONE"
      BY <2>2 DEF Done
    <3> QED
      BY <1>0, <2>1, <2>2, <2>3, <3>1, DonesAppend
  <2> QED
    BY <1>3, <1>4, <2>1, <2>4, <2>5 DEF Filling
<1> QED
  BY <1>5, <1>6

\* A call begins: a second listing does not.
LEMMA FillingRead ==
  ASSUME IInv, Filling, OneLister, NEW c \in Client, ReadyRead(c)
  PROVE  Filling'
<1>0. Types
  BY DEF IInv
<1>1. PICK k \in 1..Calls, m \in Order :
        /\ Taken(c, k, m)
        /\ \/ m.kind = "change" /\ DoChange(m.id)
           \/ m.kind = "policyadd" /\ DoPolicyAdd(m.id)
           \/ m.kind = "flush" /\ DoFlush(m.id)
           \/ m.kind = "list" /\ DoList(m.id)
           \/ DoUnsent(m.id, m.kind)
  BY ReadStart
<1>2. m.id \in Id /\ ~Reading(c) /\ m.kind \in Kinds[c]
  BY <1>1 DEF Taken
<1>3. PICK f : f = [id |-> m.id, kind |-> m.kind, err |-> "OK", list |-> <<>>, quit |-> FALSE]
  OBVIOUS
<1>4. f \in Frame /\ f.kind = m.kind /\ f.quit = FALSE
  BY <1>2, <1>3 DEF Frame, Order, Code
<1>5. PICK n \in Nat : n = Len(stack)
  BY <1>0 DEF Types
<1>6. ASSUME stack' = Append(stack, f)
      PROVE  /\ \A i \in DOMAIN stack : i \in DOMAIN stack' /\ stack'[i] = stack[i]
             /\ n + 1 \in DOMAIN stack' /\ stack'[n + 1] = f
  <2>1. /\ DOMAIN stack' = 1..n + 1 /\ DOMAIN stack = 1..n /\ stack'[n + 1] = f
        /\ \A i \in DOMAIN stack : stack'[i] = stack[i]
    BY <1>0, <1>4, <1>5, <1>6, AppendSeq DEF Types
  <2> QED
    BY <2>1
<1>7. CASE m.kind = "change" /\ DoChange(m.id)
  <2>1. PICK code \in Code :
          Push(m.id, "change") /\ netlink' = Append(netlink, Err(code, m.id)) /\ UNCHANGED <<threads, filling>>
    BY <1>7 DEF DoChange
  <2>2. Err(code, m.id) \in Message /\ Err(code, m.id).type \notin {"DONE", "DATA"}
    BY <1>2 DEF Err, Message
  <2>3. stack' = Append(stack, f)
    BY <1>3, <1>7, <2>1 DEF Push
  <2> QED
    BY <1>6, <2>1, <2>2, <2>3, FillingPut
<1>8. CASE m.kind = "policyadd" /\ DoPolicyAdd(m.id)
  <2>1. Push(m.id, "policyadd") /\ UNCHANGED <<netlink, threads, filling>>
    BY <1>8 DEF DoPolicyAdd, kernel
  <2>2. stack' = Append(stack, f)
    BY <1>3, <1>8, <2>1 DEF Push
  <2> QED
    BY <1>6, <2>1, <2>2, FillingPut
<1>9. CASE m.kind = "flush" /\ DoFlush(m.id)
  <2>1. netlink' = Append(netlink, Err("OK", m.id)) /\ UNCHANGED <<stack, threads, filling>>
    BY <1>9 DEF DoFlush
  <2>2. Err("OK", m.id) \in Message /\ Err("OK", m.id).type \notin {"DONE", "DATA"}
    BY <1>2 DEF Err, Message, Code
  <2> QED
    BY <2>1, <2>2, FillingPut
<1>10. CASE m.kind = "list" /\ DoList(m.id)
  <2>1. /\ Push(m.id, "list") /\ netlink' = netlink /\ filling' = n + 1
        /\ threads' = threads \cup {[of |-> m.id, at |-> "data"]}
    BY <1>5, <1>10 DEF DoList
  <2>2. stack' = Append(stack, f)
    BY <1>3, <1>10, <2>1 DEF Push
  <2>3. threads = {} /\ Dones = {} /\ Datas = {}
    BY <1>2, <1>10, OneListing DEF Filling
  <2>4. (\A u, v \in threads' : u = v) /\ Dones' = {} /\ Datas' = {}
    BY <2>1, <2>3 DEF Dones, Datas
  <2>5. filling' \notin {0, WILD} /\ filling' \in DOMAIN stack' /\ stack'[filling'] = f
    <3>1. n + 1 \in Nat \ {0, WILD}
      BY DEF WILD
    <3> QED
      BY <1>6, <2>1, <2>2, <3>1
  <2> QED
    BY <1>4, <1>10, <2>4, <2>5 DEF Filling
<1>11. CASE DoUnsent(m.id, m.kind)
  <2>1. UNCHANGED <<stack, netlink, threads>> /\ filling' = (IF m.kind = "list" THEN WILD ELSE filling)
    BY <1>11 DEF DoUnsent, kernel
  <2>2. CASE m.kind = "list"
    <3>1. threads = {} /\ Dones = {} /\ Datas = {}
      BY <1>2, <2>2, OneListing DEF Filling
    <3> QED
      BY <2>1, <2>2, <3>1 DEF Filling, Dones, Datas
  <2>3. CASE m.kind # "list"
    BY <2>1, <2>3, FillingPut
  <2> QED
    BY <2>2, <2>3
<1> QED
  BY <1>1, <1>7, <1>8, <1>9, <1>10, <1>11

\* A call returns: the innermost one, which a listing that waits is not.
LEMMA FillingReturn ==
  ASSUME IInv, Filling, OneLister, Return
  PROVE  Filling'
<1>0. Types /\ OneFrame
  BY DEF IInv
<1>1. /\ stack # <<>> /\ stack' = Front(stack) /\ Top.quit
      /\ filling' = (IF Top.kind = "list" THEN 0 ELSE filling) /\ UNCHANGED <<netlink, threads>>
  BY DEF Return, Back, kernel
<1>2. PICK n : n = Len(stack)
  OBVIOUS
<1>3. /\ n \in DOMAIN stack /\ stack[n] = Top
      /\ \A i \in DOMAIN stack : i # n => i \in DOMAIN stack'
      /\ \A i \in DOMAIN stack' : stack'[i] = stack[i]
  BY <1>0, <1>1, <1>2, Popped
<1>4. Dones' = Dones /\ Datas' = Datas
  BY <1>1 DEF Dones, Datas
<1>5. CASE Top.kind = "list"
  <2>1. threads = {} /\ Dones = {} /\ Datas = {}
    BY <1>1, <1>3, <1>5, OneListing DEF Filling
  <2> QED
    BY <1>1, <1>4, <1>5, <2>1 DEF Filling
<1>6. CASE Top.kind # "list"
  <2>1. filling \notin {0, WILD} => filling # n /\ filling \in DOMAIN stack' /\ stack'[filling] = stack[filling]
    BY <1>3, <1>6 DEF Filling
  <2>2. /\ \A i, j \in Dones' : i = j
        /\ \A i \in Datas', j \in Dones' : i < j
    BY <1>4 DEF Filling
  <2> QED
    BY <1>1, <1>4, <1>6, <2>1, <2>2, FillingStays
<1> QED
  BY <1>5, <1>6

\* A timer runs out: not that of a listing.
LEMMA FillingExpire ==
  ASSUME IInv, Filling, OneLister, NEW i, Expire(i)
  PROVE  Filling'
<1>1. /\ i \in DOMAIN stack /\ stack[i].kind # "list"
      /\ stack' = [stack EXCEPT ![i] = [stack[i] EXCEPT !.quit = TRUE]]
      /\ UNCHANGED <<netlink, threads, filling>>
  BY DEF Expire, OneLister, kernel
<1>2. filling \notin {0, WILD} => filling # i /\ filling \in DOMAIN stack' /\ stack'[filling] = stack[filling]
  BY <1>1 DEF Filling
<1>3. Dones' = Dones /\ Datas' = Datas
  BY <1>1 DEF Dones, Datas
<1>4. (\A j, l \in Dones' : j = l) /\ (\A j \in Datas', l \in Dones' : j < l)
  BY <1>3 DEF Filling
<1> QED
  BY <1>1, <1>2, <1>3, <1>4, FillingStays

LEMMA StepFilling ==
  ASSUME IInv, Filling, OneLister, [Next]_vars
  PROVE  Filling'
<1>1. ASSUME UNCHANGED <<stack, netlink, threads, filling>> PROVE Filling'
  BY <1>1 DEF Filling, Dones, Datas
<1>2. CASE UNCHANGED vars
  BY <1>1, <1>2 DEF vars, server, kernel
<1>3. ASSUME NEW c \in Client, NewConnection(c) \/ Disconnected(c) \/ Delete(c) PROVE Filling'
  BY <1>1, <1>3 DEF NewConnection, Disconnected, Delete, kernel
<1>4. ASSUME NEW c \in Client, Receive(c) \/ Timeout(c) \/ End(c) PROVE Filling'
  BY <1>1, <1>4 DEF Receive, Timeout, End, server, kernel
<1>5. ASSUME NEW c \in Client, NEW kind \in Kind, Send(c, kind) PROVE Filling'
  BY <1>1, <1>5 DEF Send, kernel
<1>6. ASSUME NEW c \in Client, ReadyRead(c) PROVE Filling'
  BY <1>6, FillingRead
<1>7. ASSUME NEW i, Expire(i) PROVE Filling'
  BY <1>7, FillingExpire
<1>8. ASSUME NEW t, ThreadSends(t) PROVE Filling'
  BY <1>8, FillingThread
<1> QED
  BY <1>2, <1>3, <1>4, <1>5, <1>6, <1>7, <1>8, FillingProcess, FillingReturn DEF Next, Serve

-----------------------------------------------------------------------------
(* When the service goes down.                                             *)

\* What a step may do when it brings the service down.
Survives ==
  (up /\ ~up') =>
    /\ stack # <<>> /\ Top.quit
    /\ \E c \in Client :
         /\ c = Top.id[1] \/ (~apart /\ NumberOf(Top.id) \in DOMAIN route /\ c = route[NumberOf(Top.id)])
         /\ call[c].at = "ended" /\ sock[c].at = "gone"

LEMMA SurvivesReturn ==
  ASSUME IInv, Return
  PROVE  Survives
<1>1. PICK c \in Client, k \in 1..Calls, r \in Reply :
        /\ stack # <<>> /\ Top.id = <<c, k>> /\ NumberOf(Top.id) = Number[c][k]
        /\ apart => (Number[c][k] \in DOMAIN route => route[Number[c][k]] = c)
        /\ up' = (Safe(route, Number[c][k]) /\ Alive(sock[c]))
  BY ReturnStart
<1>2. Top.quit /\ Top.id[1] = c
  BY <1>1 DEF Return, Back
<1>3. \A d \in Client : sock[d].at = "gone" => call[d].at = "ended"
  BY DEF IInv, ClientInv, RoutesOf
<1>4. PICK n : n = Number[c][k]
  OBVIOUS
<1>5. ~up' => sock[c].at = "gone" \/ (n \in DOMAIN route /\ sock[route[n]].at = "gone")
  BY <1>1, <1>4 DEF Safe, Alive
<1>6. n \in DOMAIN route => route[n] \in Client
  BY DEF IInv, Types
<1>7. CASE sock[c].at = "gone"
  BY <1>1, <1>2, <1>3, <1>7 DEF Survives
<1>8. CASE n \in DOMAIN route /\ sock[route[n]].at = "gone"
  <2>1. PICK d \in Client : d = route[n] /\ sock[d].at = "gone"
    BY <1>6, <1>8
  <2>2. apart => d = c
    BY <1>1, <1>4, <1>8, <2>1
  <2> QED
    BY <1>1, <1>2, <1>3, <1>4, <1>8, <2>1, <2>2 DEF Survives
<1>9. CASE up'
  BY <1>9 DEF Survives
<1> QED
  BY <1>5, <1>7, <1>8, <1>9

LEMMA SurvivesStep ==
  ASSUME IInv, Filling, [Next]_vars
  PROVE  Survives
<1>1. ASSUME up' = up PROVE Survives
  BY <1>1 DEF Survives
<1>2. CASE UNCHANGED vars
  BY <1>1, <1>2 DEF vars, server
<1>3. ASSUME NEW c \in Client, NewConnection(c) \/ Disconnected(c) \/ Delete(c) PROVE Survives
  BY <1>1, <1>3 DEF NewConnection, Disconnected, Delete
<1>4. ASSUME NEW c \in Client, Receive(c) \/ Timeout(c) \/ End(c) PROVE Survives
  BY <1>1, <1>4 DEF Receive, Timeout, End, server
<1>5. ASSUME NEW c \in Client, NEW kind \in Kind, Send(c, kind) PROVE Survives
  BY <1>1, <1>5 DEF Send
<1>6. ASSUME NEW c \in Client, ReadyRead(c) PROVE Survives
  BY <1>1, <1>6 DEF ReadyRead, DoChange, DoPolicyAdd, DoFlush, DoList, DoUnsent
<1>7. ASSUME NEW i, Expire(i) PROVE Survives
  BY <1>1, <1>7 DEF Expire
<1>8. ASSUME NEW t, ThreadSends(t) PROVE Survives
  BY <1>1, <1>8 DEF ThreadSends, server
<1>9. CASE NlErr
  BY <1>1, <1>9 DEF NlErr
<1>11. CASE NlData
  <2>1. netlink # <<>> /\ Head(netlink).type = "DATA" /\ up' = (filling # WILD)
    BY <1>11 DEF NlData, Take
  <2>2. 1 \in Datas
    BY <2>1, TailSeq DEF IInv, Types, Datas
  <2>3. up'
    BY <2>1, <2>2 DEF Filling
  <2> QED
    BY <2>3 DEF Survives
<1>10. CASE NlDone
  <2>1. netlink # <<>> /\ Head(netlink).type = "DONE" /\ up' = (filling \notin {0, WILD})
    BY <1>10 DEF NlDone, Take
  <2>2. 1 \in Dones
    BY <2>1, TailSeq DEF IInv, Types, Dones
  <2>3. up'
    BY <2>1, <2>2 DEF Filling
  <2> QED
    BY <2>3 DEF Survives
<1> QED
  BY <1>2, <1>3, <1>4, <1>5, <1>6, <1>7, <1>8, <1>9, <1>10, <1>11, SurvivesReturn DEF Next, Serve, Process

\* As long as listings do not overlap the service never hands on a list that is NULL or
\* gone, whatever sends fail; and it uses a deleted socket only where onLocalReadyRead looks,
\* after a call, at that of a client which has ended (the deletion waits for no call of its
\* own client), or where the number of the call was used again meanwhile by such a client.
THEOREM ServiceSurvives == OneLister => (Spec => ServerSurvives)
<1>1. SUFFICES ASSUME OneLister
               PROVE  Spec => ServerSurvives
  OBVIOUS
<1>2. Init => Filling
  BY DEF Init, Filling, Dones, Datas
<1>3. IInv /\ Filling /\ [Next]_vars => Filling'
  BY <1>1, StepFilling
<1>4. IInv /\ Filling /\ [Next]_vars => [Survives]_vars
  BY SurvivesStep
<1>5. Spec => [][Survives]_vars
  BY <1>2, <1>3, <1>4, Invariant, PTL DEF Spec
<1> QED
  BY <1>5 DEF ServerSurvives, Survives

=============================================================================
