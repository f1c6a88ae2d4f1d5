---------------------------- MODULE BfClientProofs ----------------------------
(***************************************************************************)
(* Theorems about BfClient: frames are read whole, and lists and answers   *)
(* go wrong for the reasons that are named only.                           *)
(***************************************************************************)
EXTENDS BfClient, SequenceTheorems, TLAPS

Piece == {p \in [n : Nat, type : {"err", "data", "done"}, part : 0 .. 2] : p.part <= Pieces(p.type)}
Command == [op : {"add", "get", "async", "half"}, n : Nat]
Call == {c \in [op : {"add", "send", "get"}, n : Nat, left : Nat, failed : BOOLEAN, quit : BOOLEAN] :
           c.left > 0 => c.op = "send"}
Lists == {"wild", "null", "call", "dead", "async"}
Reasons == {"overlap", "nested", "timeout", "queue", "unsent"}

\* A frame's pieces follow each other, and after its last a frame begins.
Follows(a, b) == IF a.part < Pieces(a.type) THEN b = [a EXCEPT !.part = a.part + 1] ELSE b.part = 0

Joined(s) ==
  /\ s \in Seq(Piece)
  /\ \A i \in 1 .. Len(s) - 1 : Follows(s[i], s[i + 1])
  /\ s # <<>> => s[Len(s)].part = Pieces(s[Len(s)].type)

\* What a command is answered with; only a listing has rules and an end.
Answers(t, n, lists) ==
  /\ Joined(t) /\ t # <<>> /\ t[1].part = 0
  /\ \A i \in 1 .. Len(t) :
       /\ t[i].n = n
       /\ t[i].type # "err" => lists
       /\ t[i].type # "data" /\ t[i].part = 1 => i = Len(t)

\* What has been read of a frame, and what comes, fit together.
StreamInv ==
  /\ ~torn
  /\ Joined(coming)
  /\ wanted = 0 => buffer = <<>> /\ (coming # <<>> => coming[1].part = 0)
  /\ wanted # 0 =>
       /\ coming # <<>> /\ wanted = Pieces(coming[1].type)
       /\ buffer \in Seq(Piece) /\ Len(buffer) + 1 = coming[1].part
       /\ \A i \in 1 .. Len(buffer) : buffer[i] = [coming[1] EXCEPT !.part = i]

\* There is nothing on a connection that is gone.
ConnInv == ~sock => asked = <<>> /\ coming = <<>> /\ wanted = 0 /\ buffer = <<>>

\* A listing is still to come, or a part of it.
Listed ==
  \/ \E i \in 1 .. Len(asked) : asked[i].op \in {"get", "async"}
  \/ \E i \in 1 .. Len(coming) : coming[i].type \in {"data", "done"}

CallInv ==
  /\ asked \in Seq(Command) /\ queue \in Seq(Command) /\ calls \in Nat /\ slots \in Nat
  /\ stack \in Seq(Call)
  /\ ruleslst \in Lists /\ crash \in {"no", "null", "dead"} /\ why \subseteq Reasons

\* Without the queue, and while every command could be written, no listing is to come for
\* a list that is gone.
ToTheGone == why \cap {"queue", "unsent"} # {}
DeadInv ==
  /\ crash = "dead" => ToTheGone
  /\ ~ToTheGone => ~(Dead /\ Listed)

\* Without any of the reasons there is one call at most and one command outstanding at
\* most, the one of that call or an asynchronous listing, and its answer ends with one frame.
Single == Len(asked) <= 1 /\ (asked # <<>> => coming = <<>> /\ wanted = 0)
LastEnds ==
  \A i \in 1 .. Len(coming) : coming[i].type # "data" /\ coming[i].part = 1 => i = Len(coming)
OfTheCall ==
  Outstanding =>
    IF stack # <<>> THEN /\ ~stack[1].quit
                         /\ \A i \in 1 .. Len(asked) : asked[i].n = stack[1].n
                         /\ \A i \in 1 .. Len(coming) : coming[i].n = stack[1].n
    ELSE ruleslst = "async"
ListReady ==
  Listed => IF stack # <<>> THEN stack[1].op = "get" /\ ruleslst = "call" ELSE ruleslst = "async"

\* The server waits for the rest of a command.
Stuck == asked # <<>> /\ asked[1].op = "half" /\ coming = <<>> /\ wanted = 0

OneInv ==
  why = {} => /\ ~alien /\ crash # "null" /\ Len(stack) <= 1
              /\ Stuck \/ (Single /\ LastEnds /\ OfTheCall /\ ListReady)

ClientInv == StreamInv /\ ConnInv /\ CallInv /\ DeadInv /\ OneInv

-----------------------------------------------------------------------------
(* Frames.                                                                   *)

\* Whole frames after whole frames.
LEMMA JoinedConcat ==
  ASSUME NEW s, NEW t, Joined(s), Joined(t), t # <<>> => t[1].part = 0
  PROVE  /\ Joined(s \o t)
         /\ s # <<>> => s \o t # <<>> /\ (s \o t)[1] = s[1]
         /\ s = <<>> => s \o t = t
PROOF
  <1> DEFINE u == s \o t
  <1>0. s \in Seq(Piece) /\ t \in Seq(Piece) /\ Len(s) \in Nat /\ Len(t) \in Nat BY DEF Joined
  <1>1. u \in Seq(Piece) /\ Len(u) = Len(s) + Len(t) BY <1>0
  <1>2. \A i \in 1 .. Len(s) : u[i] = s[i] BY <1>0
  <1>3. \A i \in 1 .. Len(t) : u[Len(s) + i] = t[i] BY <1>0
  <1>4. s = <<>> => u = t BY <1>0
  <1> HIDE DEF u
  <1>5. ASSUME NEW i \in 1 .. Len(u) - 1
        PROVE  Follows(u[i], u[i + 1])
    <2>1. CASE i < Len(s)
      <3>1. i \in 1 .. Len(s) - 1 /\ i \in 1 .. Len(s) /\ i + 1 \in 1 .. Len(s) BY <2>1, <1>0
      <3> QED BY <3>1, <1>2 DEF Joined
    <2>2. CASE i = Len(s)
      <3>1. s # <<>> /\ u[i] = s[Len(s)] BY <1>0, <1>2, <2>2
      <3>2. 1 \in 1 .. Len(t) /\ t # <<>> BY <1>0, <1>1, <2>2
      <3>3. u[i + 1].part = 0 BY <3>2, <2>2, <1>3
      <3>4. u[i].part = Pieces(u[i].type) BY <3>1 DEF Joined
      <3> QED BY <3>3, <3>4 DEF Follows, Pieces
    <2>3. CASE i > Len(s)
      <3>1. PICK j \in 1 .. Len(t) - 1 : i = Len(s) + j
        <4>1. i - Len(s) \in 1 .. Len(t) - 1 BY <2>3, <1>0, <1>1
        <4>2. i = Len(s) + (i - Len(s)) BY <1>0
        <4> QED BY <4>1, <4>2
      <3>2. j \in 1 .. Len(t) /\ j + 1 \in 1 .. Len(t) /\ i + 1 = Len(s) + (j + 1) BY <3>1, <1>0
      <3>3. u[i] = t[j] /\ u[i + 1] = t[j + 1] BY <1>3, <3>1, <3>2
      <3>4. Follows(t[j], t[j + 1]) BY DEF Joined
      <3> QED BY <3>3, <3>4
    <2> QED BY <2>1, <2>2, <2>3, <1>0
  <1>6. u # <<>> => u[Len(u)].part = Pieces(u[Len(u)].type)
    <2>1. CASE t = <<>>
      <3>1. Len(u) = Len(s) /\ (u # <<>> => s # <<>>) BY <2>1, <1>0, <1>1, <1>4
      <3>2. u # <<>> => u[Len(u)] = s[Len(s)]
        <4>1. s # <<>> => Len(s) \in 1 .. Len(s) BY <1>0
        <4> QED BY <3>1, <4>1, <1>2
      <3> QED BY <3>1, <3>2 DEF Joined
    <2>2. CASE t # <<>>
      <3>1. Len(t) \in 1 .. Len(t) BY <2>2, <1>0
      <3>2. u[Len(u)] = t[Len(t)] BY <3>1, <1>1, <1>3
      <3> QED BY <3>2, <2>2 DEF Joined
    <2> QED BY <2>1, <2>2
  <1>7. s # <<>> => u # <<>> /\ u[1] = s[1]
    <2> HAVE s # <<>>
    <2>1. 1 \in 1 .. Len(s) /\ Len(u) # 0 BY <1>0, <1>1
    <2> QED BY <2>1, <1>2, <1>1
  <1>8. Joined(u) BY <1>1, <1>5, <1>6 DEF Joined
  <1> QED BY <1>4, <1>7, <1>8 DEF u

\* Taking a piece off the front leaves frames whose first may have lost its beginning.
LEMMA JoinedTail ==
  ASSUME NEW s, Joined(s), s # <<>>
  PROVE  /\ Joined(Tail(s)) /\ s[1] \in Piece /\ Head(s) = s[1]
         /\ s[1].part < Pieces(s[1].type) => Tail(s) # <<>>
         /\ Tail(s) # <<>> => Follows(s[1], Tail(s)[1])
PROOF
  <1> DEFINE u == Tail(s)
  <1>0. s \in Seq(Piece) /\ Len(s) \in Nat /\ Len(s) >= 1 BY DEF Joined
  <1>1. /\ u \in Seq(Piece) /\ Len(u) = Len(s) - 1 /\ (u = <<>> <=> Len(s) = 1)
        /\ \A i \in 1 .. Len(s) - 1 : u[i] = s[i + 1]
    <2>1. u \in Seq(Piece) /\ Len(u) = Len(s) - 1 BY <1>0
    <2>2. \A i \in 1 .. Len(s) - 1 : u[i] = s[i + 1] BY <1>0
    <2> HIDE DEF u
    <2>3. u = <<>> <=> Len(u) = 0 BY <2>1, EmptySeq
    <2> QED BY <1>0, <2>1, <2>2, <2>3
  <1> HIDE DEF u
  <1>2. \A i \in 1 .. Len(u) - 1 : Follows(u[i], u[i + 1])
    <2> TAKE i \in 1 .. Len(u) - 1
    <2>1. i \in 1 .. Len(s) - 1 /\ i + 1 \in 1 .. Len(s) - 1 BY <1>0, <1>1
    <2>2. Follows(s[i + 1], s[(i + 1) + 1]) BY <2>1 DEF Joined
    <2> QED BY <1>1, <2>1, <2>2
  <1>3. u # <<>> => u[Len(u)].part = Pieces(u[Len(u)].type)
    <2> HAVE u # <<>>
    <2>1. Len(u) \in 1 .. Len(s) - 1 /\ Len(u) + 1 = Len(s) BY <1>0, <1>1
    <2>2. u[Len(u)] = s[Len(s)] BY <1>1, <2>1
    <2> QED BY <2>2 DEF Joined
  <1>4. s[1].part < Pieces(s[1].type) => u # <<>>
    <2>1. u = <<>> => s[1].part = Pieces(s[1].type) BY <1>1 DEF Joined
    <2> QED BY <2>1 DEF Pieces
  <1>5. u # <<>> => Follows(s[1], u[1])
    <2> HAVE u # <<>>
    <2>1. 1 \in 1 .. Len(s) - 1 BY <1>0, <1>1
    <2>2. u[1] = s[1 + 1] /\ Follows(s[1], s[1 + 1]) BY <1>1, <2>1 DEF Joined
    <2> QED BY <2>2
  <1>6. Head(s) = s[1] /\ s[1] \in Piece BY <1>0
  <1> QED BY <1>1, <1>2, <1>3, <1>4, <1>5, <1>6 DEF Joined, u

\* An error is an answer to any command.
LEMMA FrameJoined ==
  ASSUME NEW n \in Nat
  PROVE  Answers(Frame(n, "err"), n, FALSE)
PROOF
  <1>1. Frame(n, "err") = [i \in 1 .. 2 |-> [n |-> n, type |-> "err", part |-> i - 1]]
    BY DEF Frame, Pieces
  <1>2. \A i \in 1 .. 2 : [n |-> n, type |-> "err", part |-> i - 1] \in Piece BY DEF Piece, Pieces
  <1>3. Frame(n, "err") \in Seq(Piece) /\ Len(Frame(n, "err")) = 2 BY <1>1, <1>2
  <1>4. /\ Frame(n, "err")[1] = [n |-> n, type |-> "err", part |-> 0]
        /\ Frame(n, "err")[2] = [n |-> n, type |-> "err", part |-> 1]
    BY <1>1
  <1>5. \A i \in 1 .. 2 - 1 : i = 1 OBVIOUS
  <1>6. Joined(Frame(n, "err")) BY <1>3, <1>4, <1>5 DEF Joined, Pieces, Follows
  <1> DEFINE F == Frame(n, "err")
  <1>7. \A i \in 1 .. 2 : i = 1 \/ i = 2 OBVIOUS
  <1>8. F # <<>>
    <2>1. Len(<<>>) = 0 /\ Len(F) = 2 BY <1>3, EmptySeq
    <2> HIDE DEF F
    <2> QED BY <2>1
  <1>9. F[1].part = 0 BY <1>4
  <1>10. ASSUME NEW i \in 1 .. Len(F)
         PROVE  F[i].n = n /\ F[i].type = "err" /\ (F[i].part = 1 => i = Len(F))
    <2>1. CASE i = 1 BY <1>4, <2>1
    <2>2. CASE i = 2 BY <1>3, <1>4, <2>2
    <2> QED BY <2>1, <2>2, <1>3, <1>7
  <1> QED BY <1>6, <1>8, <1>9, <1>10 DEF Answers

\* A listing is an answer to a command that asks for one.
LEMMA ListingJoined ==
  ASSUME NEW n \in Nat, NEW k \in Nat
  PROVE  Answers(Listing(n, k), n, TRUE)
PROOF
  <1> DEFINE L == Listing(n, k)
             r == 3 * k
  <1>1. r \in Nat /\ r % 3 = 0 OBVIOUS
  <1>2. L = [i \in 1 .. r + 2 |->
              [n |-> n, type |-> IF i <= r THEN "data" ELSE "done",
               part |-> IF i <= r THEN (i - 1) % 3 ELSE i - r - 1]]
    BY DEF Listing
  <1> HIDE DEF L, r
  <1>3. \A i \in 1 .. r : L[i] = [n |-> n, type |-> "data", part |-> (i - 1) % 3] BY <1>1, <1>2
  <1>4. /\ L[r + 1] = [n |-> n, type |-> "done", part |-> 0]
        /\ L[r + 2] = [n |-> n, type |-> "done", part |-> 1]
    BY <1>1, <1>2
  <1>5. \A i \in 1 .. r : (i - 1) % 3 \in 0 .. 2 BY <1>1
  <1>6. \A i \in 1 .. r + 2 : L[i] \in Piece
    <2> TAKE i \in 1 .. r + 2
    <2>1. CASE i <= r
      <3>1. i \in 1 .. r BY <1>1, <2>1
      <3>2. PICK q \in 0 .. 2 : q = (i - 1) % 3 BY <3>1, <1>5
      <3>3. L[i] = [n |-> n, type |-> "data", part |-> q] BY <3>1, <3>2, <1>3
      <3> QED BY <3>3 DEF Piece, Pieces
    <2>2. CASE i = r + 1 BY <1>4, <2>2 DEF Piece, Pieces
    <2>3. CASE i = r + 2 BY <1>4, <2>3 DEF Piece, Pieces
    <2>4. i <= r \/ i = r + 1 \/ i = r + 2 BY <1>1
    <2> QED BY <2>1, <2>2, <2>3, <2>4
  <1>7. L \in Seq(Piece) /\ Len(L) = r + 2 BY <1>1, <1>2, <1>6
  <1>8. ASSUME NEW i \in 1 .. Len(L) - 1
        PROVE  Follows(L[i], L[i + 1])
    <2>1. CASE i < r
      <3>1. i \in 1 .. r /\ i + 1 \in 1 .. r /\ (i + 1) - 1 = i BY <1>1, <2>1
      <3>2. L[i] = [n |-> n, type |-> "data", part |-> (i - 1) % 3] BY <3>1, <1>3
      <3>3. L[i + 1] = [n |-> n, type |-> "data", part |-> i % 3] BY <3>1, <1>3
      <3>4. IF (i - 1) % 3 < 2 THEN i % 3 = ((i - 1) % 3) + 1 ELSE i % 3 = 0 BY <3>1
      <3> QED BY <3>2, <3>3, <3>4 DEF Pieces, Follows
    <2>2. CASE i = r
      <3>1. i \in 1 .. r BY <2>2
      <3>2. L[i] = [n |-> n, type |-> "data", part |-> (i - 1) % 3] BY <3>1, <1>3
      <3>3. (i - 1) % 3 = 2 BY <1>1, <2>2, <3>1
      <3> QED BY <3>2, <3>3, <1>4, <2>2 DEF Pieces, Follows
    <2>3. CASE i = r + 1
      <3>1. i + 1 = r + 2 BY <1>1, <2>3
      <3> QED BY <2>3, <3>1, <1>4 DEF Pieces, Follows
    <2> QED BY <1>1, <1>7, <2>1, <2>2, <2>3
  <1>9. L # <<>> /\ L[Len(L)].part = Pieces(L[Len(L)].type) BY <1>1, <1>4, <1>7 DEF Pieces
  <1>10. L[1].part = 0
    <2>1. CASE r = 0
      <3>1. L[0 + 1] = [n |-> n, type |-> "done", part |-> 0] BY <2>1, <1>4
      <3>2. 0 + 1 = 1 OBVIOUS
      <3> QED BY <3>1, <3>2
    <2>2. CASE r > 0
      <3>1. 1 \in 1 .. r /\ (1 - 1) % 3 = 0 BY <2>2, <1>1
      <3>2. L[1] = [n |-> n, type |-> "data", part |-> (1 - 1) % 3] BY <3>1, <1>3
      <3> QED BY <3>1, <3>2
    <2> QED BY <2>1, <2>2, <1>1
  <1>11. Joined(L) BY <1>7, <1>8, <1>9 DEF Joined
  <1>12. ASSUME NEW i \in 1 .. Len(L)
         PROVE  /\ L[i].n = n
                /\ L[i].type # "data" /\ L[i].part = 1 => i = Len(L)
    <2>1. CASE i <= r
      <3>1. i \in 1 .. r BY <1>1, <2>1
      <3>2. L[i] = [n |-> n, type |-> "data", part |-> (i - 1) % 3] BY <3>1, <1>3
      <3> QED BY <3>2
    <2>2. CASE i = r + 1
      <3>1. L[i] = [n |-> n, type |-> "done", part |-> 0] BY <1>4, <2>2
      <3> QED BY <3>1
    <2>3. CASE i = r + 2
      <3>1. L[i] = [n |-> n, type |-> "done", part |-> 1] BY <1>4, <2>3
      <3> QED BY <3>1, <1>7, <2>3
    <2>4. i <= r \/ i = r + 1 \/ i = r + 2 BY <1>1, <1>7
    <2> QED BY <2>1, <2>2, <2>3, <2>4
  <1> QED BY <1>9, <1>10, <1>11, <1>12 DEF L, Answers

-----------------------------------------------------------------------------
(* What the variables hold.                                                  *)

\* The innermost call, and those around it.
LEMMA Innermost ==
  ASSUME stack \in Seq(Call), stack # <<>>
  PROVE  /\ Len(stack) \in Nat \ {0} /\ Len(stack) \in 1 .. Len(stack)
         /\ Top = stack[Len(stack)] /\ Top \in Call
         /\ Front(stack) \in Seq(Call) /\ Len(Front(stack)) = Len(stack) - 1
         /\ \A i \in 1 .. Len(stack) - 1 : Front(stack)[i] = stack[i]
PROOF
  <1>1. Len(stack) \in Nat \ {0} BY EmptySeq
  <1>2. Top = stack[Len(stack)] BY DEF Top, Last
  <1>3. Front(stack) = SubSeq(stack, 1, Len(stack) - 1) BY DEF Front
  <1>4. Top \in Call BY <1>1, <1>2
  <1>5. /\ Front(stack) \in Seq(Call) /\ Len(Front(stack)) = Len(stack) - 1
        /\ \A i \in 1 .. Len(stack) - 1 : Front(stack)[i] = stack[i]
    <2>1. PICK n \in Nat : n = Len(stack) - 1 BY <1>1
    <2>2. \A i \in 1 .. n : stack[i] \in Call BY <1>1, <2>1
    <2>3. /\ SubSeq(stack, 1, n) \in Seq(Call)
          /\ Len(SubSeq(stack, 1, n)) = IF 1 <= n THEN n - 1 + 1 ELSE 0
          /\ \A i \in 1 .. n - 1 + 1 : SubSeq(stack, 1, n)[i] = stack[1 + i - 1]
      BY <2>2, SubSeqProperties
    <2>4. Len(SubSeq(stack, 1, n)) = n BY <2>3
    <2>5. \A i \in 1 .. n : SubSeq(stack, 1, n)[i] = stack[i] BY <2>3
    <2> QED BY <1>3, <2>1, <2>3, <2>4, <2>5
  <1> QED BY <1>1, <1>2, <1>4, <1>5

\* What sendCommand leaves when it cannot write.
LEMMA Unwritten ==
  ASSUME CallInv, NEW cmd \in Command, NotWritten(cmd)
  PROVE  /\ asked' \in Seq(Command) /\ queue' \in Seq(Command) /\ why' \subseteq Reasons
         /\ why \subseteq why'
         /\ ~sock => asked' = asked
         /\ sock /\ Outstanding => "unsent" \in why'
         /\ asked' = asked \/ \E c \in Command : c.op = "half" /\ asked' = Append(asked, c)
PROOF
  <1> DEFINE c == [cmd EXCEPT !.op = "half"]
  <1>1. c \in Command /\ c.op = "half" BY DEF Command
  <1> HIDE DEF c
  <1>2. /\ why' \subseteq Reasons /\ why \subseteq why' /\ (sock /\ Outstanding => "unsent" \in why')
    BY DEF NotWritten, If, CallInv, Reasons
  <1>3. CASE ~sock
    <2>1. queue' = Append(queue, cmd) /\ asked' = asked BY <1>3 DEF NotWritten
    <2> QED BY <1>2, <1>3, <2>1 DEF CallInv
  <1>4. CASE sock
    <2>1. asked' \in {asked, Append(asked, c)} /\ queue' = queue BY <1>4 DEF NotWritten, c
    <2>2. asked \in Seq(Command) /\ queue \in Seq(Command) BY DEF CallInv
    <2>3. Append(asked, c) \in Seq(Command) BY <1>1, <2>2
    <2>4. asked' \in Seq(Command) /\ queue' \in Seq(Command) BY <2>1, <2>2, <2>3
    <2>5. asked' = asked \/ \E d \in Command : d.op = "half" /\ asked' = Append(asked, d)
      BY <1>1, <2>1
    <2> QED BY <1>2, <1>4, <2>4, <2>5
  <1> QED BY <1>3, <1>4

\* What is told to the calls under way leaves them what they are.
LEMMA Told ==
  ASSUME CallInv,
         ReadErr \/ ReadData \/ ReadDone \/ Timeout
  PROVE  /\ stack' \in Seq(Call) /\ Len(stack') = Len(stack)
         /\ \A i \in 1 .. Len(stack) : stack'[i].op = stack[i].op /\ stack'[i].n = stack[i].n
PROOF
  <1>0. stack \in Seq(Call) /\ Len(stack) \in Nat /\ DOMAIN stack = 1 .. Len(stack) BY DEF CallInv
  <1>1. \A c \in Call, failed \in BOOLEAN :
          LET d == [c EXCEPT !.failed = failed, !.quit = TRUE]
              e == [c EXCEPT !.quit = TRUE]
          IN  d \in Call /\ d.op = c.op /\ d.n = c.n /\ e \in Call /\ e.op = c.op /\ e.n = c.n
    BY DEF Call
  <1>2. \A i \in 1 .. Len(stack) : stack[i] \in Call BY <1>0
  <1>3. ASSUME NEW f, stack' = [i \in DOMAIN stack |-> f[i]],
               \A i \in 1 .. Len(stack) : f[i] \in Call /\ f[i].op = stack[i].op /\ f[i].n = stack[i].n
        PROVE  /\ stack' \in Seq(Call) /\ Len(stack') = Len(stack)
               /\ \A i \in 1 .. Len(stack) : stack'[i].op = stack[i].op /\ stack'[i].n = stack[i].n
    BY <1>0, <1>3
  <1>4. CASE ReadErr
    <2>1. PICK failed \in BOOLEAN :
            stack' = [i \in DOMAIN stack |->
                        IF stack[i].op = "get" THEN stack[i]
                        ELSE [stack[i] EXCEPT !.failed = failed, !.quit = TRUE]]
      BY <1>4 DEF ReadErr
    <2>2. PICK f : f = [i \in DOMAIN stack |->
                        IF stack[i].op = "get" THEN stack[i]
                        ELSE [stack[i] EXCEPT !.failed = failed, !.quit = TRUE]]
      OBVIOUS
    <2>3. \A i \in 1 .. Len(stack) : f[i] \in Call /\ f[i].op = stack[i].op /\ f[i].n = stack[i].n
      BY <1>0, <1>1, <1>2, <2>2
    <2>4. stack' = [i \in DOMAIN stack |-> f[i]] BY <2>1, <2>2
    <2> QED BY <1>3, <2>3, <2>4
  <1>5. CASE Done
    <2>1. PICK f : f = [i \in DOMAIN stack |->
                        IF stack[i].op = "get" THEN [stack[i] EXCEPT !.quit = TRUE] ELSE stack[i]]
      OBVIOUS
    <2>2. \A i \in 1 .. Len(stack) : f[i] \in Call /\ f[i].op = stack[i].op /\ f[i].n = stack[i].n
      BY <1>0, <1>1, <1>2, <2>1
    <2>3. stack' = [i \in DOMAIN stack |-> f[i]] BY <1>5, <2>1 DEF Done
    <2> QED BY <1>3, <2>2, <2>3
  <1>6. CASE Timeout
    <2>1. PICK j \in DOMAIN stack : stack' = [stack EXCEPT ![j].quit = TRUE] BY <1>6 DEF Timeout
    <2>2. PICK f : f = [i \in DOMAIN stack |->
                        IF i = j THEN [stack[i] EXCEPT !.quit = TRUE] ELSE stack[i]]
      OBVIOUS
    <2>3. \A i \in 1 .. Len(stack) : f[i] \in Call /\ f[i].op = stack[i].op /\ f[i].n = stack[i].n
      BY <1>0, <1>1, <1>2, <2>2
    <2>4. stack' = [i \in DOMAIN stack |-> f[i]] BY <1>0, <2>1, <2>2
    <2> QED BY <1>3, <2>3, <2>4
  <1>7. CASE ReadData BY <1>0, <1>7 DEF ReadData
  <1> QED BY <1>4, <1>5, <1>6, <1>7 DEF ReadDone

\* The calls, the queue and the list keep their types.
LEMMA CallStep == CallInv /\ StreamInv /\ [Next]_vars => CallInv'
PROOF
  <1> SUFFICES ASSUME CallInv, StreamInv, [Next]_vars PROVE CallInv'
    OBVIOUS
  <1> USE ClientAssumption
  <1>1. \A op \in Op, n \in Nat : Cmd(op, n) \in Command BY DEF Cmd, Command
  <1>2. Cmd("add", calls + 1) \in Command BY DEF Cmd, Command, CallInv
  <1>3. \A f \in BOOLEAN : ListAfter(f) \in Lists BY DEF ListAfter, CallInv, Lists
  <1>4. ASSUME NEW op \in Op, Begin(op) PROVE CallInv'
    <2>1. stack' \in Seq(Call)
      <3>1. CASE op = "async" BY <1>4, <3>1 DEF Begin, CallInv
      <3>2. CASE op # "async"
        <4>1. Calling(op, calls + 1, IF op = "send" THEN 1 ELSE 0) \in Call
          BY <3>2 DEF Calling, Call, CallInv
        <4>2. stack' = Append(stack, Calling(op, calls + 1, IF op = "send" THEN 1 ELSE 0))
          BY <1>4, <3>2 DEF Begin
        <4> QED BY <4>1, <4>2 DEF CallInv
      <3> QED BY <3>1, <3>2
    <2>2. ruleslst' \in Lists BY <1>4 DEF Begin, ListWhenAsked, CallInv, Lists
    <2>3. why' \subseteq Reasons BY <1>4 DEF Begin, If, CallInv, Reasons
    <2>4. asked' \in Seq(Command) /\ calls' \in Nat /\ queue' = queue
      BY <1>1, <1>4 DEF Begin, Written, CallInv
    <2>5. crash' = crash /\ slots' = slots BY <1>4 DEF Begin, session
    <2> QED BY <2>1, <2>2, <2>3, <2>4, <2>5 DEF CallInv
  <1>5. ASSUME NEW op \in Op, BeginOff(op) PROVE CallInv'
    <2>1. ruleslst' \in Lists BY <1>5 DEF BeginOff, ListWhenOff, CallInv, Lists
    <2>2. NotWritten(Cmd(op, calls + 1)) /\ calls' = calls + 1 BY <1>5 DEF BeginOff
    <2>3. Cmd(op, calls + 1) \in Command BY <1>1 DEF CallInv
    <2>4. asked' \in Seq(Command) /\ queue' \in Seq(Command) /\ why' \subseteq Reasons
      BY <2>2, <2>3, Unwritten
    <2>5. UNCHANGED <<stack, crash, slots>> BY <1>5 DEF BeginOff, session
    <2> QED BY <2>1, <2>2, <2>4, <2>5 DEF CallInv
  <1>6. CASE Return
    <2>1. stack # <<>> /\ stack' = Front(stack) /\ ruleslst' = ListAfter(Top.failed)
      BY <1>6 DEF Return
    <2>2. Top \in Call /\ Front(stack) \in Seq(Call) BY <2>1, Innermost DEF CallInv
    <2>3. ruleslst' \in Lists BY <2>1, <2>2, <1>3 DEF Call
    <2>4. UNCHANGED <<asked, queue, calls, slots, crash, why>> BY <1>6 DEF Return, session
    <2> QED BY <2>1, <2>2, <2>3, <2>4 DEF CallInv
  <1>7. CASE NextRule
    <2>1. stack # <<>> /\ Top.left > 0 /\ calls' = calls + 1 /\ UNCHANGED <<slots, crash>>
      BY <1>7 DEF NextRule, session
    <2>2. Top \in Call /\ Front(stack) \in Seq(Call) BY <2>1, Innermost DEF CallInv
    <2>3. CASE Written(Cmd("add", calls + 1))
               /\ stack' = Append(Front(stack), Calling("send", calls + 1, Top.left - 1))
               /\ UNCHANGED <<ruleslst, why>>
      <3>1. Calling("send", calls + 1, Top.left - 1) \in Call
        BY <2>1, <2>2 DEF Calling, Call, CallInv
      <3>2. stack' \in Seq(Call) BY <2>2, <2>3, <3>1
      <3>3. asked' \in Seq(Command) /\ queue' = queue BY <2>3, <1>2 DEF Written, CallInv
      <3> QED BY <2>1, <2>3, <3>2, <3>3 DEF CallInv
    <2>4. CASE NotWritten(Cmd("add", calls + 1)) /\ stack' = Front(stack) /\ ruleslst' = ListAfter(TRUE)
      <3>1. asked' \in Seq(Command) /\ queue' \in Seq(Command) /\ why' \subseteq Reasons
        BY <2>4, <1>2, Unwritten
      <3>2. ruleslst' \in Lists BY <2>4, <1>3
      <3>3. stack' \in Seq(Call) /\ calls' \in Nat /\ slots' \in Nat /\ crash' \in {"no", "null", "dead"}
        BY <2>1, <2>2, <2>4 DEF CallInv
      <3> QED BY <3>1, <3>2, <3>3 DEF CallInv
    <2> QED BY <1>7, <2>3, <2>4 DEF NextRule
  <1>8. CASE Timeout
    <2>1. why' \subseteq Reasons BY <1>8 DEF Timeout, If, CallInv, Reasons
    <2> QED BY <1>8, <2>1, Told DEF Timeout, CallInv, session
  <1>9. CASE Connect
    <2>1. why' \subseteq Reasons BY <1>9 DEF Connect, If, CallInv, Reasons
    <2>2. LeastOf(slots, Len(queue)) \in 0 .. Len(queue) BY DEF LeastOf, CallInv
    <2>3. asked' \in Seq(Command) /\ queue' \in Seq(Command)
      <3> DEFINE k == LeastOf(slots, Len(queue))
      <3>1. PICK w \in 0 .. k : asked' = SubSeq(queue, 1, w) BY <1>9 DEF Connect
      <3>2. queue' = SubSeq(queue, k + 1, Len(queue)) BY <1>9 DEF Connect
      <3>3. k \in 0 .. Len(queue) BY <2>2
      <3> HIDE DEF k
      <3>4. w \in 0 .. Len(queue) /\ queue \in Seq(Command) /\ Len(queue) \in Nat BY <3>3 DEF CallInv
      <3> QED BY <3>1, <3>2, <3>3, <3>4
    <2> QED BY <1>9, <2>1, <2>3 DEF Connect, CallInv
  <1>10. CASE Disconnect BY <1>10 DEF Disconnect, CallInv
  <1>11. CASE Serve
    <2>1. asked' \in Seq(Command) BY <1>11 DEF Serve, CallInv
    <2> QED BY <1>11, <2>1 DEF Serve, CallInv, session
  <1>12. CASE ReadSize BY <1>12 DEF ReadSize, CallInv, session
  <1>13. CASE ReadPart BY <1>13 DEF ReadPart, CallInv, session
  <1>14. CASE ReadErr BY <1>14, Told DEF ReadErr, Message, CallInv, session
  <1>15. CASE ReadData BY <1>15, Told DEF ReadData, Message, CallInv, session
  <1>16. CASE ReadDone BY <1>16, Told DEF ReadDone, Message, CallInv, session, Lists
  <1>17. CASE UNCHANGED vars BY <1>17 DEF vars, CallInv
  <1> QED BY <1>4, <1>5, <1>6, <1>7, <1>8, <1>9, <1>10, <1>11, <1>12, <1>13, <1>14, <1>15, <1>16, <1>17
     DEF Next

-----------------------------------------------------------------------------
(* What is read of an answer.                                                *)

\* Nothing is whole.
LEMMA EmptyJoined == Joined(<<>>)
PROOF
  <1>1. <<>> \in Seq(Piece) /\ Len(<<>>) = 0 BY EmptySeq
  <1> QED BY <1>1 DEF Joined

\* BFLocalServer's answer to the first command is appended to what is coming.
LEMMA Answered ==
  ASSUME CallInv, Serve
  PROVE  /\ asked # <<>> /\ asked' = Tail(asked)
         /\ asked[1] \in Command /\ Head(asked) = asked[1]
         /\ \E t : /\ Answers(t, asked[1].n, asked[1].op \in {"get", "async"})
                   /\ coming' = coming \o t
PROOF
  <1> USE ClientAssumption
  <1> DEFINE lists == asked[1].op \in {"get", "async"}
  <1>1. asked # <<>> /\ asked \in Seq(Command) /\ asked' = Tail(asked) BY DEF Serve, CallInv
  <1>2. asked[1] \in Command /\ Head(asked) = asked[1] BY <1>1, EmptySeq
  <1>3. asked[1].n \in Nat BY <1>2 DEF Command
  <1>4. CASE coming' = coming \o Frame(asked[1].n, "err")
    <2>1. Answers(Frame(asked[1].n, "err"), asked[1].n, lists) BY <1>3, FrameJoined DEF Answers
    <2> QED BY <1>1, <1>2, <1>4, <2>1
  <1>5. ASSUME lists, NEW k \in 0 .. MaxRules, coming' = coming \o Listing(asked[1].n, k)
        PROVE  \E t : Answers(t, asked[1].n, lists) /\ coming' = coming \o t
    <2>1. k \in Nat OBVIOUS
    <2>2. Answers(Listing(asked[1].n, k), asked[1].n, lists)
      <3>1. Answers(Listing(asked[1].n, k), asked[1].n, TRUE) BY <1>3, <2>1, ListingJoined
      <3>2. lists = TRUE BY <1>5
      <3> QED BY <3>1, <3>2
    <2> QED BY <1>5, <2>2
  <1>6. coming' = coming \o Frame(asked[1].n, "err")
          \/ (lists /\ \E k \in 0 .. MaxRules : coming' = coming \o Listing(asked[1].n, k))
    BY <1>2 DEF Serve
  <1> QED BY <1>1, <1>2, <1>4, <1>5, <1>6

\* A read takes the first piece; the rest of its frame is there still.
LEMMA PieceTaken ==
  ASSUME StreamInv, coming # <<>>
  PROVE  /\ coming[1] \in Piece /\ Head(coming) = coming[1] /\ Joined(Tail(coming))
         /\ Len(coming) \in Nat /\ 1 \in 1 .. Len(coming) /\ Len(Tail(coming)) = Len(coming) - 1
         /\ \A i \in 1 .. Len(coming) - 1 : Tail(coming)[i] = coming[i + 1]
         /\ coming[1].part < Pieces(coming[1].type) => Tail(coming) # <<>>
         /\ Tail(coming) # <<>> => Follows(coming[1], Tail(coming)[1])
PROOF
  <1>1. coming \in Seq(Piece) BY DEF StreamInv, Joined
  <1>2. Len(coming) \in Nat \ {0} BY <1>1, EmptySeq
  <1>3. /\ Len(Tail(coming)) = Len(coming) - 1
        /\ \A i \in 1 .. Len(coming) - 1 : Tail(coming)[i] = coming[i + 1]
    BY <1>1, <1>2
  <1> QED BY <1>2, <1>3, JoinedTail DEF StreamInv

\* A connection that is closed leaves nothing.
LEMMA ConnStep == CallInv /\ ConnInv /\ [Next]_vars => ConnInv'
PROOF
  <1> SUFFICES ASSUME CallInv, ConnInv, [Next]_vars PROVE ConnInv'
    OBVIOUS
  <1>0. \A cmd : Written(cmd) \/ NotWritten(cmd) => (~sock => asked' = asked)
    BY DEF Written, NotWritten
  <1>1. ASSUME NEW op \in Op, Begin(op) \/ BeginOff(op) PROVE ConnInv'
    BY <1>0, <1>1 DEF Begin, BeginOff, ConnInv, session, stream
  <1>2. CASE Return \/ NextRule \/ Timeout
    <2>1. ~sock => UNCHANGED asked BY <1>0, <1>2 DEF Return, NextRule, Timeout
    <2>2. UNCHANGED <<sock, coming, wanted, buffer>>
      BY <1>2 DEF Return, NextRule, Timeout, session, stream
    <2> QED BY <2>1, <2>2 DEF ConnInv
  <1>3. CASE Connect BY <1>3 DEF Connect, ConnInv
  <1>4. CASE Disconnect BY <1>4 DEF Disconnect, ConnInv
  <1>5. CASE Serve BY <1>5 DEF Serve, ConnInv, session
  <1>6. CASE ReadSize BY <1>6 DEF ReadSize, ConnInv, session
  <1>7. CASE ReadPart BY <1>7 DEF ReadPart, ConnInv, session
  <1>8. CASE ReadErr \/ ReadData \/ ReadDone
    BY <1>8 DEF ReadErr, ReadData, ReadDone, Message, ConnInv, session
  <1>9. CASE UNCHANGED vars BY <1>9 DEF vars, ConnInv
  <1> QED BY <1>1, <1>2, <1>3, <1>4, <1>5, <1>6, <1>7, <1>8, <1>9 DEF Next

\* No step tears a frame.
LEMMA StreamStep == CallInv /\ ConnInv /\ StreamInv /\ [Next]_vars => StreamInv'
PROOF
  <1> SUFFICES ASSUME CallInv, ConnInv, StreamInv, [Next]_vars PROVE StreamInv'
    OBVIOUS
  <1>1. ASSUME UNCHANGED <<coming, torn>>, UNCHANGED stream PROVE StreamInv'
    BY <1>1 DEF StreamInv, stream
  <1>2. ASSUME NEW op \in Op, Begin(op) \/ BeginOff(op) PROVE StreamInv'
    BY <1>1, <1>2 DEF Begin, BeginOff
  <1>3. CASE Return \/ NextRule \/ Timeout BY <1>1, <1>3 DEF Return, NextRule, Timeout
  <1>4. CASE Connect BY <1>1, <1>4 DEF Connect, ConnInv, stream
  <1>5. CASE Disconnect BY <1>5, EmptyJoined DEF Disconnect, StreamInv
  <1>6. CASE Serve
    <2>1. PICK t : Joined(t) /\ t # <<>> /\ t[1].part = 0 /\ coming' = coming \o t
      BY <1>6, Answered DEF Answers
    <2>2. /\ Joined(coming')
          /\ coming # <<>> => coming' # <<>> /\ coming'[1] = coming[1]
          /\ coming = <<>> => coming' = t
      BY <2>1, JoinedConcat DEF StreamInv
    <2>3. UNCHANGED <<wanted, buffer, torn>> BY <1>6 DEF Serve, stream
    <2> QED BY <2>1, <2>2, <2>3 DEF StreamInv
  <1>7. CASE ReadSize
    <2>1. coming # <<>> /\ wanted = 0 /\ buffer = <<>> /\ coming[1].part = 0
      BY <1>7 DEF ReadSize, StreamInv
    <2>2. /\ coming' = Tail(coming) /\ wanted' = Pieces(coming[1].type) /\ buffer' = <<>>
          /\ ~torn'
      BY <1>7, <2>1, PieceTaken DEF ReadSize, StreamInv, Size
    <2>3. coming' # <<>> /\ coming'[1] = [coming[1] EXCEPT !.part = 1]
      BY <2>1, <2>2, PieceTaken DEF Follows, Pieces
    <2>4. coming'[1].part = 1 /\ coming'[1].type = coming[1].type
      BY <2>1, <2>3, PieceTaken DEF Piece
    <2>5. buffer' \in Seq(Piece) /\ Len(buffer') = 0 BY <2>2, EmptySeq
    <2> QED BY <2>1, <2>2, <2>3, <2>4, <2>5, PieceTaken DEF StreamInv, Pieces
  <1>8. CASE ReadPart
    <2>1. coming # <<>> /\ wanted # 0 /\ coming[1].part < Pieces(coming[1].type)
      BY <1>8 DEF ReadPart, StreamInv
    <2>2. /\ coming' = Tail(coming) /\ wanted' = wanted /\ buffer' = Append(buffer, coming[1])
          /\ ~torn'
      BY <1>8, <2>1, PieceTaken DEF ReadPart, StreamInv
    <2>3. coming' # <<>> /\ coming'[1] = [coming[1] EXCEPT !.part = coming[1].part + 1]
      BY <2>1, <2>2, PieceTaken DEF Follows
    <2>4. /\ coming'[1].part = coming[1].part + 1 /\ coming'[1].type = coming[1].type
          /\ \A i : [coming'[1] EXCEPT !.part = i] = [coming[1] EXCEPT !.part = i]
      BY <2>1, <2>3, PieceTaken DEF Piece
    <2>5. /\ buffer' \in Seq(Piece) /\ Len(buffer') = Len(buffer) + 1
          /\ buffer'[Len(buffer) + 1] = coming[1]
          /\ \A i \in 1 .. Len(buffer) : buffer'[i] = buffer[i]
      BY <2>1, <2>2, PieceTaken DEF StreamInv
    <2>6. coming[1] = [coming[1] EXCEPT !.part = Len(buffer) + 1]
      BY <2>1, PieceTaken DEF StreamInv, Piece
    <2>7. \A i \in 1 .. Len(buffer') : buffer'[i] = [coming'[1] EXCEPT !.part = i]
      <3>1. \A i \in 1 .. Len(buffer) : buffer[i] = [coming[1] EXCEPT !.part = i]
        BY <2>1 DEF StreamInv
      <3>2. \A i \in 1 .. Len(buffer) : buffer'[i] = [coming'[1] EXCEPT !.part = i]
        BY <3>1, <2>4, <2>5
      <3>3. buffer'[Len(buffer) + 1] = [coming'[1] EXCEPT !.part = Len(buffer) + 1]
        BY <2>4, <2>5, <2>6
      <3>4. Len(buffer) \in Nat BY <2>1 DEF StreamInv
      <3>5. \A i \in 1 .. Len(buffer) + 1 : i \in 1 .. Len(buffer) \/ i = Len(buffer) + 1 BY <3>4
      <3> QED BY <3>2, <3>3, <3>5, <2>5
    <2> QED BY <2>1, <2>2, <2>3, <2>4, <2>5, <2>7, PieceTaken DEF StreamInv
  <1>9. ASSUME NEW type, Message(type), Taken PROVE StreamInv'
    <2>1. /\ coming # <<>> /\ wanted # 0
          /\ coming[1].part = wanted /\ wanted = Pieces(coming[1].type)
      BY <1>9 DEF Message, StreamInv, Pieces
    <2>2. coming' = Tail(coming) /\ wanted' = 0 /\ buffer' = <<>> BY <1>9 DEF Message, Taken
    <2>3. \A i \in 1 .. wanted : Append(buffer, coming[1])[i] = [coming[1] EXCEPT !.part = i]
      <3>1. Len(buffer) + 1 = wanted /\ buffer \in Seq(Piece) BY <2>1 DEF StreamInv
      <3>2. Append(buffer, coming[1])[wanted] = [coming[1] EXCEPT !.part = wanted]
        BY <2>1, <3>1, PieceTaken DEF Piece
      <3>3. \A i \in 1 .. Len(buffer) :
              Append(buffer, coming[1])[i] = [coming[1] EXCEPT !.part = i]
        BY <2>1, <3>1, PieceTaken DEF StreamInv
      <3> QED BY <3>1, <3>2, <3>3
    <2>4. ~torn' BY <1>9, <2>1, <2>3, PieceTaken DEF Message, StreamInv
    <2>5. coming' # <<>> => coming'[1].part = 0 BY <2>1, <2>2, PieceTaken DEF Follows, Pieces
    <2> QED BY <2>1, <2>2, <2>4, <2>5, PieceTaken DEF StreamInv
  <1>10. CASE ReadErr \/ ReadData \/ ReadDone BY <1>9, <1>10 DEF ReadErr, ReadData, ReadDone
  <1>11. CASE UNCHANGED vars BY <1>1, <1>11 DEF vars, stream
  <1> QED BY <1>2, <1>3, <1>4, <1>5, <1>6, <1>7, <1>8, <1>10, <1>11 DEF Next


-----------------------------------------------------------------------------
(* The list of rules.                                                        *)

\* What is taken off either way leaves no listing that was not there.
LEMMA LessListed ==
  ASSUME StreamInv, coming # <<>>, asked' = asked, coming' = Tail(coming), Listed'
  PROVE  Listed
PROOF
  <1>1. \A i \in 1 .. Len(coming) - 1 : coming'[i] = coming[i + 1] /\ i + 1 \in 1 .. Len(coming)
    BY PieceTaken
  <1>2. 1 .. Len(coming') = 1 .. Len(coming) - 1 BY PieceTaken
  <1> QED BY <1>1, <1>2 DEF Listed

\* The server answers with rules only where it was asked for them.
LEMMA ServeListed ==
  ASSUME StreamInv, CallInv, Serve, Listed'
  PROVE  Listed
PROOF
  <1>1. /\ asked # <<>> /\ asked' = Tail(asked) BY Answered
  <1>2. PICK t : /\ Answers(t, asked[1].n, asked[1].op \in {"get", "async"})
                 /\ coming' = coming \o t
    BY Answered
  <1>3. asked \in Seq(Command) /\ coming \in Seq(Piece) /\ t \in Seq(Piece)
    BY <1>2 DEF CallInv, StreamInv, Joined, Answers
  <1>4. Len(asked) \in Nat \ {0} BY <1>1, <1>3, EmptySeq
  <1>5. ASSUME NEW i \in 1 .. Len(asked'), asked'[i].op \in {"get", "async"} PROVE Listed
    <2>1. asked'[i] = asked[i + 1] /\ i + 1 \in 1 .. Len(asked) BY <1>1, <1>3, <1>4
    <2> QED BY <1>5, <2>1 DEF Listed
  <1>6. ASSUME NEW i \in 1 .. Len(coming'), coming'[i].type \in {"data", "done"} PROVE Listed
    <2>1. CASE i <= Len(coming)
      <3>1. i \in 1 .. Len(coming) /\ coming'[i] = coming[i] BY <1>2, <1>3, <2>1
      <3> QED BY <1>6, <3>1 DEF Listed
    <2>2. CASE i > Len(coming)
      <3>1. i - Len(coming) \in 1 .. Len(t) /\ coming'[i] = t[i - Len(coming)]
        BY <1>2, <1>3, <2>2
      <3>2. asked[1].op \in {"get", "async"} BY <1>2, <1>6, <3>1 DEF Answers
      <3>3. 1 \in 1 .. Len(asked) BY <1>4
      <3> QED BY <3>2, <3>3 DEF Listed
    <2> QED BY <1>3, <2>1, <2>2
  <1> QED BY <1>5, <1>6 DEF Listed

\* One command more: a listing has come only if the command is one.
LEMMA MoreListed ==
  ASSUME CallInv, NEW c, c \in Command, asked' = Append(asked, c), coming' = coming, Listed'
  PROVE  Listed \/ c.op \in {"get", "async"}
PROOF
  <1>1. /\ Len(asked') = Len(asked) + 1 /\ asked'[Len(asked) + 1] = c
        /\ \A i \in 1 .. Len(asked) : asked'[i] = asked[i]
        /\ Len(asked) \in Nat
    BY DEF CallInv
  <1>2. \A i \in 1 .. Len(asked) + 1 : i \in 1 .. Len(asked) \/ i = Len(asked) + 1 BY <1>1
  <1> QED BY <1>1, <1>2 DEF Listed

\* A list that a call waits for stays one while the call is there.
LEMMA Lasts ==
  ASSUME CallInv
  PROVE  /\ stack' = stack /\ ruleslst' = ruleslst => (Dead' => Dead)
         /\ ReadErr \/ ReadData \/ Timeout => (Dead' => Dead)
         /\ Return \/ NextRule => (Dead' => Dead)
         /\ \A op \in Op : Begin(op) => (Dead' => Dead)
         /\ \A op \in {"get", "async"} : Begin(op) => ~Dead'
PROOF
  <1> USE ClientAssumption
  <1>0. stack \in Seq(Call) /\ Len(stack) \in Nat /\ DOMAIN stack = 1 .. Len(stack) BY DEF CallInv
  <1>1. stack' = stack /\ ruleslst' = ruleslst => (Dead' => Dead) BY DEF Dead, Waits
  <1>2. ASSUME ReadErr \/ ReadData \/ Timeout PROVE Dead' => Dead
    <2>1. ruleslst' = ruleslst BY <1>2 DEF ReadErr, ReadData, Timeout
    <2>2. /\ stack' \in Seq(Call) /\ Len(stack') = Len(stack)
          /\ \A i \in 1 .. Len(stack) : stack'[i].op = stack[i].op
      BY <1>2, Told
    <2>3. DOMAIN stack' = 1 .. Len(stack) BY <2>2
    <2>4. Waits("get") => Waits("get")' BY <1>0, <2>2, <2>3 DEF Waits
    <2> QED BY <2>1, <2>4 DEF Dead
  <1>3. ASSUME stack # <<>>, Top.op # "get", Waits("get"), NEW t \in Seq(Call),
               stack' = Front(stack) \/ \E c \in Call : stack' = Append(Front(stack), c)
        PROVE  Waits("get")'
    <2>1. PICK i \in 1 .. Len(stack) : stack[i].op = "get" BY <1>0, <1>3 DEF Waits
    <2>2. i # Len(stack) BY <1>0, <1>3, <2>1, Innermost
    <2>3. /\ i \in 1 .. Len(stack) - 1 /\ Front(stack)[i] = stack[i]
          /\ Front(stack) \in Seq(Call) /\ Len(Front(stack)) = Len(stack) - 1
      <3>1. i \in 1 .. Len(stack) - 1
        <4>1. PICK n \in Nat : n = Len(stack) BY <1>0
        <4>2. i \in 1 .. n /\ i # n BY <2>2, <4>1
        <4>3. i \in 1 .. n - 1 BY ONLY <4>1, <4>2
        <4> QED BY <4>1, <4>3
      <3> QED BY <1>0, <1>3, <3>1, Innermost
    <2>4. i \in DOMAIN stack' /\ stack'[i] = Front(stack)[i]
      <3>1. CASE stack' = Front(stack) BY <2>3, <3>1
      <3>2. ASSUME NEW c \in Call, stack' = Append(Front(stack), c)
            PROVE  i \in DOMAIN stack' /\ stack'[i] = Front(stack)[i]
        <4> DEFINE f == Front(stack)
        <4>1. f \in Seq(Call) /\ i \in 1 .. Len(f) /\ stack' = Append(f, c) BY <2>3, <3>2
        <4> HIDE DEF f
        <4>2. i \in DOMAIN stack' /\ stack'[i] = f[i] BY <4>1
        <4> QED BY <4>2 DEF f
      <3> QED BY <1>3, <3>1, <3>2
    <2> QED BY <2>1, <2>3, <2>4 DEF Waits
  <1>4. ASSUME Return \/ NextRule, Dead' PROVE Dead
    <2>1. stack # <<>> /\ Top \in Call BY <1>0, <1>4, Innermost DEF Return, NextRule
    <2>2. ruleslst' # "null" BY <1>4 DEF Dead
    <2>3. CASE Return
      <3>1. Top.op # "get" /\ ruleslst' = ruleslst /\ stack' = Front(stack)
        BY <1>4, <2>2, <2>3 DEF Return, ListAfter
      <3>2. Waits("get") => Waits("get")' BY <1>3, <2>1, <3>1, <1>0
      <3> QED BY <1>4, <3>1, <3>2 DEF Dead
    <2>4. CASE NextRule
      <3>1. Top.op = "send" /\ Top.left \in Nat \ {0} BY <2>1, <2>4 DEF NextRule, Call
      <3>2. ruleslst' = ruleslst BY <2>2, <2>4, <3>1 DEF NextRule, ListAfter
      <3>3. Calling("send", calls + 1, Top.left - 1) \in Call
        BY <3>1 DEF Calling, Call, CallInv
      <3>4. stack' = Front(stack) \/ \E c \in Call : stack' = Append(Front(stack), c)
        BY <2>4, <3>3 DEF NextRule
      <3>5. Waits("get") => Waits("get")' BY <1>3, <2>1, <3>1, <3>4, <1>0
      <3> QED BY <1>4, <3>2, <3>5 DEF Dead
    <2> QED BY <1>4, <2>3, <2>4
  <1>5. ASSUME NEW op \in Op, Begin(op)
        PROVE  /\ Dead' => Dead
               /\ op \in {"get", "async"} => ~Dead'
    <2>1. CASE op = "async" BY <1>5, <2>1 DEF Begin, ListWhenAsked, Dead
    <2>2. CASE op # "async"
      <3>1. PICK c : c = Calling(op, calls + 1, IF op = "send" THEN 1 ELSE 0) OBVIOUS
      <3>2. c.op = op BY <3>1 DEF Calling
      <3>3. stack' = Append(stack, c) BY <1>5, <2>2, <3>1 DEF Begin
      <3>4. /\ DOMAIN stack' = 1 .. Len(stack) + 1 /\ stack'[Len(stack) + 1] = c
            /\ \A i \in 1 .. Len(stack) : stack'[i] = stack[i]
        BY <1>0, <3>3
      <3>5. Waits("get") => Waits("get")' BY <1>0, <3>4 DEF Waits
      <3>6. op = "get" => Waits("get")' BY <1>0, <3>2, <3>4 DEF Waits
      <3>7. ruleslst' = IF op = "get" THEN "call" ELSE ruleslst
        BY <1>5, <2>2 DEF Begin, ListWhenAsked
      <3> QED BY <2>2, <3>5, <3>6, <3>7 DEF Dead
    <2> QED BY <2>1, <2>2
  <1>6. \A op \in {"get", "async"} : Begin(op) => ~Dead'
    <2> SUFFICES ASSUME NEW op \in {"get", "async"}, Begin(op), Dead' PROVE FALSE OBVIOUS
    <2>1. CASE op = "async" BY <2>1 DEF Begin, ListWhenAsked, Dead
    <2>2. CASE op = "get"
      <3>1. PICK c : c = Calling(op, calls + 1, IF op = "send" THEN 1 ELSE 0) OBVIOUS
      <3>2. c.op = op BY <3>1 DEF Calling
      <3>3. stack' = Append(stack, c) BY <2>2, <3>1 DEF Begin
      <3>4. DOMAIN stack' = 1 .. Len(stack) + 1 /\ stack'[Len(stack) + 1] = c BY <1>0, <3>3
      <3>5. Waits("get")' BY <1>0, <2>2, <3>2, <3>4 DEF Waits
      <3>6. ruleslst' = "call" BY <2>2 DEF Begin, ListWhenAsked
      <3> QED BY <3>5, <3>6 DEF Dead
    <2> QED BY <2>1, <2>2
  <1> QED BY <1>1, <1>2, <1>4, <1>5, <1>6

\* One command more, written as it is or by half.
LEMMA SentListed ==
  ASSUME CallInv, NEW cmd \in Command, Written(cmd) \/ NotWritten(cmd), coming' = coming, Listed'
  PROVE  Listed \/ (Written(cmd) /\ cmd.op \in {"get", "async"})
PROOF
  <1>1. CASE Written(cmd) BY <1>1, MoreListed DEF Written
  <1>2. CASE NotWritten(cmd)
    <2>1. CASE asked' = asked BY <2>1 DEF Listed
    <2>2. ASSUME NEW c \in Command, c.op = "half", asked' = Append(asked, c) PROVE Listed
      BY <2>2, MoreListed
    <2> QED BY <1>2, <2>1, <2>2, Unwritten
  <1> QED BY <1>1, <1>2

\* No step but the sending of the queue, or one that cannot write, brings a listing to a
\* list that is gone.
LEMMA DeadStep ==
  CallInv /\ ConnInv /\ StreamInv /\ DeadInv /\ [Next]_vars => DeadInv'
PROOF
  <1> SUFFICES ASSUME CallInv, ConnInv, StreamInv, DeadInv, [Next]_vars PROVE DeadInv'
    OBVIOUS
  <1> USE ClientAssumption
  <1>0. asked' = <<>> /\ coming' = <<>> => ~Listed'
    <2>1. Len(<<>>) = 0 BY EmptySeq
    <2>2. 1 .. 0 = {} OBVIOUS
    <2> QED BY <2>1, <2>2 DEF Listed
  <1>a. ASSUME why \subseteq why', crash' = crash,
               ~ToTheGone' => ~(Dead' /\ Listed') \/ ((Dead' => Dead) /\ (Listed' => Listed))
        PROVE  DeadInv'
    BY <1>a DEF DeadInv, ToTheGone
  <1>b. \A op \in Op : Cmd(op, calls + 1) \in Command BY DEF Cmd, Command, CallInv
  <1>c. Cmd("add", calls + 1) \in Command BY DEF Cmd, Command, CallInv
  <1>1. ASSUME NEW op \in Op, Begin(op) PROVE DeadInv'
    <2>1. crash' = crash /\ why \subseteq why' BY <1>1 DEF Begin, If
    <2>2. Written(Cmd(op, calls + 1)) /\ coming' = coming BY <1>1 DEF Begin
    <2>3. ASSUME Listed' PROVE Listed \/ op \in {"get", "async"}
      BY <1>b, <2>2, <2>3, SentListed DEF Cmd
    <2>4. CASE op \in {"get", "async"}
      <3>1. ~Dead' BY <1>1, <2>4, Lasts
      <3> QED BY <1>a, <2>1, <3>1
    <2>5. CASE op \notin {"get", "async"}
      <3>1. Dead' => Dead BY <1>1, Lasts
      <3> QED BY <1>a, <2>1, <2>3, <2>5, <3>1
    <2> QED BY <2>4, <2>5
  <1>2. ASSUME NEW op \in Op, BeginOff(op) PROVE DeadInv'
    <2>1. NotWritten(Cmd(op, calls + 1)) /\ coming' = coming /\ crash' = crash
      BY <1>2 DEF BeginOff
    <2>2. why \subseteq why' /\ (sock /\ Outstanding => "unsent" \in why')
      BY <1>b, <2>1, Unwritten
    <2>3. CASE sock /\ Outstanding BY <1>a, <2>1, <2>2, <2>3 DEF ToTheGone
    <2>4. CASE ~(sock /\ Outstanding)
      <3>1. ~Listed
        <4>1. asked = <<>> /\ coming = <<>> BY <2>4 DEF Outstanding, ConnInv
        <4>2. Len(<<>>) = 0 /\ 1 .. 0 = {} BY EmptySeq
        <4> QED BY <4>1, <4>2 DEF Listed
      <3>2. ~Listed'
        <4>2. CASE asked' = asked BY <2>1, <3>1, <4>2 DEF Listed
        <4>3. ASSUME NEW c \in Command, c.op = "half", asked' = Append(asked, c) PROVE ~Listed'
          BY <2>1, <3>1, <4>3, MoreListed
        <4> QED BY <1>b, <2>1, <4>2, <4>3, Unwritten
      <3> QED BY <1>a, <2>1, <2>2, <3>2
    <2> QED BY <2>3, <2>4
  <1>3. CASE Return
    <2>1. asked' = asked /\ coming' = coming /\ crash' = crash /\ why' = why BY <1>3 DEF Return
    <2>2. Listed' => Listed BY <2>1 DEF Listed
    <2> QED BY <1>a, <1>3, <2>1, <2>2, Lasts
  <1>4. CASE NextRule
    <2>1. coming' = coming /\ crash' = crash BY <1>4 DEF NextRule
    <2>2. /\ Written(Cmd("add", calls + 1)) \/ NotWritten(Cmd("add", calls + 1))
          /\ why \subseteq why'
      BY <1>4 DEF NextRule, NotWritten
    <2>3. Listed' => Listed BY <1>c, <2>1, <2>2, SentListed DEF Cmd
    <2> QED BY <1>a, <1>4, <2>1, <2>2, <2>3, Lasts
  <1>13. CASE Timeout
    <2>1. asked' = asked /\ coming' = coming /\ crash' = crash /\ why \subseteq why'
      BY <1>13 DEF Timeout
    <2>2. Listed' => Listed BY <2>1 DEF Listed
    <2> QED BY <1>a, <1>13, <2>1, <2>2, Lasts
  <1>5. CASE Connect
    <2>1. crash' = crash /\ why \subseteq why' /\ coming' = <<>> BY <1>5 DEF Connect, ConnInv
    <2>2. CASE LeastOf(slots, Len(queue)) > 0
      BY <1>5, <2>2, <2>1, <1>a DEF Connect, If, ToTheGone
    <2>3. CASE LeastOf(slots, Len(queue)) = 0
      <3>1. asked' = <<>>
        <4>1. asked' = SubSeq(queue, 1, 0) /\ queue \in Seq(Command)
          BY <1>5, <2>3 DEF Connect, CallInv
        <4> QED BY <4>1
      <3> QED BY <1>a, <2>1, <3>1, <1>0
    <2>4. LeastOf(slots, Len(queue)) \in Nat BY DEF LeastOf, CallInv
    <2> QED BY <2>2, <2>3, <2>4
  <1>6. CASE Disconnect
    <2>1. ~Listed' BY <1>6, <1>0 DEF Disconnect
    <2> QED BY <1>a, <1>6, <2>1 DEF Disconnect
  <1>7. CASE Serve
    <2>1. Listed' => Listed BY <1>7, ServeListed
    <2>2. UNCHANGED <<crash, why, ruleslst, stack>> BY <1>7 DEF Serve
    <2> QED BY <1>a, <2>1, <2>2, Lasts
  <1>8. CASE ReadSize \/ ReadPart
    <2>1. coming # <<>> /\ asked' = asked /\ coming' = Tail(coming) BY <1>8 DEF ReadSize, ReadPart
    <2>2. Listed' => Listed BY <2>1, LessListed
    <2>3. UNCHANGED <<crash, why, ruleslst, stack>> BY <1>8 DEF ReadSize, ReadPart
    <2> QED BY <1>a, <2>2, <2>3, Lasts
  <1>9. ASSUME NEW type, Message(type)
        PROVE  /\ Listed' => Listed
               /\ why' = why /\ type = coming[1].type
               /\ type \in {"data", "done"} => Listed
    <2>1. coming # <<>> /\ asked' = asked /\ coming' = Tail(coming) /\ why' = why
      BY <1>9 DEF Message
    <2>2. type = coming[1].type BY <1>9, <2>1, PieceTaken DEF Message
    <2>3. 1 \in 1 .. Len(coming) BY <2>1, PieceTaken
    <2>4. type \in {"data", "done"} => Listed BY <2>2, <2>3 DEF Listed
    <2> QED BY <2>1, <2>2, <2>4, LessListed
  <1>10. CASE ReadErr
    <2>1. (Listed' => Listed) /\ why' = why BY <1>9, <1>10 DEF ReadErr
    <2>2. crash' = crash BY <1>10 DEF ReadErr
    <2> QED BY <1>a, <1>10, <2>1, <2>2, Lasts
  <1>11. CASE ReadData
    <2>1. (Listed' => Listed) /\ why' = why /\ Listed BY <1>9, <1>11 DEF ReadData
    <2>2. crash' = "dead" => Dead BY <1>11 DEF ReadData
    <2>3. Dead' => Dead BY <1>11, Lasts
    <2> QED BY <2>1, <2>2, <2>3 DEF DeadInv, ToTheGone
  <1>12. CASE ReadDone
    <2>1. why' = why /\ Listed BY <1>9, <1>12 DEF ReadDone
    <2>2. ruleslst' = "null" /\ (crash' = "dead" => Dead) BY <1>12 DEF ReadDone
    <2> QED BY <2>1, <2>2 DEF DeadInv, Dead, ToTheGone
  <1>14. CASE UNCHANGED vars BY <1>14 DEF vars, DeadInv, Dead, Waits, Listed, ToTheGone
  <1> QED BY <1>1, <1>2, <1>3, <1>4, <1>5, <1>6, <1>7, <1>8, <1>10, <1>11, <1>12, <1>13, <1>14 DEF Next


-----------------------------------------------------------------------------
(* One command at a time.                                                    *)

\* With nothing outstanding there is nothing to mix up.
LEMMA NothingOutstanding ==
  ASSUME asked = <<>>, coming = <<>>, wanted = 0
  PROVE  Single /\ LastEnds /\ OfTheCall /\ ListReady /\ ~Listed
PROOF
  <1>1. Len(<<>>) = 0 BY EmptySeq
  <1>2. 1 .. 0 = {} OBVIOUS
  <1>3. Single BY <1>1 DEF Single
  <1>4. LastEnds BY <1>1, <1>2 DEF LastEnds
  <1>5. OfTheCall BY DEF OfTheCall, Outstanding
  <1>6. ~Listed BY <1>1, <1>2 DEF Listed
  <1> QED BY <1>3, <1>4, <1>5, <1>6 DEF ListReady

\* One command is sent when nothing is outstanding.
LEMMA OneSent ==
  ASSUME NEW c, c \in Command, asked' = Append(<<>>, c), coming' = <<>>, wanted' = 0,
         IF stack' # <<>> THEN /\ ~stack'[1].quit /\ stack'[1].n = c.n /\ c.op # "async"
                               /\ c.op = "get" => stack'[1].op = "get" /\ ruleslst' = "call"
         ELSE ruleslst' = "async"
  PROVE  (Single /\ LastEnds /\ OfTheCall /\ ListReady)'
PROOF
  <1>1. Len(asked') = 1 /\ asked'[1] = c /\ Len(coming') = 0 BY EmptySeq
  <1>2. 1 .. 0 = {} /\ \A i \in 1 .. 1 : i = 1 OBVIOUS
  <1>3. Single' BY <1>1 DEF Single
  <1>4. LastEnds' BY <1>1, <1>2 DEF LastEnds
  <1>5. OfTheCall' BY <1>1, <1>2 DEF OfTheCall
  <1>6. Listed' => c.op \in {"get", "async"} BY <1>1, <1>2 DEF Listed
  <1>7. ListReady' BY <1>6 DEF ListReady
  <1> QED BY <1>3, <1>4, <1>5, <1>7

\* A piece is taken off, and it is not the last frame's last.
LEMMA OneTaken ==
  ASSUME StreamInv, coming # <<>>, Single, LastEnds, OfTheCall, ListReady,
         asked' = asked, coming' = Tail(coming), stack' = stack, ruleslst' = ruleslst
  PROVE  (Single /\ LastEnds /\ OfTheCall /\ ListReady)' /\ asked' = <<>>
PROOF
  <1>1. /\ Len(coming) \in Nat /\ 1 .. Len(coming') = 1 .. Len(coming) - 1
        /\ \A i \in 1 .. Len(coming) - 1 : coming'[i] = coming[i + 1] /\ i + 1 \in 1 .. Len(coming)
    BY PieceTaken
  <1>2. asked = <<>> BY DEF Single
  <1>3. Single' BY <1>2, EmptySeq DEF Single
  <1>4. LastEnds'
    <2>1. Len(coming') = Len(coming) - 1 BY PieceTaken
    <2>2. ASSUME NEW i \in 1 .. Len(coming'), coming'[i].type # "data", coming'[i].part = 1
          PROVE  i = Len(coming')
      <3>1. coming'[i] = coming[i + 1] /\ i + 1 \in 1 .. Len(coming) BY <1>1
      <3>2. i + 1 = Len(coming) BY <2>2, <3>1 DEF LastEnds
      <3>3. i \in Nat BY <2>1, <1>1
      <3>4. Len(coming') = (i + 1) - 1 BY <2>1, <3>2
      <3> QED BY <3>3, <3>4
    <2> QED BY <2>2 DEF LastEnds
  <1>5. OfTheCall'
    <2>1. Outstanding BY DEF Outstanding
    <2>2. CASE stack # <<>>
      <3>1. ~stack[1].quit /\ \A i \in 1 .. Len(coming) : coming[i].n = stack[1].n
        BY <2>1, <2>2 DEF OfTheCall
      <3>2. \A i \in 1 .. Len(coming') : coming'[i].n = stack[1].n BY <3>1, <1>1
      <3>3. Len(asked') = 0 /\ 1 .. 0 = {} BY <1>2, EmptySeq
      <3> QED BY <2>2, <3>1, <3>2, <3>3 DEF OfTheCall
    <2>3. CASE stack = <<>> BY <2>1, <2>3 DEF OfTheCall
    <2> QED BY <2>2, <2>3
  <1>6. ListReady' BY LessListed DEF ListReady
  <1> QED BY <1>2, <1>3, <1>4, <1>5, <1>6

\* A command behind half of one waits with it.
LEMMA StuckBehind ==
  ASSUME CallInv, Stuck, NEW c \in Command, asked' \in {asked, Append(asked, c)},
         coming' = coming, wanted' = wanted
  PROVE  Stuck'
PROOF
  <1>1. asked \in Seq(Command) /\ asked # <<>> /\ asked[1].op = "half" BY DEF CallInv, Stuck
  <1>2. asked' # <<>> /\ asked'[1] = asked[1]
    <2>1. Len(asked) \in Nat \ {0} BY <1>1, EmptySeq
    <2>2. CASE asked' = Append(asked, c)
      <3>1. asked' \in Seq(Command) /\ Len(asked') = Len(asked) + 1 /\ asked'[1] = asked[1]
        BY <1>1, <2>1, <2>2
      <3>2. Len(asked') # 0 BY <2>1, <3>1
      <3> QED BY <3>1, <3>2, EmptySeq
    <2> QED BY <2>2, <1>1
  <1> QED BY <1>1, <1>2 DEF Stuck

\* Every step that names no reason keeps one command outstanding at most.
LEMMA OneStep ==
  CallInv /\ ConnInv /\ StreamInv /\ OneInv /\ [Next]_vars => OneInv'
PROOF
  <1> SUFFICES ASSUME CallInv, ConnInv, StreamInv, OneInv, [Next]_vars, why' = {} PROVE OneInv'
    BY DEF OneInv
  <1> USE ClientAssumption
  <1> DEFINE All == Single /\ LastEnds /\ OfTheCall /\ ListReady
             Quiet == asked = <<>> /\ coming = <<>> /\ wanted = 0
             Calm == ~alien /\ crash # "null" /\ Len(stack) <= 1
  <1>0. why = {} => Calm /\ (Stuck \/ All) BY DEF OneInv
  <1>s. stack \in Seq(Call) /\ Len(stack) \in Nat BY DEF CallInv
  <1>1. ASSUME asked' = <<>>, coming' = <<>>, wanted' = 0 PROVE All'
    <2>1. Len(<<>>) = 0 BY EmptySeq
    <2>2. 1 .. 0 = {} OBVIOUS
    <2>3. Single' BY <1>1, <2>1 DEF Single
    <2>4. LastEnds' BY <1>1, <2>1, <2>2 DEF LastEnds
    <2>5. OfTheCall' BY <1>1 DEF OfTheCall, Outstanding
    <2>6. ~Listed' BY <1>1, <2>1, <2>2 DEF Listed
    <2> QED BY <2>3, <2>4, <2>5, <2>6 DEF ListReady
  <1>c. \A op \in Op : Cmd(op, calls + 1) \in Command BY DEF Cmd, Command, CallInv
  <1>d. Cmd("add", calls + 1) \in Command BY DEF Cmd, Command, CallInv
  <1>e. stack = <<>> <=> Len(stack) = 0 BY <1>s, EmptySeq
  <1>f. ASSUME NEW cmd \in Command, NotWritten(cmd), coming' = coming, wanted' = wanted
        PROVE  why = {} /\ (Stuck' \/ All')
    <2>1. /\ why \subseteq why' /\ (~sock => asked' = asked) /\ (sock /\ Outstanding => "unsent" \in why')
          /\ asked' = asked \/ \E c \in Command : c.op = "half" /\ asked' = Append(asked, c)
      BY <1>f, Unwritten
    <2>2. Quiet BY <2>1 DEF Outstanding, ConnInv
    <2>3. CASE asked' = asked BY <1>1, <1>f, <2>1, <2>2, <2>3
    <2>4. ASSUME NEW c \in Command, c.op = "half", asked' = Append(asked, c) PROVE Stuck'
      <3>1. asked' = <<c>> /\ asked' # <<>> /\ asked'[1] = c BY <2>2, <2>4, EmptySeq
      <3> QED BY <1>f, <2>2, <2>4, <3>1 DEF Stuck
    <2> QED BY <2>1, <2>3, <2>4
  <1>2. ASSUME NEW op \in Op, Begin(op) PROVE OneInv'
    <2>1. why = {} /\ ~(Outstanding /\ ruleslst = "async") /\ stack = <<>>
      BY <1>2 DEF Begin, If
    <2>2. /\ ~alien' /\ crash' = crash /\ coming' = coming /\ wanted' = wanted
          /\ asked' = Append(asked, Cmd(op, calls + 1))
      BY <1>0, <1>2, <2>1 DEF Begin, Written, stream
    <2>3. PICK c : c = Calling(op, calls + 1, IF op = "send" THEN 1 ELSE 0) OBVIOUS
    <2>4. ~c.quit /\ c.n = calls + 1 /\ c.op = op BY <2>3 DEF Calling
    <2>5. stack' = IF op = "async" THEN <<>> ELSE Append(<<>>, c) BY <1>2, <2>1, <2>3 DEF Begin
    <2>6. Len(stack') <= 1 /\ (op = "async" => stack' = <<>>)
          /\ (op # "async" => stack' # <<>> /\ stack'[1] = c)
      BY <2>5, EmptySeq
    <2>7. CASE Stuck
      <3>1. Stuck' BY <1>c, <2>2, <2>7, StuckBehind
      <3> QED BY <1>0, <2>1, <2>2, <2>6, <3>1 DEF OneInv
    <2>8. CASE ~Stuck
      <3>1. Quiet BY <1>0, <2>1, <2>8 DEF OfTheCall, Outstanding
      <3>2. IF stack' # <<>> THEN ~stack'[1].quit /\ stack'[1].n = calls + 1 /\ op # "async"
                                  /\ (op = "get" => stack'[1].op = "get" /\ ruleslst' = "call")
            ELSE ruleslst' = "async"
        BY <1>2, <2>4, <2>6 DEF Begin, ListWhenAsked
      <3>3. PICK m \in Command : m = Cmd(op, calls + 1) BY <1>c
      <3>4. m.n = calls + 1 /\ (m.op = "async" => op = "async") /\ (m.op = "get" => op = "get")
        BY <3>3 DEF Cmd
      <3>5. asked' = Append(<<>>, m) /\ coming' = <<>> /\ wanted' = 0 BY <2>2, <3>1, <3>3
      <3>6. All' BY <3>2, <3>4, <3>5, OneSent
      <3> QED BY <1>0, <2>1, <2>2, <2>6, <3>6 DEF OneInv
    <2> QED BY <2>7, <2>8
  <1>3. ASSUME NEW op \in Op, BeginOff(op) PROVE OneInv'
    <2>1. /\ NotWritten(Cmd(op, calls + 1)) /\ coming' = coming /\ wanted' = wanted
          /\ UNCHANGED <<alien, crash, stack>>
      BY <1>3 DEF BeginOff, stream
    <2>2. why = {} /\ (Stuck' \/ All') BY <1>c, <1>f, <2>1
    <2> QED BY <1>0, <2>1, <2>2 DEF OneInv
  <1>4. ASSUME why = {}, stack # <<>>
        PROVE  /\ Len(stack) = 1 /\ Top = stack[1] /\ Front(stack) = <<>>
               /\ Top.quit /\ ~Stuck => Quiet
    <2>1. Len(stack) = 1
      <3>1. Len(stack) <= 1 /\ Len(stack) # 0 /\ Len(stack) \in Nat BY <1>0, <1>4, <1>s, <1>e
      <3>2. PICK n \in Nat : n = Len(stack) BY <3>1
      <3>3. n <= 1 /\ n # 0 BY <3>1, <3>2
      <3>4. n = 1 BY ONLY <3>2, <3>3
      <3> QED BY <3>2, <3>4
    <2>2. Top = stack[1] /\ Front(stack) \in Seq(Call) /\ Len(Front(stack)) = 1 - 1
      BY <1>4, <1>s, <2>1, Innermost
    <2>3. Front(stack) = <<>> BY <2>2, EmptySeq
    <2>4. Top.quit /\ ~Stuck => Quiet BY <1>0, <1>4, <2>2 DEF OfTheCall, Outstanding
    <2> QED BY <2>1, <2>2, <2>3, <2>4
  <1>5. CASE Return
    <2>1. /\ why = {} /\ stack # <<>> /\ Top.quit /\ stack' = Front(stack)
          /\ UNCHANGED <<asked, coming, wanted, alien, crash>>
      BY <1>5 DEF Return, stream
    <2>2. Stuck' \/ All'
      <3>1. CASE Stuck BY <2>1, <3>1 DEF Stuck
      <3>2. CASE ~Stuck BY <1>1, <1>4, <2>1, <3>2
      <3> QED BY <3>1, <3>2
    <2>3. Len(stack') <= 1 BY <1>4, <2>1, EmptySeq
    <2> QED BY <1>0, <2>1, <2>2, <2>3 DEF OneInv
  <1>6. CASE NextRule
    <2>1. /\ stack # <<>> /\ Top.quit
          /\ UNCHANGED <<coming, wanted, alien, crash>>
      BY <1>6 DEF NextRule, stream
    <2>2. CASE /\ Written(Cmd("add", calls + 1))
               /\ stack' = Append(Front(stack), Calling("send", calls + 1, Top.left - 1))
               /\ UNCHANGED <<ruleslst, why>>
      <3>1. why = {} /\ Front(stack) = <<>> BY <1>4, <2>1, <2>2
      <3>2. asked' = Append(asked, Cmd("add", calls + 1)) BY <2>2 DEF Written
      <3>3. PICK c : c = Calling("send", calls + 1, Top.left - 1) OBVIOUS
      <3>4. ~c.quit /\ c.n = calls + 1 BY <3>3 DEF Calling
      <3>5. stack' = Append(<<>>, c) BY <2>2, <3>1, <3>3
      <3>6. Len(stack') <= 1 /\ stack' # <<>> /\ stack'[1] = c BY <3>5, EmptySeq
      <3>7. CASE Stuck
        <4>1. Stuck' BY <1>d, <2>1, <3>2, <3>7, StuckBehind
        <4> QED BY <1>0, <2>1, <3>1, <3>6, <4>1 DEF OneInv
      <3>8. CASE ~Stuck
        <4>1. Quiet BY <1>4, <2>1, <3>1, <3>8
        <4>2. PICK m \in Command : m = Cmd("add", calls + 1) BY <1>d
        <4>3. m.op = "add" /\ m.n = calls + 1 BY <4>2 DEF Cmd
        <4>4. asked' = Append(<<>>, m) /\ coming' = <<>> /\ wanted' = 0 BY <2>1, <3>2, <4>1, <4>2
        <4>5. All' BY <3>4, <3>6, <4>3, <4>4, OneSent
        <4> QED BY <1>0, <2>1, <3>1, <3>6, <4>5 DEF OneInv
      <3> QED BY <3>7, <3>8
    <2>3. CASE NotWritten(Cmd("add", calls + 1)) /\ stack' = Front(stack)
      <3>1. why = {} /\ (Stuck' \/ All') BY <1>d, <1>f, <2>1, <2>3
      <3>2. Len(stack') <= 1 BY <1>4, <2>1, <2>3, <3>1, EmptySeq
      <3> QED BY <1>0, <2>1, <3>1, <3>2 DEF OneInv
    <2> QED BY <1>6, <2>2, <2>3 DEF NextRule
  <1>16. CASE Timeout
    <2>1. /\ why = {} /\ ~Outstanding
          /\ UNCHANGED <<asked, coming, wanted, alien, crash>>
      BY <1>16 DEF Timeout, If, stream
    <2>2. Quiet BY <2>1 DEF Outstanding
    <2>3. All' BY <1>1, <2>1, <2>2
    <2>4. Len(stack') = Len(stack) BY <1>16, Told
    <2> QED BY <1>0, <2>1, <2>3, <2>4 DEF OneInv
  <1>7. CASE Connect
    <2>1. why = {} /\ ~(LeastOf(slots, Len(queue)) > 0) BY <1>7 DEF Connect, If
    <2>2. LeastOf(slots, Len(queue)) = 0 BY <2>1 DEF LeastOf, CallInv
    <2>3. asked' = <<>>
      <3>1. asked' = SubSeq(queue, 1, 0) /\ queue \in Seq(Command) BY <1>7, <2>2 DEF Connect, CallInv
      <3> QED BY <3>1
    <2>4. All' BY <1>1, <1>7, <2>3 DEF Connect, ConnInv
    <2> QED BY <1>0, <1>7, <2>1, <2>4 DEF Connect, OneInv
  <1>8. CASE Disconnect
    <2>1. All' BY <1>1, <1>8 DEF Disconnect
    <2> QED BY <1>0, <1>8, <2>1 DEF Disconnect, OneInv
  <1>9. CASE Serve
    <2>0. ~Stuck /\ asked # <<>> /\ asked' = Tail(asked) /\ asked \in Seq(Command)
      <3>1. Head(asked).op # "half" BY <1>9 DEF Serve
      <3> QED BY <1>9, <3>1, Answered DEF CallInv, Stuck
    <2>1. why = {} /\ All /\ UNCHANGED <<alien, crash, wanted, stack, ruleslst>>
      BY <1>0, <1>9, <2>0 DEF Serve, stream
    <2>2. Len(asked) = 1 /\ coming = <<>> /\ wanted = 0
      <3>2. Len(asked) \in Nat \ {0} BY <2>0, EmptySeq
      <3>3. Len(asked) <= 1 /\ coming = <<>> /\ wanted = 0 BY <2>0, <2>1 DEF Single
      <3> QED BY <3>2, <3>3
    <2>3. PICK t : /\ Answers(t, asked[1].n, asked[1].op \in {"get", "async"})
                   /\ coming' = coming \o t
      BY <1>9, Answered
    <2>4. coming' = t BY <2>2, <2>3, ConcatEmptySeq DEF Answers, Joined
    <2>5. asked' = <<>> /\ Len(asked') = 0 /\ 1 .. 0 = {}
      <3>1. asked' \in Seq(Command) /\ Len(asked') = 0 BY <2>0, <2>2
      <3> QED BY <3>1, EmptySeq
    <2>6. Single' BY <2>5 DEF Single
    <2>7. LastEnds' BY <2>3, <2>4 DEF Answers, LastEnds
    <2>8. OfTheCall'
      <3>1. Outstanding /\ 1 \in 1 .. Len(asked) BY <2>0, <2>2 DEF Outstanding
      <3>2. stack # <<>> => ~stack[1].quit /\ asked[1].n = stack[1].n BY <2>1, <3>1 DEF OfTheCall
      <3>3. stack = <<>> => ruleslst = "async" BY <2>1, <3>1 DEF OfTheCall
      <3>4. \A i \in 1 .. Len(coming') : coming'[i].n = asked[1].n BY <2>3, <2>4 DEF Answers
      <3> QED BY <2>1, <2>5, <3>2, <3>3, <3>4 DEF OfTheCall
    <2>9. ListReady' BY <1>9, <2>1, ServeListed DEF ListReady
    <2> QED BY <1>0, <2>1, <2>6, <2>7, <2>8, <2>9 DEF OneInv
  <1>g. coming # <<>> => ~Stuck BY DEF Stuck
  <1>10. CASE ReadSize \/ ReadPart
    <2>1. /\ coming # <<>> /\ asked' = asked /\ coming' = Tail(coming) /\ why = {}
          /\ UNCHANGED <<alien, crash, stack, ruleslst>>
      BY <1>10 DEF ReadSize, ReadPart
    <2>2. All' BY <1>0, <1>g, <2>1, OneTaken
    <2> QED BY <1>0, <2>1, <2>2 DEF OneInv
  <1>11. ASSUME NEW type, Message(type), Taken
         PROVE  /\ why = {} /\ ~alien' /\ crash # "null" /\ Len(stack) <= 1 /\ All
                /\ coming # <<>> /\ asked' = asked /\ coming' = Tail(coming) /\ wanted' = 0
                /\ type = coming[1].type /\ (type \in {"data", "done"} => Listed)
                /\ type # "data" => asked' = <<>> /\ coming' = <<>>
    <2>1. coming # <<>> /\ asked' = asked /\ coming' = Tail(coming) /\ why = {} /\ wanted' = 0
      BY <1>11 DEF Message, Taken
    <2>2. type = coming[1].type /\ 1 \in 1 .. Len(coming) BY <1>11, <2>1, PieceTaken DEF Message
    <2>a. All BY <1>0, <1>g, <2>1
    <2>3. ~alien'
      <3>1. Outstanding BY <2>1 DEF Outstanding
      <3>2. stack # <<>> => coming[1].n = stack[1].n BY <2>a, <2>2, <3>1 DEF OfTheCall
      <3>3. \A i \in DOMAIN stack : stack # <<>> /\ i = 1
        <4>1. DOMAIN stack = 1 .. Len(stack) BY <1>s
        <4>2. Len(stack) = 0 \/ Len(stack) = 1
          <5>1. Len(stack) <= 1 /\ Len(stack) \in Nat BY <1>0, <1>s, <2>1
          <5> QED BY ONLY <5>1
        <4> QED BY <4>1, <4>2, <1>e
      <3> QED BY <1>0, <1>11, <2>1, <3>2, <3>3, PieceTaken DEF Message
    <2>4. asked = <<>> BY <2>a, <2>1 DEF Single
    <2>5. type # "data" => coming' = <<>>
      <3> HAVE type # "data"
      <3>1. coming[1].part = 1 BY <1>11, <2>1, <2>2 DEF Message, StreamInv, Pieces
      <3>2. Len(coming) = 1 BY <2>a, <2>1, <2>2, <3>1 DEF LastEnds
      <3>3. Len(coming') = 0 /\ coming' \in Seq(Piece) BY <2>1, <3>2, PieceTaken DEF Joined
      <3> QED BY <3>3, EmptySeq
    <2>6. type \in {"data", "done"} => Listed BY <2>2 DEF Listed
    <2>7. crash # "null" /\ Len(stack) <= 1 BY <1>0, <2>1
    <2>8. asked' = <<>> BY <2>1, <2>4
    <2> QED BY <2>a, <2>1, <2>2, <2>3, <2>5, <2>6, <2>7, <2>8, Zenon
  <1>12. CASE ReadErr
    <2>0. Message("err") /\ Taken BY <1>12 DEF ReadErr
    <2>1. /\ ~alien' /\ crash # "null" /\ asked' = <<>> /\ coming' = <<>> /\ wanted' = 0
          /\ Len(stack) <= 1
      BY <1>11, <2>0
    <2>2. Len(stack') <= 1 /\ crash' = crash BY <1>12, <2>1, Told DEF ReadErr
    <2> QED BY <1>1, <2>1, <2>2 DEF OneInv
  <1>13. CASE ReadData
    <2>1. /\ why = {} /\ ~alien' /\ crash' # "null" /\ Len(stack) <= 1 /\ All
          /\ coming # <<>> /\ asked' = asked /\ coming' = Tail(coming)
          /\ stack' = stack /\ ruleslst' = ruleslst
      BY <1>11, <1>13 DEF ReadData
    <2>2. All' BY <2>1, OneTaken
    <2> QED BY <2>1, <2>2 DEF OneInv
  <1>14. CASE ReadDone
    <2>1. /\ ~alien' /\ asked' = <<>> /\ coming' = <<>> /\ wanted' = 0 /\ Listed /\ All
          /\ Len(stack) <= 1
      BY <1>11, <1>14 DEF ReadDone
    <2>2. ruleslst # "null" BY <2>1 DEF ListReady
    <2>3. crash' # "null" BY <1>14, <2>2 DEF ReadDone
    <2>4. Len(stack') <= 1 BY <1>14, <2>1, Told
    <2> QED BY <1>1, <2>1, <2>3, <2>4 DEF OneInv
  <1>15. CASE UNCHANGED vars
    BY <1>15 DEF vars, OneInv, Single, LastEnds, OfTheCall, ListReady, Listed, Outstanding, Stuck
  <1> QED BY <1>2, <1>3, <1>5, <1>6, <1>7, <1>8, <1>9, <1>10, <1>12, <1>13, <1>14, <1>15, <1>16
     DEF Next

-----------------------------------------------------------------------------
(* The theorems.                                                             *)

\* Nothing is asked before the first connection.
LEMMA Initially == Init => ClientInv
PROOF
  <1> SUFFICES ASSUME Init PROVE ClientInv
    OBVIOUS
  <1>1. Len(<<>>) = 0 /\ \A S : <<>> \in Seq(S) BY EmptySeq
  <1>2. StreamInv BY EmptyJoined DEF Init, StreamInv
  <1>3. ConnInv BY DEF Init, ConnInv
  <1>4. CallInv BY <1>1 DEF Init, CallInv, Lists
  <1>5. Single /\ LastEnds /\ OfTheCall /\ ListReady /\ ~Listed BY NothingOutstanding DEF Init
  <1>6. DeadInv BY <1>5 DEF Init, DeadInv
  <1>7. OneInv BY <1>1, <1>5 DEF Init, OneInv
  <1> QED BY <1>2, <1>3, <1>4, <1>6, <1>7 DEF ClientInv

\* BFLocalControl keeps its stream, its calls and its list together.
THEOREM ClientInvariant == Spec => []ClientInv
PROOF
  <1>1. ClientInv /\ [Next]_vars => ClientInv'
    BY CallStep, ConnStep, StreamStep, DeadStep, OneStep DEF ClientInv
  <1> QED BY Initially, <1>1, PTL DEF Spec

\* Whatever pieces answers come in and wherever connections break, onReadyRead
\* (bflocalcontrolprivate.cpp:70) takes sizes for sizes and bodies for bodies.
THEOREM ReadsWholeFrames == Spec => []FramesWhole
PROOF
  <1>1. ClientInv => FramesWhole BY DEF ClientInv, StreamInv, FramesWhole
  <1> QED BY ClientInvariant, <1>1, PTL

\* A call gets the answer to its own command, unless one of the five things that
\* are named has happened (bflocalcontrolprivate.cpp:86).
THEOREM OwnUnlessNamed == Spec => []OwnAnswer
PROOF
  <1>1. ClientInv => OwnAnswer BY DEF ClientInv, OneInv, OwnAnswer
  <1> QED BY ClientInvariant, <1>1, PTL

\* The list an answer is put into exists, unless one of them has, and only a queued listing,
\* or one for which a call that could not write its command has set the list, reaches one
\* that is gone (bflocalcontrolprivate.cpp:110).
THEOREM ListsAreSafe == Spec => []ListsSafe
PROOF
  <1>1. ClientInv => ListsSafe BY DEF ClientInv, OneInv, DeadInv, ToTheGone, ListsSafe
  <1> QED BY ClientInvariant, <1>1, PTL

=============================================================================
