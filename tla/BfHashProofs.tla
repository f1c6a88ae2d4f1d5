---------------------------- MODULE BfHashProofs ----------------------------
(***************************************************************************)
(* Theorems about BfHash: two threads are never inside one bucket, and the *)
(* list of a bucket in which nobody is can be walked both ways and stays   *)
(* within its bucket, and the calls take effect as those of BfMap do, for  *)
(* any number of threads, keys, buckets and entries.                       *)
(***************************************************************************)
EXTENDS BfHash, FiniteSetTheorems, WellFoundedInduction, TLAPS

(* Two threads that are inside are inside different buckets.               *)
LEMMA Separate ==
  ASSUME Holds, NEW t \in Thread, NEW u \in Thread, t # u,
         th[t].at \in Critical, th[u].at \in Critical
  PROVE  HeadOf(t) # HeadOf(u)
BY DEF Holds

(* What a thread is, in the terms of the type invariant.                   *)
LEMMA ThreadType ==
  ASSUME TypeOK, NEW t \in Thread
  PROVE  /\ th[t].at \in Critical \cup {"idle", "hash", "hashed", "lock", "return"}
         /\ th[t].op \in Op \cup {"none"}
         /\ th[t].key \in Key \cup {NoKey} /\ th[t].entry \in Entry \cup {NoEntry}
         /\ th[t].pos \in Node \cup {NoEntry} /\ th[t].ans \in Entry \cup {NoEntry}
         /\ ~At(t, "idle") => th[t].key \in Key /\ HeadOf(t) \in Bucket
BY HashAssumption DEF TypeOK, HeadOf, At

-----------------------------------------------------------------------------
(* The mutexes.                                                              *)

ThreadRecord ==
  [at : Critical \cup {"idle", "hash", "hashed", "lock", "return"},
   op : Op \cup {"none"}, key : Key \cup {NoKey}, entry : Entry \cup {NoEntry},
   pos : Node \cup {NoEntry}, ans : Entry \cup {NoEntry}]

Types ==
  /\ plain \in BOOLEAN
  /\ next \in [Node -> Node] /\ prev \in [Node -> Node]
  /\ key \in [Entry -> Key \cup {NoKey}]
  /\ free \subseteq Entry
  /\ th \in [Thread -> ThreadRecord]
  /\ lock \in Thread \cup {NoThread} /\ outer \in Thread \cup {NoThread}
  /\ locks \in [Bucket -> Thread \cup {NoThread}]
  /\ \A t \in Thread : ~At(t, "idle") => th[t].key \in Key

Owners ==
  \A t \in Thread :
    /\ lock = t => At(t, "hashed")
    /\ outer = t => plain /\ th[t].at \in Critical
    /\ \A b \in Bucket : locks[b] = t => ~plain /\ InBucket(t, b)

LEMMA TypeOKParts == TypeOK <=> Types /\ Owners
BY DEF TypeOK, Types, Owners, ThreadRecord

(* A thread inside a bucket goes on to another place there, and the types    *)
(* stay.                                                                     *)
LEMMA InsideTypes ==
  ASSUME Types, NEW t \in Thread, th[t].at # "idle",
         NEW r, r \in ThreadRecord, r.at # "idle", r.key = th[t].key, th' = [th EXCEPT ![t] = r],
         UNCHANGED <<key, mutex, plain, free>>,
         next' \in [Node -> Node], prev' \in [Node -> Node]
  PROVE  Types'
<1>1. th' \in [Thread -> ThreadRecord]
  BY DEF Types
<1>2. \A u \in Thread : th'[u].at # "idle" => th'[u].key \in Key
  BY DEF Types, At
<1> QED  BY <1>1, <1>2 DEF Types, mutex, At

(* Each action keeps to the types; the ones that follow a pointer need the  *)
(* invariant to know that there is one.                                     *)
LEMMA TypesStep ==
  ASSUME IInv, [Next]_vars
  PROVE  Types'
<1> USE DEF At
<1>1. Types /\ Work
  BY TypeOKParts DEF IInv
<1>2. CASE UNCHANGED vars
  BY <1>1, <1>2 DEF Types, vars
<1>3. SUFFICES ASSUME NEW t \in Thread, CallInsert(t) \/ CallOther(t) \/ Go(t)
               PROVE  Types'
  BY <1>2, <1>3 DEF Next
<1>4. /\ th[t] \in ThreadRecord /\ Entry \subseteq Node /\ Bucket \subseteq Node
      /\ th[t].at # "idle" => HeadOf(t) \in Bucket /\ next[HeadOf(t)] \in Node
  BY <1>1, HashAssumption DEF Types, Node, HeadOf
<1>5. CASE CallInsert(t)
  <2>1. PICK k \in Key, e \in free :
          /\ th' = [th EXCEPT ![t] = [Idle EXCEPT !.at = "hash", !.op = "insert", !.key = k, !.entry = e]]
          /\ next' = [next EXCEPT ![e] = e] /\ prev' = [prev EXCEPT ![e] = e]
          /\ key' = [key EXCEPT ![e] = k] /\ free' = free \ {e}
    BY <1>5 DEF CallInsert
  <2>2. e \in Entry /\ e \in Node
    BY <1>1, <1>4 DEF Types
  <2>3. [Idle EXCEPT !.at = "hash", !.op = "insert", !.key = k, !.entry = e] \in ThreadRecord
    BY <2>2 DEF Idle, ThreadRecord, Op
  <2>4. th' \in [Thread -> ThreadRecord] /\ \A u \in Thread : th'[u].at # "idle" => th'[u].key \in Key
    BY <1>1, <2>1, <2>3 DEF Types, Idle
  <2> QED  BY <1>1, <1>5, <2>1, <2>2, <2>4 DEF CallInsert, Types, mutex
<1>6. CASE CallOther(t)
  <2>1. PICK k \in Key, op \in {"lookup", "del"} :
          th' = [th EXCEPT ![t] = [Idle EXCEPT !.at = "hash", !.op = op, !.key = k]]
    BY <1>6 DEF CallOther
  <2>2. [Idle EXCEPT !.at = "hash", !.op = op, !.key = k] \in ThreadRecord
    BY DEF Idle, ThreadRecord, Op
  <2>3. th' \in [Thread -> ThreadRecord] /\ \A u \in Thread : th'[u].at # "idle" => th'[u].key \in Key
    BY <1>1, <2>1, <2>2 DEF Types, Idle
  <2> QED  BY <1>1, <1>6, <2>3 DEF CallOther, Types, mutex, list
<1>7. CASE HashCode(t)
  BY <1>1, <1>4, <1>7 DEF HashCode, Types, mutex, list, Goes, ThreadRecord
<1>8. CASE Hashed(t)
  BY <1>1, <1>4, <1>8 DEF Hashed, Types, mutex, list, Goes, ThreadRecord
<1>9. CASE Lock(t)
  BY <1>1, <1>4, <1>9 DEF Lock, Types, mutex, list, Goes, ThreadRecord, Inside, Critical
<1>10. CASE Unlock(t)
  BY <1>1, <1>4, <1>10 DEF Unlock, Types, mutex, list, Goes, ThreadRecord
<1>11. CASE Return(t)
  <2>1. free' \subseteq Entry /\ key' \in [Entry -> Key \cup {NoKey}]
    BY <1>1, <1>4, <1>11 DEF Return, Types, ThreadRecord
  <2>2. th' = [th EXCEPT ![t] = Idle] /\ Idle \in ThreadRecord /\ Idle.at = "idle"
    BY <1>11 DEF Return, Idle, ThreadRecord, Op
  <2>3. th' \in [Thread -> ThreadRecord] /\ \A u \in Thread : ~At(u, "idle")' => th'[u].key \in Key
    BY <1>1, <2>2 DEF Types
  <2> QED  BY <1>1, <1>11, <2>1, <2>3 DEF Return, Types, mutex, list
<1>12. CASE AddBack(t)
  <2>1. Mine(t) = {th[t].entry}  \/ th[t].at # "add"
    BY <1>1 DEF Work, WorkOf, Mine
  <2>2. th[t].entry \in Node
    BY <1>1, <1>4, <1>12, <2>1 DEF AddBack, Step, Work, WorkOf
  <2> QED
    BY <1>1, <1>4, <1>12, <2>2 DEF AddBack, Step, Types, mutex, list, ThreadRecord, Critical
<1>13. CASE AddLink(t)
  BY <1>1, <1>4, <1>13 DEF AddLink, Step, Types, mutex, list, ThreadRecord, Critical, Work, WorkOf, Mine, Belongs
<1>14. CASE AddPublish(t)
  <2> DEFINE r == [th[t] EXCEPT !.at = "unlock", !.pos = NoEntry]
  <2>1. /\ th[t].at = "publish" /\ th' = [th EXCEPT ![t] = r] /\ UNCHANGED <<key, mutex, plain, free, prev>>
        /\ next' = [next EXCEPT ![HeadOf(t)] = th[t].entry]
    BY <1>1, <1>14 DEF AddPublish, Step, Types
  <2>2. th[t].entry \in Node
    <3>1. "publish" \in Critical  BY DEF Critical
    <3> QED  BY <1>1, <1>4, <2>1, <3>1 DEF Work, WorkOf
  <2>3. r \in ThreadRecord /\ r.at = "unlock" /\ r.key = th[t].key
    BY <1>4 DEF ThreadRecord, Critical
  <2>4. next' \in [Node -> Node] /\ prev' \in [Node -> Node]
    BY <1>1, <2>1, <2>2 DEF Types
  <2> HIDE DEF r
  <2> QED  BY <1>1, <2>1, <2>3, <2>4, InsideTypes
<1>15. CASE First(t)
  <2> DEFINE r == [th[t] EXCEPT !.at = "look", !.pos = next[HeadOf(t)]]
  <2>1. th[t].at = "first" /\ th' = [th EXCEPT ![t] = r] /\ UNCHANGED <<key, mutex, plain, free, next, prev>>
    BY <1>1, <1>15 DEF First, Step, Types, list
  <2>2. r \in ThreadRecord /\ r.at = "look" /\ r.key = th[t].key
    BY <1>4, <2>1 DEF ThreadRecord, Critical
  <2>3. next' \in [Node -> Node] /\ prev' \in [Node -> Node]
    BY <1>1, <2>1 DEF Types
  <2> HIDE DEF r
  <2> QED  BY <1>1, <2>1, <2>2, <2>3, InsideTypes
<1>16. CASE Look(t)
  <2> DEFINE pos == th[t].pos
             r == IF pos = HeadOf(t) THEN [th[t] EXCEPT !.pos = NoEntry, !.at = "unlock"]
                  ELSE IF Looks(t, pos)
                  THEN [th[t] EXCEPT !.ans = pos, !.pos = NoEntry,
                                     !.at = IF th[t].op = "del" THEN "unlink" ELSE "unlock"]
                  ELSE [th[t] EXCEPT !.pos = NextOf(pos)]
  <2>1. th[t].at = "look" /\ th' = [th EXCEPT ![t] = r] /\ UNCHANGED <<key, mutex, plain, free, next, prev>>
    BY <1>1, <1>16 DEF Look, Types, list
  <2>2. pos \in Node /\ (pos # HeadOf(t) => pos \in Entry)
    <3>1. "look" \in Critical  BY DEF Critical
    <3> QED  BY <1>1, <1>4, <2>1, <3>1 DEF Work, WorkOf, Belongs, Home, Node
  <2>3. r \in ThreadRecord /\ r.at # "idle" /\ r.key = th[t].key
    <3>1. CASE pos = HeadOf(t)  BY <1>4, <2>1, <3>1 DEF ThreadRecord, Critical
    <3>2. CASE pos # HeadOf(t) /\ Looks(t, pos)  BY <1>4, <2>1, <2>2, <3>2 DEF ThreadRecord, Critical
    <3>3. CASE pos # HeadOf(t) /\ ~Looks(t, pos)
      <4>1. NextOf(pos) \in Node  BY <1>1, <2>2 DEF NextOf, Types
      <4> QED  BY <1>4, <2>1, <3>3, <4>1 DEF ThreadRecord, Critical
    <3> QED  BY <3>1, <3>2, <3>3
  <2>4. next' \in [Node -> Node] /\ prev' \in [Node -> Node]
    BY <1>1, <2>1 DEF Types
  <2> HIDE DEF r
  <2> QED  BY <1>1, <2>1, <2>3, <2>4, InsideTypes
<1>17. CASE DelBack(t)
  <2> DEFINE r == [th[t] EXCEPT !.at = "skip", !.pos = NoEntry]
  <2>1. /\ th[t].at = "unlink" /\ th' = [th EXCEPT ![t] = r] /\ UNCHANGED <<key, mutex, plain, free>>
        /\ prev' = [prev EXCEPT ![next[th[t].ans]] = prev[th[t].ans]] /\ next' = next
    BY <1>1, <1>17 DEF DelBack, Step, Types
  <2>2. next[th[t].ans] \in Node /\ prev[th[t].ans] \in Node
    <3>1. "unlink" \in Critical  BY DEF Critical
    <3>2. th[t].ans \in Node  BY <1>1, <1>4, <2>1, <3>1 DEF Work, WorkOf
    <3> QED  BY <1>1, <3>2 DEF Types
  <2>3. r \in ThreadRecord /\ r.at = "skip" /\ r.key = th[t].key
    BY <1>4 DEF ThreadRecord, Critical
  <2>4. next' \in [Node -> Node] /\ prev' \in [Node -> Node]
    BY <1>1, <2>1, <2>2 DEF Types
  <2> HIDE DEF r
  <2> QED  BY <1>1, <2>1, <2>3, <2>4, InsideTypes
<1>18. CASE DelSkip(t)
  <2> DEFINE r == [th[t] EXCEPT !.at = "clear", !.pos = NoEntry]
  <2>1. /\ th[t].at = "skip" /\ th' = [th EXCEPT ![t] = r] /\ UNCHANGED <<key, mutex, plain, free>>
        /\ next' = [next EXCEPT ![prev[th[t].ans]] = next[th[t].ans]] /\ prev' = prev
    BY <1>1, <1>18 DEF DelSkip, Step, Types
  <2>2. next[th[t].ans] \in Node /\ prev[th[t].ans] \in Node
    <3>1. "skip" \in Critical  BY DEF Critical
    <3>2. th[t].ans \in Node  BY <1>1, <1>4, <2>1, <3>1 DEF Work, WorkOf
    <3> QED  BY <1>1, <3>2 DEF Types
  <2>3. r \in ThreadRecord /\ r.at = "clear" /\ r.key = th[t].key
    BY <1>4 DEF ThreadRecord, Critical
  <2>4. next' \in [Node -> Node] /\ prev' \in [Node -> Node]
    BY <1>1, <2>1, <2>2 DEF Types
  <2> HIDE DEF r
  <2> QED  BY <1>1, <2>1, <2>3, <2>4, InsideTypes
<1>19. CASE DelClear(t)
  <2> DEFINE r == [th[t] EXCEPT !.at = "unlock", !.pos = NoEntry]
  <2>1. /\ th[t].at = "clear" /\ th' = [th EXCEPT ![t] = r] /\ UNCHANGED <<key, mutex, plain, free>>
        /\ next' = [next EXCEPT ![th[t].ans] = th[t].ans] /\ prev' = [prev EXCEPT ![th[t].ans] = th[t].ans]
    BY <1>1, <1>19 DEF DelClear, Step, Types
  <2>2. th[t].ans \in Node
    <3>1. "clear" \in Critical  BY DEF Critical
    <3>2. th[t].ans \in Node  BY <1>1, <1>4, <2>1, <3>1 DEF Work, WorkOf
    <3> QED  BY <1>1, <3>2 DEF Types
  <2>3. r \in ThreadRecord /\ r.at = "unlock" /\ r.key = th[t].key
    BY <1>4 DEF ThreadRecord, Critical
  <2>4. next' \in [Node -> Node] /\ prev' \in [Node -> Node]
    BY <1>1, <2>1, <2>2 DEF Types
  <2> HIDE DEF r
  <2> QED  BY <1>1, <2>1, <2>3, <2>4, InsideTypes
<1> QED
  BY <1>3, <1>5, <1>6, <1>7, <1>8, <1>9, <1>10, <1>11, <1>12, <1>13, <1>14, <1>15, <1>16,
     <1>17, <1>18, <1>19 DEF Go

(* A mutex is held by a thread that is inside, and whoever is inside holds  *)
(* it.                                                                      *)
LEMMA OwnersStep ==
  ASSUME IInv, [Next]_vars
  PROVE  Owners' /\ Holds'
<1> USE DEF At
<1>1. Types /\ Owners /\ Holds /\ Work /\ Types'
  BY TypeOKParts, TypesStep DEF IInv
<1>2. CASE UNCHANGED vars
  BY <1>1, <1>2 DEF Owners, Holds, HeadOf, InBucket, vars
<1>3. SUFFICES ASSUME NEW t \in Thread, CallInsert(t) \/ CallOther(t) \/ Go(t)
               PROVE  Owners' /\ Holds'
  BY <1>2, <1>3 DEF Next
<1>4. /\ t # NoThread
      /\ th[t].at # "idle" => HeadOf(t) \in Bucket
  BY <1>1, HashAssumption DEF Types, HeadOf
<1>5. CASE CallInsert(t)
  <2>1. th'[t].at = "hash" /\ UNCHANGED <<mutex, plain>> /\ \A u \in Thread \ {t} : th'[u] = th[u]
    BY <1>1, <1>5 DEF CallInsert, Types, Idle
  <2>2. th[t].at = "idle"
    BY <1>5 DEF CallInsert
  <2>3. Owners'
    BY <1>1, <2>1, <2>2 DEF Owners, HeadOf, InBucket, mutex, Critical
  <2>4. Holds'
    BY <1>1, <2>1, <2>2 DEF Holds, HeadOf, mutex, Critical
  <2> QED  BY <2>3, <2>4
<1>6. CASE CallOther(t)
  <2>1. th'[t].at = "hash" /\ UNCHANGED <<mutex, plain>> /\ \A u \in Thread \ {t} : th'[u] = th[u]
    BY <1>1, <1>6 DEF CallOther, Types, Idle
  <2>2. th[t].at = "idle"
    BY <1>6 DEF CallOther
  <2>3. Owners'
    BY <1>1, <2>1, <2>2 DEF Owners, HeadOf, InBucket, mutex, Critical
  <2>4. Holds'
    BY <1>1, <2>1, <2>2 DEF Holds, HeadOf, mutex, Critical
  <2> QED  BY <2>3, <2>4
<1>7. CASE HashCode(t)
  <2>1. /\ th[t].at = "hash" /\ UNCHANGED <<locks, outer, plain>> /\ \A u \in Thread \ {t} : th'[u] = th[u]
        /\ th'[t].key = th[t].key /\ th'[t].at \in {"lock", "hashed"}
        /\ lock' = lock \/ (lock' = t /\ th'[t].at = "hashed")
    BY <1>1, <1>7 DEF HashCode, Goes, Types, ThreadRecord
  <2>2. Owners'
    BY <1>1, <1>4, <2>1 DEF Owners, HeadOf, InBucket, Critical
  <2>3. Holds'
    BY <1>1, <2>1 DEF Holds, HeadOf, Critical
  <2> QED  BY <2>2, <2>3
<1>8. CASE Hashed(t)
  <2>1. /\ th[t].at = "hashed" /\ UNCHANGED <<locks, outer, plain>> /\ \A u \in Thread \ {t} : th'[u] = th[u]
        /\ th'[t].key = th[t].key /\ th'[t].at = "lock" /\ lock' = NoThread
    BY <1>1, <1>8 DEF Hashed, Goes, Types, ThreadRecord
  <2>2. \A u \in Thread : u # NoThread
    BY HashAssumption
  <2>3. Owners'
    BY <1>1, <2>1, <2>2 DEF Owners, HeadOf, InBucket, Critical
  <2>4. Holds'
    BY <1>1, <2>1 DEF Holds, HeadOf, Critical
  <2> QED  BY <2>3, <2>4
<1>9. CASE Lock(t)
  <2>1. /\ th'[t].at \in Critical /\ th'[t].key = th[t].key
        /\ \A u \in Thread \ {t} : th'[u] = th[u]
        /\ th[t].at = "lock" /\ plain' = plain /\ lock' = lock
    BY <1>1, <1>9 DEF Lock, Goes, Types, ThreadRecord, Critical, Inside
  <2>2. th[t].at \notin Critical /\ th'[t].at # "hashed"
    BY <2>1 DEF Critical
  <2>3. CASE plain
    BY <1>1, <1>4, <1>9, <2>1, <2>2, <2>3 DEF Lock, Types, Owners, Holds, HeadOf, InBucket
  <2>4. CASE ~plain
    <3>1. /\ locks[HeadOf(t)] = NoThread /\ locks' = [locks EXCEPT ![HeadOf(t)] = t] /\ outer' = outer
          /\ HeadOf(t)' = HeadOf(t) /\ \A u \in Thread \ {t} : HeadOf(u)' = HeadOf(u)
      BY <1>9, <2>1, <2>4 DEF Lock, HeadOf
    <3>2. \A u \in Thread : u # NoThread /\ (th[u].at \in Critical => HeadOf(u) \in Bucket)
      BY <1>1, HashAssumption DEF Types, HeadOf, Critical
    <3>3. Holds'
      BY <1>1, <1>4, <2>1, <2>2, <2>4, <3>1, <3>2 DEF Types, Holds
    <3>4. Owners'
      BY <1>1, <1>4, <2>1, <2>2, <2>4, <3>1, <3>2 DEF Types, Owners, InBucket
    <3> QED  BY <3>3, <3>4
  <2> QED  BY <2>3, <2>4
<1>10. CASE Unlock(t)
  BY <1>1, <1>4, <1>10 DEF Unlock, Types, ThreadRecord, Owners, Holds, HeadOf, InBucket, Goes, Critical
<1>11. CASE Return(t)
  BY <1>1, <1>4, <1>11 DEF Return, Types, ThreadRecord, Owners, Holds, HeadOf, InBucket, mutex, Idle, Critical
<1>12. CASE AddBack(t) \/ AddLink(t) \/ AddPublish(t) \/ First(t) \/ DelBack(t) \/ DelSkip(t) \/ DelClear(t)
  <2>0. PICK n : \E from \in Critical, to \in Critical : Step(t, from, to, n)
    BY <1>12 DEF AddBack, AddLink, AddPublish, First, DelBack, DelSkip, DelClear, Critical
  <2>1. PICK from \in Critical, to \in Critical : Step(t, from, to, n)
    BY <2>0
  <2>2. /\ th'[t].at \in Critical /\ th'[t].key = th[t].key /\ th[t].at \in Critical
        /\ \A u \in Thread \ {t} : th'[u] = th[u]
        /\ plain' = plain /\ lock' = lock /\ locks' = locks /\ outer' = outer
    BY <1>1, <2>1 DEF Step, Types, ThreadRecord, mutex
  <2>3. th[t].at # "hashed" /\ th'[t].at # "hashed"
    BY <2>2 DEF Critical
  <2> QED
    BY <1>1, <1>4, <2>2, <2>3 DEF Owners, Holds, HeadOf, InBucket
<1>14. CASE Look(t)
  BY <1>1, <1>4, <1>14 DEF Look, Types, ThreadRecord, Owners, Holds, HeadOf, InBucket, mutex, Critical
<1> QED
  BY <1>3, <1>5, <1>6, <1>7, <1>8, <1>9, <1>10, <1>11, <1>12, <1>14 DEF Go

-----------------------------------------------------------------------------
(* The lists.                                                                *)

Shape == Hands /\ Homes /\ Apart /\ Links /\ Halfway

(* A node at which the two directions disagree is in the bucket of the       *)
(* thread that is writing there.                                             *)
LEMMA BrokenIsInside ==
  ASSUME IInv, NEW t \in Thread, NEW n \in NextBroken(t) \cup PrevBroken(t)
  PROVE  th[t].at \in Critical /\ Home(n) = HeadOf(t)
<1>1. TypeOK /\ Work /\ Homes
  BY DEF IInv
<1>2. th[t].at \in {"link", "publish", "skip", "clear"}
  BY DEF NextBroken, PrevBroken, At
<1>3. HeadOf(t) \in Bucket /\ Home(HeadOf(t)) = HeadOf(t)
  BY <1>1, <1>2, ThreadType DEF At, Home
<1>4. CASE th[t].at = "link"
  BY <1>1, <1>3, <1>4 DEF NextBroken, PrevBroken, At, Work, WorkOf, Belongs, Critical
<1>5. CASE th[t].at = "publish"
  BY <1>1, <1>3, <1>5 DEF NextBroken, PrevBroken, At, Work, WorkOf, Belongs, Critical
<1>6. CASE th[t].at \in {"skip", "clear"}
  <2>1. th[t].ans \in Node /\ Home(th[t].ans) = HeadOf(t) /\ Home(next[th[t].ans]) = HeadOf(t)
    BY <1>1, <1>6 DEF Work, WorkOf, Belongs, Homes
  <2> QED
    BY <1>6, <2>1 DEF NextBroken, PrevBroken, At, Critical
<1> QED  BY <1>2, <1>4, <1>5, <1>6

(* In the bucket of a thread that is inside the two directions agree, but    *)
(* for what that thread is writing.                                          *)
LEMMA OwnLinks ==
  ASSUME IInv, NEW t \in Thread, th[t].at \in Critical, NEW n \in Node, Home(n) = HeadOf(t)
  PROVE  /\ prev[next[n]] = n \/ n \in NextBroken(t)
         /\ next[prev[n]] = n \/ n \in PrevBroken(t)
<1>1. \A u \in Thread : n \in NextBroken(u) \cup PrevBroken(u) => u = t
  BY BrokenIsInside, Separate DEF IInv
<1> QED  BY <1>1 DEF IInv, Links

(* Threads that are not t, and what they have in hand.                       *)
LEMMA OthersSame ==
  ASSUME NEW t \in Thread, \A u \in Thread \ {t} : th'[u] = th[u]
  PROVE  \A u \in Thread \ {t} :
           /\ Mine(u)' = Mine(u) /\ HeadOf(u)' = HeadOf(u) /\ NextBroken(u)' = NextBroken(u)
           /\ next' = next => PrevBroken(u)' = PrevBroken(u)
<1> SUFFICES ASSUME NEW u \in Thread \ {t}
             PROVE  /\ Mine(u)' = Mine(u) /\ HeadOf(u)' = HeadOf(u) /\ NextBroken(u)' = NextBroken(u)
                    /\ next' = next => PrevBroken(u)' = PrevBroken(u)
  OBVIOUS
<1>1. th'[u] = th[u]
  OBVIOUS
<1> QED  BY <1>1 DEF Mine, HeadOf, NextBroken, PrevBroken, At

(* A step that writes no pointer and gives nobody an entry.                  *)
LEMMA QuietStep ==
  ASSUME IInv, NEW t \in Thread, UNCHANGED <<list, key, free>>,
         \A u \in Thread \ {t} : th'[u] = th[u],
         Mine(t)' = Mine(t),
         th[t].at \notin {"link", "publish", "skip", "clear"},
         th'[t].at \notin {"link", "publish", "skip", "clear"}
  PROVE  /\ Shape'
         /\ Loose' = Loose /\ \A n \in Node : Home(n)' = Home(n)
         /\ \A u \in Thread \ {t} : \A n \in Node : Belongs(u, n)' = Belongs(u, n)
<1>1. next' = next /\ prev' = prev /\ key' = key /\ free' = free
  BY DEF list
<1>2. NextBroken(t) = {} /\ PrevBroken(t) = {} /\ NextBroken(t)' = {} /\ PrevBroken(t)' = {}
  BY DEF NextBroken, PrevBroken, At
<1>3. \A u \in Thread : /\ Mine(u)' = Mine(u)
                        /\ NextBroken(u)' = NextBroken(u) /\ PrevBroken(u)' = PrevBroken(u)
  BY <1>1, <1>2, OthersSame
<1>4. Loose' = Loose
  BY <1>1, <1>3 DEF Loose
<1>5. \A n : Home(n)' = Home(n)
  BY <1>1 DEF Home
<1>6. Hands'
  BY <1>1, <1>3 DEF IInv, Hands
<1>7. Homes'
  BY <1>1, <1>5 DEF IInv, Homes
<1>8. Apart'
  <2>1. \A u \in Thread : At(u, "link") => u # t /\ th'[u] = th[u]
    BY DEF At
  <2> QED  BY <1>1, <1>4, <2>1 DEF IInv, Apart, At
<1>9. Links'
  BY <1>1, <1>3 DEF IInv, Links
<1>10. Halfway'
  <2>1. HalfwayOf(t)'
    BY DEF HalfwayOf, At
  <2>2. ASSUME NEW u \in Thread, u # t PROVE HalfwayOf(u)'
    BY <1>1, <2>2 DEF IInv, Halfway, HalfwayOf, At, HeadOf
  <2> QED  BY <2>1, <2>2 DEF Halfway
<1>11. \A u \in Thread \ {t} : \A n \in Node : Belongs(u, n)' = Belongs(u, n)
  BY <1>4, <1>5, OthersSame DEF Belongs
<1> QED  BY <1>4, <1>5, <1>6, <1>7, <1>8, <1>9, <1>10, <1>11 DEF Shape

(* Neither does it change what the other threads have in hand.               *)
LEMMA OthersWork ==
  ASSUME IInv, NEW t \in Thread, key' = key,
         \A u \in Thread \ {t} : th'[u] = th[u],
         \A u \in Thread \ {t} : \A n \in Node : Belongs(u, n) => Belongs(u, n)'
  PROVE  \A u \in Thread \ {t} : WorkOf(u)'
<1> SUFFICES ASSUME NEW u \in Thread \ {t}
             PROVE  WorkOf(u)'
  OBVIOUS
<1>1. WorkOf(u) /\ th'[u] = th[u] /\ Mine(u)' = Mine(u) /\ HeadOf(u)' = HeadOf(u)
  BY OthersSame DEF IInv, Work
<1>2. \A n : Belongs(u, n) => Belongs(u, n)'
  BY DEF Belongs
<1> QED  BY <1>1, <1>2 DEF WorkOf

(* Locking, unlocking and walking leave the lists as they are.               *)
LEMMA WalkKeeps ==
  ASSUME IInv, NEW t \in Thread,
         CallOther(t) \/ HashCode(t) \/ Hashed(t) \/ Lock(t) \/ Unlock(t) \/ First(t) \/ Look(t)
  PROVE  Shape' /\ Work'
<1> USE DEF At
<1>1. /\ Types /\ WorkOf(t) /\ Apart /\ Homes
      /\ th[t].at # "idle" => th[t].key \in Key /\ HeadOf(t) \in Bucket
  BY TypeOKParts, HashAssumption DEF IInv, Work, Types, HeadOf
<1>2. /\ UNCHANGED <<list, key, free>>
      /\ \A u \in Thread \ {t} : th'[u] = th[u]
      /\ th[t].at \notin {"link", "publish", "skip", "clear"}
      /\ th'[t].at \notin {"link", "publish", "skip", "clear"}
      /\ Mine(t)' = Mine(t)
  <2>1. CASE CallOther(t)
    <3>1. PICK k \in Key, op \in {"lookup", "del"} :
            th' = [th EXCEPT ![t] = [Idle EXCEPT !.at = "hash", !.op = op, !.key = k]]
      BY <2>1 DEF CallOther
    <3>2. th'[t].at = "hash" /\ th'[t].op # "insert" /\ \A u \in Thread \ {t} : th'[u] = th[u]
      BY <1>1, <3>1 DEF Types, Idle
    <3> QED  BY <2>1, <3>2 DEF CallOther, Mine, list
  <2>2. CASE HashCode(t)
    <3>1. /\ th[t].at = "hash" /\ th'[t].at \in {"lock", "hashed"} /\ th'[t].op = th[t].op
          /\ th'[t].entry = th[t].entry /\ \A u \in Thread \ {t} : th'[u] = th[u]
      BY <1>1, <2>2 DEF HashCode, Goes, Types, ThreadRecord
    <3> QED  BY <2>2, <3>1 DEF HashCode, Mine, list
  <2>3. CASE Hashed(t)
    BY <1>1, <2>3 DEF Hashed, Goes, Types, ThreadRecord, Mine, list
  <2>4. CASE Lock(t)
    BY <1>1, <2>4 DEF Lock, Goes, Inside, Types, ThreadRecord, Mine, list
  <2>5. CASE Unlock(t)
    BY <1>1, <2>5 DEF Unlock, Goes, Types, ThreadRecord, Mine, list
  <2>6. CASE First(t)
    BY <1>1, <2>6 DEF First, Step, Types, ThreadRecord, Mine, WorkOf, Op, list
  <2>7. CASE Look(t)
    BY <1>1, <2>7 DEF Look, Looks, NextOf, Types, ThreadRecord, Mine, WorkOf, Op, list
  <2> QED  BY <2>1, <2>2, <2>3, <2>4, <2>5, <2>6, <2>7
<1>3. /\ Shape'
      /\ Loose' = Loose /\ \A n \in Node : Home(n)' = Home(n)
      /\ \A u \in Thread \ {t} : \A n \in Node : Belongs(u, n)' = Belongs(u, n)
  BY <1>2, QuietStep DEF list
<1>4. /\ next' = next /\ key' = key /\ Mine(t) \subseteq Entry
      /\ HeadOf(t)' = Hash[th'[t].key]
  BY <1>1, <1>2 DEF list, WorkOf, HeadOf
<1>5. WorkOf(t)'
  <2>1. CASE CallOther(t)
    <3>1. PICK k \in Key, op \in {"lookup", "del"} :
            th' = [th EXCEPT ![t] = [Idle EXCEPT !.at = "hash", !.op = op, !.key = k]]
      BY <2>1 DEF CallOther
    <3>2. th'[t].at = "hash" /\ th'[t].op \in {"lookup", "del"} /\ th'[t].ans = NoEntry
      BY <1>1, <3>1 DEF Types, Idle
    <3> QED  BY <3>2 DEF WorkOf, Mine, Op
  <2>2. CASE HashCode(t) \/ Hashed(t) \/ Lock(t) \/ Unlock(t)
    <3>1. /\ th'[t] = [th[t] EXCEPT !.at = th'[t].at] /\ th[t].at \in {"hash", "hashed", "lock", "unlock"}
          /\ \/ th'[t].at \in {"hashed", "lock", "return"} /\ (th[t].at = "unlock" => th'[t].at = "return")
             \/ th[t].at = "lock" /\ th'[t].at = Inside(t)
      BY <1>1, <2>2 DEF HashCode, Hashed, Lock, Unlock, Goes, Types, ThreadRecord
    <3>2. /\ th'[t].op = th[t].op /\ th'[t].key = th[t].key /\ th'[t].ans = th[t].ans
          /\ th[t].op \in Op /\ (th[t].at # "unlock" => th[t].ans = NoEntry)
      BY <1>1, <3>1 DEF WorkOf, Types, ThreadRecord
    <3>3. \A e \in Mine(t)' : e \in Entry /\ key'[e] = th'[t].key
      BY <1>1, <1>2, <1>4, <3>2 DEF WorkOf
    <3>4. CASE th[t].at = "lock"
      <4>1. /\ th'[t].at = "add" => th[t].op = "insert"
            /\ th'[t].at = "first" => th[t].op \in {"lookup", "del"}
            /\ th'[t].at \in {"add", "first", "hashed", "unlock", "return", "lock"}
        BY <3>1, <3>2, <3>4 DEF Inside, Op
      <4> QED  BY <3>2, <3>3, <3>4, <4>1 DEF WorkOf
    <3>5. CASE th[t].at # "lock"
      BY <3>1, <3>2, <3>3, <3>5 DEF WorkOf
    <3> QED  BY <3>4, <3>5
  <2>3. CASE First(t)
    <3>1. /\ th[t].at = "first" /\ th'[t].at = "look" /\ th'[t].pos = next[HeadOf(t)]
          /\ th'[t].op = th[t].op /\ th'[t].key = th[t].key /\ th'[t].ans = th[t].ans
      BY <1>1, <2>3 DEF First, Step, Types, ThreadRecord
    <3>2. Belongs(t, next[HeadOf(t)])
      <4>1. HeadOf(t) \in Node /\ HeadOf(t) \notin Entry /\ Home(HeadOf(t)) = HeadOf(t)
        BY <1>1, <3>1, HashAssumption DEF Node, Home
      <4>2. \A e \in Loose : e \in Entry
        BY DEF Loose, IInv, Work, WorkOf, TypeOK
      <4> QED  BY <1>1, <4>1, <4>2 DEF Belongs, Types, Homes, Apart
    <3> QED  BY <1>1, <1>2, <1>3, <1>4, <3>1, <3>2 DEF WorkOf, Belongs, HeadOf
  <2>4. CASE Look(t)
    <3>1. th[t].at = "look" /\ Belongs(t, th[t].pos) /\ th[t].pos \in Node
      BY <1>1, <2>4 DEF Look, WorkOf, Belongs
    <3>2. CASE th[t].pos = HeadOf(t)
      <4>1. /\ th'[t].at = "unlock" /\ th'[t].op = th[t].op /\ th'[t].key = th[t].key /\ th'[t].ans = th[t].ans
        BY <1>1, <2>4, <3>2 DEF Look, Types, ThreadRecord
      <4>2. Mine(t)' = {} /\ th[t].op \in Op
        BY <1>1, <1>2, <3>1 DEF WorkOf, Mine
      <4> QED  BY <4>1, <4>2 DEF WorkOf
    <3>3. CASE th[t].pos # HeadOf(t) /\ key[th[t].pos] = th[t].key
      <4>1. /\ th'[t].at \in {"unlink", "unlock"} /\ th'[t].op = th[t].op /\ th'[t].key = th[t].key
            /\ th'[t].ans = th[t].pos /\ (th'[t].at = "unlink" <=> th[t].op = "del")
        BY <1>1, <2>4, <3>3 DEF Look, Looks, Types, ThreadRecord
      <4>2. th[t].pos \in Entry
        BY <1>1, <3>1, <3>3, HashAssumption DEF Belongs, Home, Node
      <4>3. Belongs(t, th[t].ans)' /\ th[t].op \in {"lookup", "del"}
        BY <1>1, <1>3, <1>4, <3>1, <4>1 DEF WorkOf, Belongs, HeadOf
      <4>4. Mine(t)' = {}
        BY <1>1, <1>2, <3>1 DEF WorkOf, Mine
      <4>5. key'[th'[t].ans] = th'[t].key
        BY <1>4, <3>3, <4>1
      <4> QED  BY <4>1, <4>2, <4>3, <4>4, <4>5 DEF WorkOf, Belongs, Op
    <3>4. CASE th[t].pos # HeadOf(t) /\ key[th[t].pos] # th[t].key
      <4>1. /\ th'[t].at = "look" /\ th'[t].op = th[t].op /\ th'[t].key = th[t].key
            /\ th'[t].ans = th[t].ans /\ th'[t].pos = next[th[t].pos]
        BY <1>1, <2>4, <3>4 DEF Look, Looks, NextOf, Types, ThreadRecord
      <4>2. Belongs(t, next[th[t].pos])
        BY <1>1, <3>1 DEF Belongs, Types, Homes, Apart
      <4> QED  BY <1>1, <1>2, <1>3, <1>4, <3>1, <4>1, <4>2 DEF WorkOf, Belongs, HeadOf
    <3> QED  BY <3>2, <3>3, <3>4
  <2> QED  BY <2>1, <2>2, <2>3, <2>4
<1>6. \A u \in Thread \ {t} : WorkOf(u)'
  BY <1>2, <1>3, <1>4, OthersWork
<1> QED  BY <1>3, <1>5, <1>6 DEF Work

(* A thread that writes within its bucket leaves alone what the others do.   *)
LEMMA OtherBuckets ==
  ASSUME IInv, NEW t \in Thread, th[t].at \in Critical,
         key' = key, free' = free,
         \A u \in Thread \ {t} : th'[u] = th[u],
         \A n \in Node : Home(n) # HeadOf(t) => next'[n] = next[n] /\ prev'[n] = prev[n],
         \A e \in Mine(t)' : Home(e) = HeadOf(t) /\ (e \in Mine(t) \/ e \notin Loose)
  PROVE  /\ Hands'
         /\ \A u \in Thread \ {t} : WorkOf(u)' /\ HalfwayOf(u)'
         /\ \A n \in Node : Home(n) # HeadOf(t) =>
              /\ Home(next'[n]) = Home(n) /\ Home(prev'[n]) = Home(n)
              /\ prev'[next'[n]] = n \/ \E u \in Thread : n \in NextBroken(u)'
              /\ next'[prev'[n]] = n \/ \E u \in Thread : n \in PrevBroken(u)'
         /\ \A n : Home(n)' = Home(n)
<1> DEFINE H == HeadOf(t)
<1> USE DEF At
<1>1. TypeOK /\ Types /\ Holds /\ Hands /\ Work /\ Homes /\ Links /\ Halfway
  BY TypeOKParts DEF IInv
<1>2. \A n : Home(n)' = Home(n)
  BY DEF Home
<1>3. \A u \in Thread \ {t} :
        /\ Mine(u)' = Mine(u) /\ HeadOf(u)' = HeadOf(u) /\ NextBroken(u)' = NextBroken(u)
        /\ th[u].at \in Critical => HeadOf(u) # H
  BY <1>1, OthersSame, Separate
<1>4. Hands'
  BY <1>1, <1>3 DEF Hands, Loose
<1>5. \A u \in Thread \ {t} : \A n \in Node : th[u].at \in Critical /\ Belongs(u, n) => Belongs(u, n)'
  <2> SUFFICES ASSUME NEW u \in Thread \ {t}, NEW n \in Node, th[u].at \in Critical, Belongs(u, n)
               PROVE  Belongs(u, n)'
    OBVIOUS
  <2>1. Home(n) # H /\ n \notin Loose
    BY <1>3 DEF Belongs
  <2>2. n \notin Mine(t)' /\ n \notin free' /\ \A v \in Thread \ {t} : n \notin Mine(v)'
    BY <1>3, <2>1 DEF Loose
  <2> QED  BY <1>2, <1>3, <2>2 DEF Belongs, Loose
<1>6. \A u \in Thread \ {t} : WorkOf(u)' /\ HalfwayOf(u)' /\ PrevBroken(u)' = PrevBroken(u)
  <2> SUFFICES ASSUME NEW u \in Thread \ {t}
               PROVE  WorkOf(u)' /\ HalfwayOf(u)' /\ PrevBroken(u)' = PrevBroken(u)
    OBVIOUS
  <2>1. WorkOf(u) /\ HalfwayOf(u) /\ th'[u] = th[u]
    BY <1>1 DEF Work, Halfway
  <2>2. \A n : th[u].at \in Critical /\ Belongs(u, n) => Belongs(u, n)'
    BY <1>5 DEF Belongs
  <2>3. WorkOf(u)'
    BY <1>3, <2>1, <2>2 DEF WorkOf, Critical
  <2>4. \A n \in Node : th[u].at \in Critical /\ Home(n) = HeadOf(u) =>
                        next'[n] = next[n] /\ prev'[n] = prev[n]
    BY <1>3
  <2>5. CASE th[u].at \in {"link", "publish"}
    <3>1. /\ th[u].entry \in Node /\ Home(th[u].entry) = HeadOf(u)
          /\ th[u].pos \in Node /\ Home(th[u].pos) = HeadOf(u)
          /\ HeadOf(u) \in Node /\ Home(HeadOf(u)) = HeadOf(u)
      BY <1>1, <2>1, <2>5, ThreadType, HashAssumption DEF WorkOf, Belongs, Mine, Node, Home, HeadOf, Types
    <3> QED  BY <1>3, <2>1, <2>3, <2>4, <2>5, <3>1 DEF HalfwayOf, PrevBroken, Critical, WorkOf
  <2>6. CASE th[u].at \in {"skip", "clear"}
    <3>1. /\ th[u].ans \in Node /\ Home(th[u].ans) = HeadOf(u)
          /\ next[th[u].ans] \in Node /\ prev[th[u].ans] \in Node
          /\ Home(next[th[u].ans]) = HeadOf(u) /\ Home(prev[th[u].ans]) = HeadOf(u)
      BY <1>1, <2>1, <2>6 DEF WorkOf, Belongs, Types, Homes
    <3> QED  BY <1>3, <2>1, <2>3, <2>4, <2>6, <3>1 DEF HalfwayOf, PrevBroken, Critical, WorkOf
  <2>7. CASE th[u].at \notin {"link", "publish", "skip", "clear"}
    BY <2>1, <2>3, <2>7 DEF HalfwayOf, PrevBroken
  <2> QED  BY <2>3, <2>5, <2>6, <2>7
<1>7. ASSUME NEW n \in Node, Home(n) # H
      PROVE  /\ Home(next'[n]) = Home(n) /\ Home(prev'[n]) = Home(n)
             /\ prev'[next'[n]] = n \/ \E u \in Thread : n \in NextBroken(u)'
             /\ next'[prev'[n]] = n \/ \E u \in Thread : n \in PrevBroken(u)'
  <2>1. /\ next[n] \in Node /\ prev[n] \in Node /\ Home(next[n]) = Home(n) /\ Home(prev[n]) = Home(n)
    BY <1>1 DEF Types, Homes
  <2>2. /\ next'[n] = next[n] /\ prev'[n] = prev[n]
        /\ prev'[next[n]] = prev[next[n]] /\ next'[prev[n]] = next[prev[n]]
    BY <1>7, <2>1
  <2>3. n \notin NextBroken(t) \cup PrevBroken(t)
    BY <1>7, BrokenIsInside
  <2> QED  BY <1>1, <1>3, <1>6, <2>1, <2>2, <2>3 DEF Links
<1> QED  BY <1>2, <1>4, <1>6, <1>7

(* The head of a thread's bucket, and what is on no list.                    *)
LEMMA HeadFacts ==
  ASSUME IInv, NEW t \in Thread, th[t].at \in Critical
  PROVE  /\ HeadOf(t) \in Bucket /\ HeadOf(t) \in Node /\ Home(HeadOf(t)) = HeadOf(t)
         /\ Loose \subseteq Entry /\ HeadOf(t) \notin Loose
         /\ th[t].key \in Key
         /\ \A e \in Entry : key[e] = th[t].key => Home(e) = HeadOf(t)
<1>1. Types /\ Work
  BY TypeOKParts DEF IInv
<1>2. th[t].key \in Key /\ HeadOf(t) \in Bucket
  BY <1>1, HashAssumption DEF Types, HeadOf, At, Critical
<1>3. Loose \subseteq Entry
  BY <1>1 DEF Types, Work, WorkOf, Loose
<1> QED  BY <1>2, <1>3, HashAssumption DEF Node, Home, HeadOf

(* If a thread writes within its bucket and leaves it as it should be, the   *)
(* invariant is kept.                                                        *)
LEMMA OwnBucket ==
  ASSUME IInv, NEW t \in Thread, th[t].at \in Critical,
         key' = key, free' = free,
         \A u \in Thread \ {t} : th'[u] = th[u],
         \A n \in Node : Home(n) # HeadOf(t) => next'[n] = next[n] /\ prev'[n] = prev[n],
         \A e \in Mine(t)' : Home(e) = HeadOf(t) /\ (e \in Mine(t) \/ e \notin Loose),
         \A n \in Node : Home(n) = HeadOf(t) =>
           /\ Home(next'[n]) = HeadOf(t) /\ Home(prev'[n]) = HeadOf(t)
           /\ prev'[next'[n]] = n \/ n \in NextBroken(t)'
           /\ next'[prev'[n]] = n \/ n \in PrevBroken(t)',
         Apart', WorkOf(t)', HalfwayOf(t)'
  PROVE  Shape' /\ Work'
<1>1. /\ Hands'
      /\ \A u \in Thread \ {t} : WorkOf(u)' /\ HalfwayOf(u)'
      /\ \A n \in Node : Home(n) # HeadOf(t) =>
           /\ Home(next'[n]) = Home(n) /\ Home(prev'[n]) = Home(n)
           /\ prev'[next'[n]] = n \/ \E u \in Thread : n \in NextBroken(u)'
           /\ next'[prev'[n]] = n \/ \E u \in Thread : n \in PrevBroken(u)'
      /\ \A n : Home(n)' = Home(n)
  BY OtherBuckets
<1>2. Homes'
  BY <1>1 DEF Homes
<1>3. Links'
  BY <1>1 DEF Links
<1> QED  BY <1>1, <1>2, <1>3 DEF Shape, Work, Halfway

LEMMA AddBackKeeps ==
  ASSUME IInv, NEW t \in Thread, AddBack(t)
  PROVE  Shape' /\ Work'
<1> DEFINE H == HeadOf(t)
           e == th[t].entry
           p == next[H]
<1> USE DEF At
<1>1. Types /\ WorkOf(t) /\ Homes /\ Apart
  BY TypeOKParts DEF IInv, Work
<1>2. /\ th[t].at = "add" /\ th'[t].at = "link" /\ th'[t].pos = p /\ th'[t].entry = e
      /\ th'[t].op = th[t].op /\ th'[t].key = th[t].key
      /\ \A u \in Thread \ {t} : th'[u] = th[u]
      /\ prev' = [prev EXCEPT ![p] = e] /\ next' = next /\ key' = key /\ free' = free
  BY <1>1 DEF AddBack, Step, Types, ThreadRecord
<1>3. th[t].at \in Critical
  BY <1>2 DEF Critical
<1>4. /\ H \in Bucket /\ H \in Node /\ Home(H) = H /\ Loose \subseteq Entry /\ H \notin Loose
  BY <1>3, HeadFacts
<1>5. th[t].op = "insert" /\ Mine(t) = {e} /\ Mine(t)' = {e} /\ e \in Loose /\ e \in Entry /\ e \in Node
  <2>1. th[t].op = "insert" /\ Mine(t) = {e} /\ Mine(t)' = {e}
    BY <1>1, <1>2 DEF WorkOf, Mine
  <2> QED  BY <1>1, <2>1 DEF WorkOf, Loose, Node
<1>6. Home(e) = H /\ key[e] = th[t].key
  BY <1>1, <1>3, <1>5, HeadFacts DEF WorkOf
<1>7. p \in Node /\ Home(p) = H /\ p \notin Loose /\ p # e
  BY <1>1, <1>4, <1>5 DEF Types, Homes, Apart
<1>8. ASSUME NEW n \in Node, Home(n) = H
      PROVE  prev[next[n]] = n /\ next[prev[n]] = n
  BY <1>2, <1>3, <1>8, OwnLinks DEF NextBroken, PrevBroken
<1>9. HeadOf(t)' = H /\ NextBroken(t)' = {H} /\ PrevBroken(t)' = {p}
  BY <1>2 DEF HeadOf, NextBroken, PrevBroken
<1>10. Loose' = Loose
  <2>1. \A u \in Thread : Mine(u)' = Mine(u)
    BY <1>2, <1>5, OthersSame
  <2> QED  BY <1>2, <2>1 DEF Loose
<1>11. ASSUME NEW n \in Node, Home(n) = H
       PROVE  /\ Home(next'[n]) = H /\ Home(prev'[n]) = H
              /\ prev'[next'[n]] = n \/ n \in NextBroken(t)'
              /\ next'[prev'[n]] = n \/ n \in PrevBroken(t)'
  BY <1>1, <1>2, <1>4, <1>6, <1>7, <1>8, <1>9, <1>11 DEF Types, Homes
<1>12. Apart'
  BY <1>1, <1>2, <1>4, <1>7, <1>10 DEF Apart, Types
<1>13. WorkOf(t)'
  <2>1. Belongs(t, th[t].pos)'
    <3>1. \A n : Home(n)' = Home(n)
      BY <1>2 DEF Home
    <3> QED  BY <1>2, <1>7, <1>9, <1>10, <3>1 DEF Belongs
  <2>2. Mine(t)' \subseteq Entry /\ \A x \in Mine(t)' : key'[x] = th'[t].key
    BY <1>2, <1>5, <1>6
  <2> QED  BY <1>2, <1>5, <2>1, <2>2 DEF WorkOf, Op
<1>14. HalfwayOf(t)'
  BY <1>1, <1>2, <1>7, <1>9 DEF HalfwayOf, Types
<1> QED
  BY <1>1, <1>2, <1>3, <1>5, <1>6, <1>7, <1>11, <1>12, <1>13, <1>14, OwnBucket DEF Types

(* What a thread that is about to insert has in hand.                        *)
LEMMA InsertFacts ==
  ASSUME IInv, NEW t \in Thread, th[t].at \in {"add", "link"}
  PROVE  /\ th[t].op = "insert" /\ Mine(t) = {th[t].entry}
         /\ th[t].entry \in Loose /\ th[t].entry \in Entry /\ th[t].entry \in Node
         /\ Home(th[t].entry) = HeadOf(t) /\ key[th[t].entry] = th[t].key
         /\ th[t].entry \notin free /\ \A u \in Thread \ {t} : th[t].entry \notin Mine(u)
<1>1. WorkOf(t) /\ Hands /\ th[t].at \in Critical
  BY DEF IInv, Work, Critical
<1>2. th[t].op = "insert" /\ Mine(t) = {th[t].entry}
  BY <1>1 DEF WorkOf, Mine
<1>3. th[t].entry \in Entry /\ key[th[t].entry] = th[t].key
  BY <1>1, <1>2 DEF WorkOf
<1> QED  BY <1>1, <1>2, <1>3, HeadFacts DEF Loose, Node, Hands

LEMMA AddLinkKeeps ==
  ASSUME IInv, NEW t \in Thread, AddLink(t)
  PROVE  Shape' /\ Work'
<1> DEFINE H == HeadOf(t)
           e == th[t].entry
           p == th[t].pos
<1> USE DEF At
<1>1. Types /\ WorkOf(t) /\ HalfwayOf(t) /\ Homes /\ Apart
  BY TypeOKParts DEF IInv, Work, Halfway
<1>2. /\ th[t].at = "link" /\ th'[t].at = "publish" /\ th'[t].pos = p /\ th'[t].entry = e
      /\ th'[t].op = th[t].op /\ th'[t].key = th[t].key
      /\ \A u \in Thread \ {t} : th'[u] = th[u]
      /\ next' = [next EXCEPT ![e] = p] /\ prev' = [prev EXCEPT ![e] = H]
      /\ key' = key /\ free' = free
  BY <1>1 DEF AddLink, Step, Types, ThreadRecord
<1>3. th[t].at \in Critical
  BY <1>2 DEF Critical
<1>4. /\ H \in Bucket /\ H \in Node /\ Home(H) = H /\ Loose \subseteq Entry /\ H \notin Loose
  BY <1>3, HeadFacts
<1>5. /\ th[t].op = "insert" /\ Mine(t) = {e} /\ e \in Loose /\ e \in Entry /\ e \in Node
      /\ Home(e) = H /\ key[e] = th[t].key
      /\ e \notin free /\ \A u \in Thread \ {t} : e \notin Mine(u)
  BY <1>2, InsertFacts
<1>6. p \in Node /\ Home(p) = H /\ p \notin Loose /\ p # e /\ next[H] = p /\ prev[p] = e /\ H # e
  BY <1>1, <1>2, <1>4, <1>5 DEF WorkOf, Belongs, HalfwayOf
<1>7. ASSUME NEW n \in Node, Home(n) = H
      PROVE  (n # H => prev[next[n]] = n) /\ (n # p => next[prev[n]] = n)
  BY <1>2, <1>3, <1>7, OwnLinks DEF NextBroken, PrevBroken
<1>8. HeadOf(t)' = H /\ NextBroken(t)' = {H} /\ PrevBroken(t)' = {e} /\ Mine(t)' = {}
  BY <1>2 DEF HeadOf, NextBroken, PrevBroken, Mine
<1>9. Loose' = Loose \ {e}
  <2>1. \A u \in Thread \ {t} : Mine(u)' = Mine(u)
    BY <1>2, OthersSame
  <2> QED  BY <1>2, <1>5, <1>8, <2>1 DEF Loose
<1>10. ASSUME NEW n \in Node, Home(n) = H
       PROVE  /\ Home(next'[n]) = H /\ Home(prev'[n]) = H
              /\ prev'[next'[n]] = n \/ n \in NextBroken(t)'
              /\ next'[prev'[n]] = n \/ n \in PrevBroken(t)'
  <2>1. CASE n = e
    BY <1>1, <1>2, <1>4, <1>5, <1>6, <1>8, <2>1 DEF Types
  <2>2. CASE n # e
    <3>1. next'[n] = next[n] /\ prev'[n] = prev[n] /\ next[n] \in Node /\ prev[n] \in Node
      BY <1>1, <1>2, <2>2 DEF Types
    <3>2. next[n] # e /\ (n # p => prev[n] # e)
      BY <1>1, <1>5, <1>7, <1>10, <2>2 DEF Apart
    <3> QED  BY <1>1, <1>2, <1>4, <1>6, <1>7, <1>8, <1>10, <3>1, <3>2 DEF Types, Homes
  <2> QED  BY <2>1, <2>2
<1>11. Apart'
  <2> SUFFICES ASSUME NEW x \in Loose'
               PROVE  /\ next'[x] = x /\ prev'[x] = x
                      /\ \A n \in Node \ {x} :
                           /\ next'[n] # x
                           /\ prev'[n] = x => \E u \in Thread : At(u, "link")' /\ th'[u].entry = x /\ th'[u].pos = n
    BY DEF Apart
  <2>1. x \in Loose /\ x # e /\ x # p /\ x # H /\ x \in Node
    BY <1>4, <1>6, <1>9 DEF Node
  <2>2. next'[x] = x /\ prev'[x] = x
    BY <1>1, <1>2, <2>1 DEF Apart, Types
  <2>3. ASSUME NEW n \in Node \ {x}
        PROVE  /\ next'[n] # x
               /\ prev'[n] = x => \E u \in Thread : At(u, "link")' /\ th'[u].entry = x /\ th'[u].pos = n
    <3>1. CASE n = e
      BY <1>1, <1>2, <1>5, <2>1, <3>1 DEF Types
    <3>2. CASE n # e
      <4>1. next'[n] = next[n] /\ prev'[n] = prev[n]
        BY <1>1, <1>2, <3>2 DEF Types
      <4> QED  BY <1>1, <1>2, <2>1, <4>1 DEF Apart
    <3> QED  BY <3>1, <3>2
  <2> QED  BY <2>2, <2>3
<1>12. WorkOf(t)'
  <2>1. \A n : Home(n)' = Home(n)
    BY <1>2 DEF Home
  <2>2. Belongs(t, th[t].pos)' /\ Belongs(t, th[t].entry)'
    BY <1>2, <1>5, <1>6, <1>8, <1>9, <2>1 DEF Belongs
  <2> QED  BY <1>2, <1>5, <1>8, <2>2 DEF WorkOf, Op
<1>13. HalfwayOf(t)'
  BY <1>1, <1>2, <1>5, <1>6, <1>8 DEF HalfwayOf, Types
<1>14. /\ \A n \in Node : Home(n) # H => next'[n] = next[n] /\ prev'[n] = prev[n]
       /\ \A x \in Mine(t)' : Home(x) = H /\ (x \in Mine(t) \/ x \notin Loose)
  BY <1>1, <1>2, <1>5, <1>8 DEF Types
<1> QED
  BY <1>2, <1>3, <1>10, <1>11, <1>12, <1>13, <1>14, OwnBucket

LEMMA AddPublishKeeps ==
  ASSUME IInv, NEW t \in Thread, AddPublish(t)
  PROVE  Shape' /\ Work'
<1> DEFINE H == HeadOf(t)
           e == th[t].entry
           p == th[t].pos
<1> USE DEF At
<1>1. Types /\ WorkOf(t) /\ HalfwayOf(t) /\ Homes /\ Apart
  BY TypeOKParts DEF IInv, Work, Halfway
<1>2. /\ th[t].at = "publish" /\ th'[t].at = "unlock" /\ th'[t].op = th[t].op /\ th'[t].key = th[t].key
      /\ \A u \in Thread \ {t} : th'[u] = th[u]
      /\ next' = [next EXCEPT ![H] = e] /\ prev' = prev /\ key' = key /\ free' = free
  BY <1>1 DEF AddPublish, Step, Types, ThreadRecord
<1>3. th[t].at \in Critical /\ th[t].op = "insert"
  BY <1>1, <1>2 DEF Critical, WorkOf
<1>4. H \in Node /\ Home(H) = H /\ Loose \subseteq Entry /\ H \notin Loose /\ H \notin Entry
  BY <1>3, HeadFacts, HashAssumption
<1>5. /\ e \in Entry /\ e \in Node /\ Home(e) = H /\ e \notin Loose /\ e # H
      /\ p \in Node /\ Home(p) = H
      /\ next[e] = p /\ prev[e] = H /\ next[H] = p /\ prev[p] = e
  BY <1>1, <1>2, <1>4 DEF WorkOf, Belongs, HalfwayOf
<1>6. ASSUME NEW n \in Node, Home(n) = H
      PROVE  (n # H => prev[next[n]] = n) /\ (n # e => next[prev[n]] = n)
  BY <1>2, <1>3, <1>6, OwnLinks DEF NextBroken, PrevBroken
<1>7. HeadOf(t)' = H /\ Mine(t)' = {} /\ Mine(t) = {}
  BY <1>2, <1>3 DEF HeadOf, Mine
<1>8. Loose' = Loose
  <2>1. \A u \in Thread : Mine(u)' = Mine(u)
    BY <1>2, <1>7, OthersSame
  <2> QED  BY <1>2, <2>1 DEF Loose
<1>9. prev[H] # H
  BY <1>4, <1>5, <1>6
<1>10. ASSUME NEW n \in Node, Home(n) = H
       PROVE  /\ Home(next'[n]) = H /\ Home(prev'[n]) = H
              /\ prev'[next'[n]] = n /\ next'[prev'[n]] = n
  <2>1. next[n] \in Node /\ prev[n] \in Node /\ Home(next[n]) = H /\ Home(prev[n]) = H
    BY <1>1, <1>10 DEF Types, Homes
  <2>2. CASE n = H
    BY <1>1, <1>2, <1>4, <1>5, <1>6, <1>9, <2>1, <2>2 DEF Types
  <2>3. CASE n = e
    BY <1>1, <1>2, <1>4, <1>5, <1>6, <2>1, <2>3 DEF Types
  <2>4. CASE n # H /\ n # e
    BY <1>1, <1>2, <1>4, <1>5, <1>6, <1>10, <2>1, <2>4 DEF Types
  <2> QED  BY <2>2, <2>3, <2>4
<1>11. Apart'
  BY <1>1, <1>2, <1>4, <1>5, <1>8 DEF Apart, Types
<1>12. WorkOf(t)' /\ HalfwayOf(t)'
  BY <1>2, <1>3, <1>7 DEF WorkOf, HalfwayOf, Op
<1>13. \A n \in Node : Home(n) # H => next'[n] = next[n] /\ prev'[n] = prev[n]
  BY <1>1, <1>2, <1>4 DEF Types
<1> QED
  BY <1>2, <1>3, <1>7, <1>10, <1>11, <1>12, <1>13, OwnBucket

(* What a thread that takes an entry off its list has in hand.               *)
LEMMA DeleteFacts ==
  ASSUME IInv, NEW t \in Thread, th[t].at \in {"unlink", "skip", "clear"}
  PROVE  LET a == th[t].ans IN
         /\ a \in Entry /\ a \in Node /\ Home(a) = HeadOf(t) /\ a \notin Loose /\ key[a] = th[t].key
         /\ next[a] \in Node /\ Home(next[a]) = HeadOf(t) /\ next[a] \notin Loose
         /\ prev[a] \in Node /\ Home(prev[a]) = HeadOf(t)
         /\ th[t].op = "del" /\ Mine(t) = {}
<1>1. Types /\ WorkOf(t) /\ Homes /\ Apart
  BY TypeOKParts DEF IInv, Work
<1>2. /\ th[t].ans \in Entry /\ Belongs(t, th[t].ans) /\ key[th[t].ans] = th[t].key
      /\ th[t].op = "del"
  BY <1>1 DEF WorkOf
<1>3. Mine(t) = {}
  BY <1>2 DEF Mine
<1> QED
  BY <1>1, <1>2, <1>3 DEF Belongs, Types, Homes, Apart

LEMMA DelBackKeeps ==
  ASSUME IInv, NEW t \in Thread, DelBack(t)
  PROVE  Shape' /\ Work'
<1> DEFINE H == HeadOf(t)
           a == th[t].ans
           nx == next[th[t].ans]
           pv == prev[th[t].ans]
<1> USE DEF At
<1>1. Types /\ WorkOf(t) /\ Homes /\ Apart
  BY TypeOKParts DEF IInv, Work
<1>2. /\ th[t].at = "unlink" /\ th'[t].at = "skip" /\ th'[t].op = th[t].op /\ th'[t].key = th[t].key
      /\ th'[t].ans = a /\ \A u \in Thread \ {t} : th'[u] = th[u]
      /\ prev' = [prev EXCEPT ![nx] = pv] /\ next' = next /\ key' = key /\ free' = free
  BY <1>1 DEF DelBack, Step, Types, ThreadRecord
<1>3. th[t].at \in Critical
  BY <1>2 DEF Critical
<1>4. /\ a \in Entry /\ a \in Node /\ Home(a) = H /\ a \notin Loose /\ key[a] = th[t].key
      /\ nx \in Node /\ Home(nx) = H /\ pv \in Node /\ Home(pv) = H
      /\ th[t].op = "del" /\ Mine(t) = {}
  BY <1>2, DeleteFacts
<1>5. ASSUME NEW n \in Node, Home(n) = H
      PROVE  prev[next[n]] = n /\ next[prev[n]] = n
  BY <1>2, <1>3, <1>5, OwnLinks DEF NextBroken, PrevBroken
<1>6. pv \notin Loose
  BY <1>1, <1>4, <1>5 DEF Apart
<1>7. HeadOf(t)' = H /\ NextBroken(t)' = {a} /\ PrevBroken(t)' = {nx} /\ Mine(t)' = {}
  BY <1>2, <1>4 DEF HeadOf, NextBroken, PrevBroken, Mine
<1>8. Loose' = Loose
  <2>1. \A u \in Thread : Mine(u)' = Mine(u)
    BY <1>2, <1>4, <1>7, OthersSame
  <2> QED  BY <1>2, <2>1 DEF Loose
<1>9. ASSUME NEW n \in Node, Home(n) = H
      PROVE  /\ Home(next'[n]) = H /\ Home(prev'[n]) = H
             /\ prev'[next'[n]] = n \/ n \in NextBroken(t)'
             /\ next'[prev'[n]] = n \/ n \in PrevBroken(t)'
  <2>1. next[n] \in Node /\ prev[n] \in Node /\ Home(next[n]) = H /\ Home(prev[n]) = H
    BY <1>1, <1>9 DEF Types, Homes
  <2>2. n # a => next[n] # nx
    BY <1>4, <1>5, <1>9
  <2> QED  BY <1>1, <1>2, <1>4, <1>5, <1>7, <1>9, <2>1, <2>2 DEF Types
<1>10. Apart'
  BY <1>1, <1>2, <1>4, <1>6, <1>8 DEF Apart, Types
<1>11. WorkOf(t)'
  <2>1. \A n : Home(n)' = Home(n)
    BY <1>2 DEF Home
  <2>2. Belongs(t, th[t].ans)'
    BY <1>2, <1>4, <1>7, <1>8, <2>1 DEF Belongs
  <2> QED  BY <1>2, <1>4, <1>7, <2>2 DEF WorkOf, Op
<1>12. HalfwayOf(t)'
  <2>1. prev'[a] = pv /\ prev'[nx] = pv /\ next[pv] = a /\ (nx = a <=> pv = a)
    BY <1>1, <1>2, <1>4, <1>5 DEF Types
  <2> QED  BY <1>2, <2>1 DEF HalfwayOf
<1>13. \A n \in Node : Home(n) # H => next'[n] = next[n] /\ prev'[n] = prev[n]
  BY <1>1, <1>2, <1>4 DEF Types
<1> QED
  BY <1>2, <1>3, <1>7, <1>9, <1>10, <1>11, <1>12, <1>13, OwnBucket

LEMMA DelSkipKeeps ==
  ASSUME IInv, NEW t \in Thread, DelSkip(t)
  PROVE  Shape' /\ Work'
<1> DEFINE H == HeadOf(t)
           a == th[t].ans
           nx == next[th[t].ans]
           pv == prev[th[t].ans]
<1> USE DEF At
<1>1. Types /\ WorkOf(t) /\ HalfwayOf(t) /\ Homes /\ Apart
  BY TypeOKParts DEF IInv, Work, Halfway
<1>2. /\ th[t].at = "skip" /\ th'[t].at = "clear" /\ th'[t].op = th[t].op /\ th'[t].key = th[t].key
      /\ th'[t].ans = a /\ \A u \in Thread \ {t} : th'[u] = th[u]
      /\ next' = [next EXCEPT ![pv] = nx] /\ prev' = prev /\ key' = key /\ free' = free
  BY <1>1 DEF DelSkip, Step, Types, ThreadRecord
<1>3. th[t].at \in Critical
  BY <1>2 DEF Critical
<1>4. /\ a \in Entry /\ a \in Node /\ Home(a) = H /\ a \notin Loose /\ key[a] = th[t].key
      /\ nx \in Node /\ Home(nx) = H /\ nx \notin Loose /\ pv \in Node /\ Home(pv) = H
      /\ th[t].op = "del" /\ Mine(t) = {}
  BY <1>2, DeleteFacts
<1>5. next[pv] = a /\ prev[nx] = pv /\ (nx = a <=> pv = a)
  BY <1>1, <1>2 DEF HalfwayOf
<1>6. ASSUME NEW n \in Node, Home(n) = H
      PROVE  (n # a => prev[next[n]] = n) /\ (n # nx => next[prev[n]] = n)
  BY <1>2, <1>3, <1>6, OwnLinks DEF NextBroken, PrevBroken
<1>7. HeadOf(t)' = H /\ NextBroken(t)' = {a} /\ PrevBroken(t)' = {a} /\ Mine(t)' = {}
  BY <1>2, <1>4 DEF HeadOf, NextBroken, PrevBroken, Mine
<1>8. Loose' = Loose
  <2>1. \A u \in Thread : Mine(u)' = Mine(u)
    BY <1>2, <1>4, <1>7, OthersSame
  <2> QED  BY <1>2, <2>1 DEF Loose
<1>9. ASSUME NEW n \in Node, Home(n) = H
      PROVE  /\ Home(next'[n]) = H /\ Home(prev'[n]) = H
             /\ prev'[next'[n]] = n \/ n \in NextBroken(t)'
             /\ next'[prev'[n]] = n \/ n \in PrevBroken(t)'
  <2>1. next[n] \in Node /\ prev[n] \in Node /\ Home(next[n]) = H /\ Home(prev[n]) = H
    BY <1>1, <1>9 DEF Types, Homes
  <2>2. n # a /\ n # nx => prev[n] # pv
    BY <1>5, <1>6, <1>9
  <2> QED  BY <1>1, <1>2, <1>4, <1>5, <1>6, <1>7, <1>9, <2>1, <2>2 DEF Types
<1>10. Apart'
  <2>1. pv \notin Loose
    BY <1>1, <1>4, <1>5 DEF Apart
  <2> QED  BY <1>1, <1>2, <1>4, <1>8, <2>1 DEF Apart, Types
<1>11. WorkOf(t)'
  <2>1. \A n : Home(n)' = Home(n)
    BY <1>2 DEF Home
  <2>2. Belongs(t, th[t].ans)'
    BY <1>2, <1>4, <1>7, <1>8, <2>1 DEF Belongs
  <2> QED  BY <1>2, <1>4, <1>7, <2>2 DEF WorkOf, Op
<1>12. HalfwayOf(t)'
  <2>1. next'[a] = nx /\ next'[pv] = nx
    BY <1>1, <1>2, <1>4, <1>5 DEF Types
  <2> QED  BY <1>2, <1>5, <2>1 DEF HalfwayOf
<1>13. \A n \in Node : Home(n) # H => next'[n] = next[n] /\ prev'[n] = prev[n]
  BY <1>1, <1>2, <1>4 DEF Types
<1> QED
  BY <1>2, <1>3, <1>7, <1>9, <1>10, <1>11, <1>12, <1>13, OwnBucket

LEMMA DelClearKeeps ==
  ASSUME IInv, NEW t \in Thread, DelClear(t)
  PROVE  Shape' /\ Work'
<1> DEFINE H == HeadOf(t)
           a == th[t].ans
           nx == next[th[t].ans]
           pv == prev[th[t].ans]
<1> USE DEF At
<1>1. Types /\ WorkOf(t) /\ HalfwayOf(t) /\ Homes /\ Apart
  BY TypeOKParts DEF IInv, Work, Halfway
<1>2. /\ th[t].at = "clear" /\ th'[t].at = "unlock" /\ th'[t].op = th[t].op /\ th'[t].key = th[t].key
      /\ th'[t].ans = a /\ \A u \in Thread \ {t} : th'[u] = th[u]
      /\ next' = [next EXCEPT ![a] = a] /\ prev' = [prev EXCEPT ![a] = a] /\ key' = key /\ free' = free
  BY <1>1 DEF DelClear, Step, Types, ThreadRecord
<1>3. th[t].at \in Critical
  BY <1>2 DEF Critical
<1>4. /\ a \in Entry /\ a \in Node /\ Home(a) = H /\ a \notin Loose /\ key[a] = th[t].key
      /\ nx \in Node /\ Home(nx) = H /\ pv \in Node /\ Home(pv) = H
      /\ th[t].op = "del" /\ Mine(t) = {} /\ a # NoEntry
  BY <1>2, DeleteFacts, HashAssumption
<1>5. next[pv] = nx /\ prev[nx] = pv /\ (nx = a <=> pv = a)
  BY <1>1, <1>2 DEF HalfwayOf
<1>6. ASSUME NEW n \in Node, Home(n) = H, n # a
      PROVE  prev[next[n]] = n /\ next[prev[n]] = n
  BY <1>2, <1>3, <1>6, OwnLinks DEF NextBroken, PrevBroken
<1>7. HeadOf(t)' = H /\ Mine(t)' = {a}
  BY <1>2, <1>4 DEF HeadOf, Mine
<1>8. Loose' = Loose \cup {a}
  <2>1. \A u \in Thread \ {t} : Mine(u)' = Mine(u)
    BY <1>2, OthersSame
  <2> QED  BY <1>2, <1>4, <1>7, <2>1 DEF Loose
<1>9. ASSUME NEW n \in Node \ {a}
      PROVE  next[n] # a /\ prev[n] # a
  <2>1. CASE Home(n) = H
    BY <1>4, <1>5, <1>6, <2>1
  <2>2. CASE Home(n) # H
    BY <1>1, <1>4, <2>2 DEF Homes
  <2> QED  BY <2>1, <2>2
<1>10. ASSUME NEW n \in Node, Home(n) = H
       PROVE  /\ Home(next'[n]) = H /\ Home(prev'[n]) = H
              /\ prev'[next'[n]] = n /\ next'[prev'[n]] = n
  <2>1. next[n] \in Node /\ prev[n] \in Node /\ Home(next[n]) = H /\ Home(prev[n]) = H
    BY <1>1, <1>10 DEF Types, Homes
  <2> QED  BY <1>1, <1>2, <1>4, <1>6, <1>9, <1>10, <2>1 DEF Types
<1>11. Apart'
  <2> SUFFICES ASSUME NEW x \in Loose'
               PROVE  /\ next'[x] = x /\ prev'[x] = x
                      /\ \A n \in Node \ {x} :
                           /\ next'[n] # x
                           /\ prev'[n] = x => \E u \in Thread : At(u, "link")' /\ th'[u].entry = x /\ th'[u].pos = n
    BY DEF Apart
  <2>1. CASE x = a
    BY <1>1, <1>2, <1>4, <1>9, <2>1 DEF Types
  <2>2. CASE x # a
    <3>1. x \in Loose /\ x \in Node
      BY <1>3, <1>8, <2>2, HeadFacts DEF Node
    <3>2. \A u \in Thread : th[u].at = "link" => th'[u] = th[u]
      BY <1>2
    <3> QED  BY <1>1, <1>2, <1>4, <2>2, <3>1, <3>2 DEF Apart, Types
  <2> QED  BY <2>1, <2>2
<1>12. WorkOf(t)' /\ HalfwayOf(t)'
  BY <1>2, <1>4, <1>7 DEF WorkOf, HalfwayOf, Op
<1>13. /\ \A n \in Node : Home(n) # H => next'[n] = next[n] /\ prev'[n] = prev[n]
       /\ \A x \in Mine(t)' : Home(x) = H /\ (x \in Mine(t) \/ x \notin Loose)
  BY <1>1, <1>2, <1>4, <1>7 DEF Types
<1> QED
  BY <1>2, <1>3, <1>10, <1>11, <1>12, <1>13, OwnBucket

(* Initialising or freeing an entry that is on no list changes no list.      *)
LEMMA HandStep ==
  ASSUME IInv, NEW t \in Thread, NEW e,
         next' = next, prev' = prev, Loose' = Loose, e \in Loose,
         \A u \in Thread \ {t} : th'[u] = th[u] /\ e \notin Mine(u),
         \A n \in Entry \ {e} : key'[n] = key[n],
         th[t].at \notin {"link", "publish", "skip", "clear"},
         th'[t].at \notin {"link", "publish", "skip", "clear"}
  PROVE  /\ Homes' /\ Apart' /\ Links' /\ Halfway'
         /\ \A u \in Thread \ {t} : WorkOf(u)'
<1> USE DEF At
<1>1. Types /\ Work /\ Homes /\ Apart /\ Links /\ Halfway
  BY TypeOKParts DEF IInv
<1>2. \A n \in Node \ {e} : Home(n)' = Home(n) /\ next[n] # e /\ prev[n] # e
  <2> SUFFICES ASSUME NEW n \in Node \ {e}
               PROVE  Home(n)' = Home(n) /\ next[n] # e /\ prev[n] # e
    OBVIOUS
  <2>1. Home(n)' = Home(n)
    BY HashAssumption DEF Home, Node
  <2>2. next[n] # e
    BY <1>1 DEF Apart
  <2>3. ASSUME prev[n] = e PROVE FALSE
    <3>1. PICK u \in Thread : th[u].at = "link" /\ th[u].entry = e
      BY <1>1, <2>3 DEF Apart
    <3>2. u # t /\ e \in Mine(u)
      BY <3>1, InsertFacts
    <3> QED  BY <3>2
  <2> QED  BY <2>1, <2>2, <2>3
<1>3. NextBroken(t) = {} /\ PrevBroken(t) = {} /\ NextBroken(t)' = {} /\ PrevBroken(t)' = {}
  BY DEF NextBroken, PrevBroken
<1>4. \A u \in Thread : NextBroken(u)' = NextBroken(u) /\ PrevBroken(u)' = PrevBroken(u)
  BY <1>3, OthersSame
<1>5. Homes'
  <2> SUFFICES ASSUME NEW n \in Node
               PROVE  Home(next[n])' = Home(n)' /\ Home(prev[n])' = Home(n)'
    BY DEF Homes
  <2>1. CASE n = e
    BY <1>1, <2>1 DEF Apart
  <2>2. CASE n # e
    <3>1. next[n] \in Node \ {e} /\ prev[n] \in Node \ {e} /\ Home(next[n]) = Home(n) /\ Home(prev[n]) = Home(n)
      BY <1>1, <1>2, <2>2 DEF Types, Homes
    <3> QED  BY <1>2, <2>2, <3>1
  <2> QED  BY <2>1, <2>2
<1>6. Apart'
  <2>1. \A u \in Thread : th[u].at = "link" => u # t /\ th'[u] = th[u]
    OBVIOUS
  <2> QED  BY <1>1, <2>1 DEF Apart
<1>7. Links'
  BY <1>1, <1>4 DEF Links
<1>8. Halfway'
  <2>1. HalfwayOf(t)'
    BY DEF HalfwayOf
  <2>2. ASSUME NEW u \in Thread, u # t PROVE HalfwayOf(u)'
    BY <1>1, <2>2 DEF Halfway, HalfwayOf, HeadOf
  <2> QED  BY <2>1, <2>2 DEF Halfway
<1>9. ASSUME NEW u \in Thread \ {t}
      PROVE  WorkOf(u)'
  <2>1. WorkOf(u) /\ th'[u] = th[u] /\ Mine(u)' = Mine(u) /\ HeadOf(u)' = HeadOf(u) /\ e \notin Mine(u)
    BY <1>1, OthersSame DEF Work
  <2>2. \A n : Belongs(u, n) => Belongs(u, n)' /\ n # e
    BY <1>2, <2>1 DEF Belongs
  <2> QED  BY <2>1, <2>2 DEF WorkOf
<1> QED  BY <1>5, <1>6, <1>7, <1>8, <1>9

LEMMA CallInsertKeeps ==
  ASSUME IInv, NEW t \in Thread, CallInsert(t)
  PROVE  Shape' /\ Work'
<1>1. Types /\ WorkOf(t) /\ Hands /\ Apart
  BY TypeOKParts DEF IInv, Work
<1>2. PICK k \in Key, e \in free :
        /\ th' = [th EXCEPT ![t] = [Idle EXCEPT !.at = "hash", !.op = "insert", !.key = k, !.entry = e]]
        /\ next' = [next EXCEPT ![e] = e] /\ prev' = [prev EXCEPT ![e] = e]
        /\ key' = [key EXCEPT ![e] = k] /\ free' = free \ {e}
  BY DEF CallInsert
<1>3. /\ th[t].at = "idle" /\ th'[t].at = "hash" /\ th'[t].op = "insert"
      /\ th'[t].key = k /\ th'[t].entry = e /\ th'[t].ans = NoEntry
      /\ \A u \in Thread \ {t} : th'[u] = th[u]
  BY <1>1, <1>2 DEF CallInsert, At, Types, Idle
<1>4. e \in Loose /\ e \in Entry /\ e \in Node /\ \A u \in Thread : e \notin Mine(u)
  BY <1>1 DEF Hands, Loose, Node, Types
<1>5. next' = next /\ prev' = prev
  BY <1>1, <1>2, <1>4 DEF Apart, Types
<1>6. Mine(t) = {} /\ Mine(t)' = {e} /\ \A u \in Thread \ {t} : Mine(u)' = Mine(u)
  BY <1>3, OthersSame DEF Mine
<1>7. Loose' = Loose
  BY <1>2, <1>6 DEF Loose
<1>8. Hands'
  BY <1>1, <1>2, <1>4, <1>6 DEF Hands
<1>9. \A n \in Entry \ {e} : key'[n] = key[n]
  BY <1>1, <1>2 DEF Types
<1>10. /\ Homes' /\ Apart' /\ Links' /\ Halfway'
       /\ \A u \in Thread \ {t} : WorkOf(u)'
  BY <1>3, <1>4, <1>5, <1>7, <1>9, HandStep
<1>11. WorkOf(t)'
  BY <1>1, <1>2, <1>3, <1>4, <1>6 DEF WorkOf, Op, Types
<1> QED  BY <1>8, <1>10, <1>11 DEF Shape, Work

LEMMA ReturnKeeps ==
  ASSUME IInv, NEW t \in Thread, Return(t)
  PROVE  Shape' /\ Work'
<1>1. Types /\ WorkOf(t) /\ Hands
  BY TypeOKParts DEF IInv, Work
<1>2. /\ th[t].at = "return" /\ th'[t].at = "idle" /\ th'[t].op = "none"
      /\ \A u \in Thread \ {t} : th'[u] = th[u]
      /\ next' = next /\ prev' = prev
  BY <1>1 DEF Return, At, Types, Idle, list
<1>3. /\ Mine(t) = IF th[t].op = "del" /\ th[t].ans # NoEntry THEN {th[t].ans} ELSE {}
      /\ Mine(t)' = {}
      /\ free' = free \cup Mine(t)
      /\ \A n \in Entry \ Mine(t) : key'[n] = key[n]
  BY <1>2 DEF Return, Mine
<1>4. \A u \in Thread \ {t} : Mine(u)' = Mine(u) /\ Mine(t) \cap Mine(u) = {}
  BY <1>1, <1>2, OthersSame DEF Hands
<1>5. Loose' = Loose
  BY <1>3, <1>4 DEF Loose
<1>6. Hands'
  BY <1>1, <1>3, <1>4 DEF Hands
<1>7. WorkOf(t)'
  BY <1>2, <1>3 DEF WorkOf
<1>8. CASE Mine(t) = {}
  <2>1. key' = key
    <3>1. key' = [n \in Entry |-> IF n \in Mine(t) THEN NoKey ELSE key[n]]
      BY <1>3 DEF Return
    <3> QED  BY <1>1, <1>8, <3>1 DEF Types
  <2>2. UNCHANGED <<list, key, free>> /\ Mine(t)' = Mine(t)
    BY <1>2, <1>3, <1>8, <2>1 DEF list
  <2>3. Shape' /\ \A u \in Thread \ {t} : \A n \in Node : Belongs(u, n)' = Belongs(u, n)
    BY <1>2, <2>2, QuietStep
  <2>4. \A u \in Thread \ {t} : WorkOf(u)'
    BY <1>2, <2>1, <2>3, OthersWork
  <2> QED  BY <1>7, <2>3, <2>4 DEF Work
<1>9. CASE Mine(t) = {th[t].ans}
  <2>1. /\ th[t].ans \in Loose
        /\ \A u \in Thread \ {t} : th'[u] = th[u] /\ th[t].ans \notin Mine(u)
        /\ \A n \in Entry \ {th[t].ans} : key'[n] = key[n]
    BY <1>2, <1>3, <1>4, <1>9 DEF Loose
  <2>2. /\ Homes' /\ Apart' /\ Links' /\ Halfway'
        /\ \A u \in Thread \ {t} : WorkOf(u)'
    BY <1>2, <1>5, <2>1, HandStep
  <2> QED  BY <1>6, <1>7, <2>2 DEF Shape, Work
<1> QED  BY <1>3, <1>8, <1>9

-----------------------------------------------------------------------------
(* The theorems.                                                             *)

LEMMA InitHolds == Init => IInv
<1> SUFFICES ASSUME Init PROVE IInv
  OBVIOUS
<1>1. \A t \in Thread : th[t] = Idle /\ Idle.at = "idle"
  BY DEF Init, Idle
<1>2. Types
  BY DEF Init, Types, Idle, ThreadRecord, Op, At
<1>3. Owners /\ Holds
  BY <1>1, HashAssumption DEF Init, Owners, Holds, Critical
<1>4. TypeOK
  BY <1>2, <1>3, TypeOKParts
<1>5. \A t \in Thread : Mine(t) = {} /\ NextBroken(t) = {} /\ PrevBroken(t) = {}
  BY <1>1 DEF Mine, NextBroken, PrevBroken, At
<1>6. Hands /\ Work /\ Halfway
  BY <1>1, <1>5 DEF Hands, Work, WorkOf, Halfway, HalfwayOf, At
<1>7. Homes /\ Links
  BY DEF Init, Homes, Links
<1>8. Apart
  BY <1>5 DEF Init, Apart, Loose, Node
<1> QED  BY <1>3, <1>4, <1>6, <1>7, <1>8 DEF IInv

LEMMA StepKeeps == IInv /\ [Next]_vars => IInv'
<1> SUFFICES ASSUME IInv, [Next]_vars PROVE IInv'
  OBVIOUS
<1>1. TypeOK' /\ Holds'
  BY TypesStep, OwnersStep, TypeOKParts DEF TypeOK, Types, Owners, ThreadRecord
<1>2. Shape' /\ Work'
  <2>1. CASE UNCHANGED vars
    <3>1. UNCHANGED <<next, prev, key, free, th>>
      BY <2>1 DEF vars
    <3>2. \A t : /\ Mine(t)' = Mine(t) /\ HeadOf(t)' = HeadOf(t) /\ Home(t)' = Home(t)
                /\ NextBroken(t)' = NextBroken(t) /\ PrevBroken(t)' = PrevBroken(t)
      BY <3>1 DEF Mine, HeadOf, Home, NextBroken, PrevBroken, At
    <3>3. Loose' = Loose
      BY <3>1, <3>2 DEF Loose
    <3>4. \A t, n : Belongs(t, n)' = Belongs(t, n)
      BY <3>2, <3>3 DEF Belongs
    <3>5. \A t \in Thread : WorkOf(t)' /\ HalfwayOf(t)'
      BY <3>1, <3>2, <3>4 DEF IInv, Work, WorkOf, Halfway, HalfwayOf, At
    <3>6. Hands' /\ Homes' /\ Apart' /\ Links'
      BY <3>1, <3>2, <3>3 DEF IInv, Hands, Homes, Apart, Links, At
    <3> QED  BY <3>5, <3>6 DEF Shape, Work, Halfway
  <2>2. ASSUME NEW t \in Thread, CallInsert(t) \/ CallOther(t) \/ Go(t)
        PROVE  Shape' /\ Work'
    BY <2>2, CallInsertKeeps, WalkKeeps, ReturnKeeps, AddBackKeeps, AddLinkKeeps, AddPublishKeeps,
       DelBackKeeps, DelSkipKeeps, DelClearKeeps DEF Go
  <2> QED  BY <2>1, <2>2 DEF Next
<1> QED  BY <1>1, <1>2 DEF IInv, Shape

(* The invariant that carries the others: whoever is inside a bucket holds   *)
(* its mutex, what it has in hand is on the list of that bucket, entries on  *)
(* no list are pointed to by nobody, and the two directions of the list      *)
(* disagree only where a thread is between two of its writes.                *)
THEOREM InvariantHolds == Spec => []IInv
<1>1. Init => IInv
  BY InitHolds
<1>2. IInv /\ [Next]_vars => IInv'
  BY StepKeeps
<1> QED  BY <1>1, <1>2, PTL DEF Spec

(* The variables keep to their types, so that no pointer that is followed is *)
(* that of a freed or absent entry, and a held mutex has a holder inside.    *)
THEOREM TypeCorrect == Spec => []TypeOK
<1>1. IInv => TypeOK
  BY DEF IInv
<1> QED  BY <1>1, InvariantHolds, PTL

(* Two threads are never inside the list of one bucket: not those of the     *)
(* *_safe functions, nor those that call the plain ones under their mutex.   *)
THEOREM NeverTwoInside == Spec => []Exclusive
<1>1. IInv => Exclusive
  BY Separate DEF IInv, Exclusive, InBucket
<1> QED  BY <1>1, InvariantHolds, PTL

(* While nobody is inside a bucket, its list is a doubly linked one that     *)
(* stays within the bucket and holds no entry that is its user's again.      *)
THEOREM ListsStayWhole == Spec => []ListsWhole
<1>1. IInv => ListsWhole
  <2> SUFFICES ASSUME IInv, NEW n \in Node, \A t \in Thread : ~InBucket(t, Home(n))
               PROVE  /\ prev[next[n]] = n /\ next[prev[n]] = n
                      /\ Home(next[n]) = Home(n) /\ Home(prev[n]) = Home(n)
                      /\ next[n] \in free => next[n] = n
    BY DEF ListsWhole
  <2>1. \A t \in Thread : n \notin NextBroken(t) \cup PrevBroken(t)
    BY BrokenIsInside DEF InBucket
  <2>2. next[n] \in free => next[n] = n
    BY DEF IInv, Apart, Loose
  <2> QED  BY <2>1, <2>2 DEF IInv, Links, Homes
<1> QED  BY <1>1, InvariantHolds, PTL

-----------------------------------------------------------------------------
(* Lists as sequences.  A list and its order do not depend on the state, so  *)
(* the lemmas are about any function `follow'.                               *)

LEMMA LeastNatural ==
  ASSUME NEW T, T \subseteq Nat, T # {}
  PROVE  \E x \in T : \A y \in T : x <= y
<1> DEFINE R == {p \in Nat \X Nat : p[1] < p[2]}
<1>1. IsWellFoundedOn(R, Nat)
  BY NatLessThanWellFounded DEF OpToRel
<1>2. \E x \in T : \A y \in T : ~ (<<y, x>> \in R)
  <2> HIDE DEF R
  <2> QED BY <1>1, WFMin
<1>3. PICK x \in T : \A y \in T : ~ (<<y, x>> \in R)
  BY <1>2
<1>4. \A y \in T : ~(y < x)
  BY <1>3
<1> HIDE DEF R
<1>5. \A y \in T : x <= y
  BY <1>4, x \in Nat
<1> QED BY <1>5

(* What holds of the first place, and of the next one with each, holds of all *)
(* places: T is the set of those of which it holds.                           *)
LEMMA AllPlaces ==
  ASSUME NEW n \in Nat, NEW T, 0 \in T, \A i \in 0..n : i \in T /\ i + 1 \in 0..n => i + 1 \in T
  PROVE  \A i \in 0..n : i \in T
<1> DEFINE U == {i \in 0..n : i \notin T}
<1>1. SUFFICES ASSUME U # {}
               PROVE  FALSE
  OBVIOUS
<1>2. U \subseteq Nat
  OBVIOUS
<1>3. PICK x \in U : \A y \in U : x <= y
  <2> HIDE DEF U
  <2> QED BY <1>1, <1>2, LeastNatural
<1>4. x \in 0..n /\ x \notin T /\ x # 0
  OBVIOUS
<1>5. x - 1 \in 0..n /\ ~(x <= x - 1) /\ (x - 1) + 1 = x
  BY <1>4
<1>6. x - 1 \notin U
  <2> HIDE DEF U
  <2> QED BY <1>3, <1>5
<1> QED BY <1>4, <1>5, <1>6

LEMMA RowsAre == Rows = {s \in Seq(Entry) : Len(s) <= Cardinality(Entry)}
<1>1. Cardinality(Entry) \in Nat
  BY FS_CardinalityType, HashAssumption
<1>2. ASSUME NEW s \in Rows
      PROVE  s \in Seq(Entry) /\ Len(s) <= Cardinality(Entry)
  <2>1. PICK n \in 0..Cardinality(Entry) : s \in [1..n -> Entry]
    BY DEF Rows
  <2>2. s \in Seq(Entry) /\ Len(s) = n
    BY <1>1, <2>1
  <2> QED BY <1>1, <2>1, <2>2
<1>3. ASSUME NEW s \in Seq(Entry), Len(s) <= Cardinality(Entry)
      PROVE  s \in Rows
  BY <1>1, <1>3 DEF Rows
<1> QED BY <1>2, <1>3

(* A sequence that holds no entry twice is no longer than a list can be.     *)
LEMMA Short ==
  ASSUME NEW s \in Seq(Entry), \A i, j \in DOMAIN s : s[i] = s[j] => i = j
  PROVE  s \in Rows
<1>1. s \in Injection(1..Len(s), Entry)
  BY DEF Injection, IsInjective
<1>2. Cardinality(1..Len(s)) <= Cardinality(Entry)
  BY <1>1, FS_Injection, HashAssumption
<1>3. Cardinality(1..Len(s)) = Len(s)
  <2>1. PICK n \in Nat : n = Len(s)
    OBVIOUS
  <2>2. Cardinality(1..n) = IF 1 > n THEN 0 ELSE n - 1 + 1
    BY FS_Interval
  <2> QED BY <2>1, <2>2
<1> QED BY <1>2, <1>3, RowsAre

(* From a head there is one list at most.                                    *)
LEMMA OneList ==
  ASSUME NEW f, NEW b \in Bucket, NEW s \in Seq(Entry), NEW u \in Seq(Entry),
         IsList(b, s, f), IsList(b, u, f)
  PROVE  s = u
<1> DEFINE T == {i \in 0..Len(s) : i <= Len(u) /\ Place(b, s, i) = Place(b, u, i)}
<1>0. /\ \A i \in 1..Len(s) : Place(b, s, i) = s[i] /\ s[i] \in Entry /\ s[i] # b
      /\ \A i \in 1..Len(u) : Place(b, u, i) = u[i] /\ u[i] \in Entry /\ u[i] # b
      /\ Place(b, s, 0) = b /\ Place(b, u, 0) = b
      /\ Place(b, s, Len(s) + 1) = b /\ Place(b, u, Len(u) + 1) = b
  BY HashAssumption DEF Place
<1>1. 0 \in T
  BY <1>0
<1>2. ASSUME NEW i \in 0..Len(s), i \in T, i + 1 \in 0..Len(s)
      PROVE  i + 1 \in T
  <2>1. Place(b, s, i + 1) = Place(b, u, i + 1)
    BY <1>2 DEF IsList
  <2>2. i + 1 \in 1..Len(s)
    BY <1>2
  <2>3. i # Len(u)
    BY <1>0, <2>1, <2>2
  <2> QED BY <1>2, <2>1, <2>3
<1>3. \A i \in 0..Len(s) : i \in T
  <2>1. Len(s) \in Nat
    OBVIOUS
  <2> HIDE DEF T
  <2> QED BY <1>1, <1>2, <2>1, AllPlaces
<1>4. Len(s) <= Len(u) /\ \A i \in 1..Len(s) : s[i] = u[i]
  BY <1>0, <1>3
<1>5. Place(b, s, Len(s) + 1) = Place(b, u, Len(s) + 1)
  <2>1. Len(s) \in T
    BY <1>3
  <2> QED BY <2>1 DEF IsList
<1>6. Len(s) = Len(u)
  BY <1>0, <1>4, <1>5
<1> QED BY <1>4, <1>6

LEMMA ChainIs ==
  ASSUME NEW f, NEW b \in Bucket, NEW s \in Seq(Entry), IsList(b, s, f)
  PROVE  Chain(b, f) = s
<1>1. s \in Rows
  BY Short DEF IsList
<1>2. Chain(b, f) \in Rows /\ IsList(b, Chain(b, f), f)
  BY <1>1 DEF Chain
<1> QED BY <1>2, OneList, RowsAre

LEMMA RowElements ==
  ASSUME NEW r, NEW s, NEW W, IsRow(r, s, W)
  PROVE  /\ \A i \in DOMAIN r : r[i] \in W /\ \E m \in DOMAIN s : r[i] = s[m]
         /\ \A m \in DOMAIN s : s[m] \in W => \E i \in DOMAIN r : r[i] = s[m]
<1>1. {r[i] : i \in DOMAIN r} = {s[i] : i \in DOMAIN s} \cap W
  BY DEF IsRow
<1> QED BY <1>1

(* Of a list there is one row at most with what is wanted.                   *)
LEMMA RowIs ==
  ASSUME NEW s \in Seq(Entry), \A i, j \in DOMAIN s : s[i] = s[j] => i = j, NEW W,
         NEW r \in Seq(Entry), IsRow(r, s, W)
  PROVE  RowOf(s, W) = r
<1>1. ASSUME NEW q \in Seq(Entry), IsRow(q, s, W)
      PROVE  \A i, j \in DOMAIN q : q[i] = q[j] => i = j
  BY <1>1 DEF IsRow
<1>2. ASSUME NEW q \in Seq(Entry), IsRow(q, s, W), NEW p \in Seq(Entry), IsRow(p, s, W)
      PROVE  \A i \in 1..Len(q) : i <= Len(p) /\ q[i] = p[i]
  <2> DEFINE T == {i \in 0..Len(q) : \A j \in 1..i : j <= Len(p) /\ q[j] = p[j]}
  <2>1. 0 \in T
    OBVIOUS
  <2>2. ASSUME NEW i \in 0..Len(q), i \in T, i + 1 \in 0..Len(q)
        PROVE  i + 1 \in T
    <3>0. i + 1 \in DOMAIN q
      BY <2>2
    <3>1. PICK m \in DOMAIN p : q[i + 1] = p[m]
      BY <1>2, <3>0, RowElements
    <3>2. i < m
      BY <1>1, <1>2, <2>2, <3>1
    <3>3. i + 1 \in DOMAIN p
      BY <2>2, <3>1, <3>2
    <3>4. PICK n \in DOMAIN q : p[i + 1] = q[n]
      BY <1>2, <3>3, RowElements
    <3>5. i < n
      BY <1>1, <1>2, <2>2, <3>3, <3>4
    <3>6. q[i + 1] = p[i + 1]
      <4>1. SUFFICES ASSUME i + 1 < m, i + 1 < n
                     PROVE  FALSE
        BY <2>2, <3>1, <3>2, <3>4, <3>5
      <4>2. PICK a, c \in DOMAIN s : a < c /\ p[i + 1] = s[a] /\ p[m] = s[c]
        BY <1>2, <3>1, <3>3, <4>1 DEF IsRow
      <4>3. PICK d, e \in DOMAIN s : d < e /\ q[i + 1] = s[d] /\ q[n] = s[e]
        BY <1>2, <3>0, <3>4, <4>1 DEF IsRow
      <4>4. d = c /\ e = a
        BY <3>1, <3>4, <4>2, <4>3
      <4> QED BY <4>2, <4>3, <4>4
    <3> QED BY <2>2, <3>3, <3>6
  <2>3. \A i \in 0..Len(q) : i \in T
    <3>1. Len(q) \in Nat
      OBVIOUS
    <3> HIDE DEF T
    <3> QED BY <2>1, <2>2, <3>1, AllPlaces
  <2> QED BY <2>3
<1>3. r \in Rows
  BY <1>1, Short
<1>4. PICK p : p = RowOf(s, W)
  OBVIOUS
<1>5. p \in Rows /\ IsRow(p, s, W)
  BY <1>3, <1>4 DEF RowOf
<1>6. p \in Seq(Entry)
  BY <1>5, RowsAre
<1>7. Len(p) <= Len(r) /\ Len(r) <= Len(p) /\ \A i \in 1..Len(p) : p[i] = r[i]
  BY <1>2, <1>5, <1>6
<1>8. p = r
  BY <1>6, <1>7
<1> QED BY <1>4, <1>8

-----------------------------------------------------------------------------
(* What an insertion and a deletion do to a list and its rows.               *)

(* Only the links of the head and of the list's entries matter.              *)
LEMMA SameList ==
  ASSUME NEW f, NEW g, NEW b, NEW s \in Seq(Entry), IsList(b, s, f),
         g[b] = f[b], \A i \in DOMAIN s : g[s[i]] = f[s[i]]
  PROVE  IsList(b, s, g)
BY DEF IsList, Place

LEMMA Pushed ==
  ASSUME NEW e \in Entry, NEW s \in Seq(Entry), NEW u, u = <<e>> \o s
  PROVE  /\ u \in Seq(Entry) /\ Len(u) = Len(s) + 1 /\ u[1] = e
         /\ \A i \in DOMAIN s : u[i + 1] = s[i]
         /\ \A i \in DOMAIN u : i = 1 \/ (i - 1 \in DOMAIN s /\ u[i] = s[i - 1])
OBVIOUS

LEMMA ListPushed ==
  ASSUME NEW f, NEW g, NEW b \in Bucket, NEW s \in Seq(Entry), IsList(b, s, f),
         NEW e \in Entry, \A i \in DOMAIN s : s[i] # e,
         NEW u, u = <<e>> \o s,
         g[b] = e, g[e] = f[b], \A i \in DOMAIN s : g[s[i]] = f[s[i]]
  PROVE  IsList(b, u, g)
<1>1. /\ u \in Seq(Entry) /\ Len(u) = Len(s) + 1 /\ u[1] = e
      /\ \A i \in DOMAIN s : u[i + 1] = s[i]
      /\ \A i \in DOMAIN u : i = 1 \/ (i - 1 \in DOMAIN s /\ u[i] = s[i - 1])
  BY Pushed
<1>2. \A i, j \in DOMAIN u : u[i] = u[j] => i = j
  BY <1>1 DEF IsList
<1>3. \A i \in 1..Len(s) + 1 : Place(b, u, i + 1) = Place(b, s, i)
  BY <1>1 DEF Place
<1>4. \A i \in 1..Len(s) : f[s[i]] = Place(b, s, i + 1)
  BY DEF IsList, Place
<1>5. f[b] = Place(b, s, 1)
  <2>1. Place(b, s, 0) = b /\ 0 \in 0..Len(s) /\ 0 + 1 = 1
    BY DEF Place
  <2> QED BY <2>1 DEF IsList
<1>6. Place(b, u, 0) = b /\ Place(b, u, 1) = e
  BY <1>1 DEF Place
<1>7. ASSUME NEW i \in 0..Len(u)
      PROVE  g[Place(b, u, i)] = Place(b, u, i + 1)
  <2>1. CASE i = 0
    BY <1>6, <2>1
  <2>2. CASE i = 1
    BY <1>3, <1>5, <1>6, <2>2
  <2>3. CASE i > 1
    <3>1. i - 1 \in 1..Len(s) /\ u[i] = s[i - 1] /\ Place(b, u, i) = s[i - 1] /\ (i - 1) + 1 = i
      BY <1>1, <2>3 DEF Place
    <3>2. Place(b, u, i + 1) = Place(b, s, i)
      BY <1>1, <1>3, <2>3
    <3> QED BY <1>4, <3>1, <3>2
  <2> QED BY <2>1, <2>2, <2>3
<1> QED BY <1>2, <1>7 DEF IsList

(* The list without its d-th entry. *)
Without(s, d) == [i \in 1..(Len(s) - 1) |-> IF i < d THEN s[i] ELSE s[i + 1]]

LEMMA WithoutIs ==
  ASSUME NEW s \in Seq(Entry), NEW d \in 1..Len(s), NEW u, u = Without(s, d)
  PROVE  /\ u \in Seq(Entry) /\ Len(u) = Len(s) - 1
         /\ \A i \in DOMAIN u : u[i] = IF i < d THEN s[i] ELSE s[i + 1]
<1>1. Len(s) - 1 \in Nat
  OBVIOUS
<1>2. u \in [1..(Len(s) - 1) -> Entry]
  BY DEF Without
<1>3. u \in Seq(Entry) /\ Len(u) = Len(s) - 1
  BY <1>1, <1>2
<1> QED BY <1>3 DEF Without

LEMMA ListWithout ==
  ASSUME NEW f, NEW g, NEW b \in Bucket, NEW s \in Seq(Entry), IsList(b, s, f),
         NEW d \in 1..Len(s), NEW u, u = Without(s, d),
         NEW p, p = Place(b, s, d - 1), g[p] = f[s[d]],
         \A i \in 0..Len(s) : i # d - 1 => g[Place(b, s, i)] = f[Place(b, s, i)]
  PROVE  IsList(b, u, g)
<1>1. /\ u \in Seq(Entry) /\ Len(u) = Len(s) - 1
      /\ \A i \in DOMAIN u : u[i] = IF i < d THEN s[i] ELSE s[i + 1]
  BY WithoutIs
<1>2. ASSUME NEW i \in DOMAIN u, NEW j \in DOMAIN u, u[i] = u[j]
      PROVE  i = j
  <2>1. PICK k \in DOMAIN s : u[i] = s[k] /\ k = IF i < d THEN i ELSE i + 1
    BY <1>1
  <2>2. PICK l \in DOMAIN s : u[j] = s[l] /\ l = IF j < d THEN j ELSE j + 1
    BY <1>1
  <2>3. k = l
    BY <1>2, <2>1, <2>2 DEF IsList
  <2> QED BY <1>1, <2>1, <2>2, <2>3
<1>3. \A i \in 0..Len(s) : Place(b, u, i) = IF i < d THEN Place(b, s, i) ELSE Place(b, s, i + 1)
  BY <1>1 DEF Place
<1>4. \A i \in 0..Len(s) : f[Place(b, s, i)] = Place(b, s, i + 1)
  BY DEF IsList
<1>5. s[d] = Place(b, s, d)
  BY DEF Place
<1>6. ASSUME NEW i \in 0..Len(u)
      PROVE  g[Place(b, u, i)] = Place(b, u, i + 1)
  <2>1. CASE i + 1 < d
    <3>1. Place(b, u, i) = Place(b, s, i) /\ Place(b, u, i + 1) = Place(b, s, i + 1)
      BY <1>1, <1>3, <2>1
    <3> QED BY <1>1, <1>4, <2>1, <3>1
  <2>2. CASE i + 1 = d
    <3>1. Place(b, u, i) = p /\ Place(b, u, i + 1) = Place(b, s, d + 1)
      BY <1>1, <1>3, <2>2
    <3>2. f[Place(b, s, d)] = Place(b, s, d + 1)
      BY <1>4
    <3> QED BY <1>5, <3>1, <3>2
  <2>3. CASE i + 1 > d
    <3>1. i + 1 \in 0..Len(s) /\ i + 1 # d - 1 /\ ~(i < d) /\ ~(i + 1 < d) /\ i \in 0..Len(s)
      BY <1>1, <2>3
    <3>2. Place(b, u, i) = Place(b, s, i + 1) /\ Place(b, u, i + 1) = Place(b, s, (i + 1) + 1)
      BY <1>3, <3>1
    <3> QED BY <1>4, <3>1, <3>2
  <2> QED BY <1>1, <2>1, <2>2, <2>3
<1> QED BY <1>2, <1>6 DEF IsList

LEMMA RowFrom ==
  ASSUME NEW r, NEW s, NEW W,
         \A i \in DOMAIN r : r[i] \in W /\ \E m \in DOMAIN s : r[i] = s[m],
         \A m \in DOMAIN s : s[m] \in W => \E i \in DOMAIN r : r[i] = s[m],
         \A i, j \in DOMAIN r : i < j => \E a, b \in DOMAIN s : a < b /\ r[i] = s[a] /\ r[j] = s[b]
  PROVE  IsRow(r, s, W)
<1>1. {r[i] : i \in DOMAIN r} = {s[i] : i \in DOMAIN s} \cap W
  OBVIOUS
<1> QED BY <1>1 DEF IsRow

(* A row of a list keeps its order in a list that has all the row's entries   *)
(* in the same order.                                                         *)
LEMMA RowMoved ==
  ASSUME NEW r, NEW s, NEW W, IsRow(r, s, W), NEW u, NEW X,
         NEW D, D \subseteq DOMAIN s, \A m \in DOMAIN s : s[m] \in W => m \in D,
         NEW h \in [D -> DOMAIN u], \A m \in D : u[h[m]] = s[m],
         \A m, n \in D : m < n => h[m] < h[n],
         \A m \in D : s[m] \in W <=> s[m] \in X,
         \A m \in DOMAIN u : u[m] \in X => \E n \in D : u[m] = s[n]
  PROVE  IsRow(r, u, X)
<1>1. \A i \in DOMAIN r : r[i] \in W /\ \E m \in DOMAIN s : r[i] = s[m]
  BY RowElements
<1>2. \A m \in DOMAIN s : s[m] \in W => \E i \in DOMAIN r : r[i] = s[m]
  BY RowElements
<1>3. \A i \in DOMAIN r : r[i] \in X /\ \E m \in DOMAIN u : r[i] = u[m]
  BY <1>1
<1>4. \A m \in DOMAIN u : u[m] \in X => \E i \in DOMAIN r : r[i] = u[m]
  BY <1>2
<1>5. ASSUME NEW i \in DOMAIN r, NEW j \in DOMAIN r, i < j
      PROVE  \E a, b \in DOMAIN u : a < b /\ r[i] = u[a] /\ r[j] = u[b]
  <2>1. PICK a, b \in DOMAIN s : a < b /\ r[i] = s[a] /\ r[j] = s[b]
    BY <1>5 DEF IsRow
  <2>2. a \in D /\ b \in D
    BY <1>1, <2>1
  <2>3. h[a] < h[b] /\ h[a] \in DOMAIN u /\ h[b] \in DOMAIN u /\ r[i] = u[h[a]] /\ r[j] = u[h[b]]
    BY <2>1, <2>2
  <2> QED BY <2>3
<1> QED BY <1>3, <1>4, <1>5, RowFrom

LEMMA RowSame ==
  ASSUME NEW s \in Seq(Entry), NEW r, NEW W, IsRow(r, s, W), NEW X,
         \A m \in DOMAIN s : s[m] \in W <=> s[m] \in X
  PROVE  IsRow(r, s, X)
<1>1. \A i \in DOMAIN r : r[i] \in W /\ \E m \in DOMAIN s : r[i] = s[m]
  BY RowElements
<1>2. \A m \in DOMAIN s : s[m] \in W => \E i \in DOMAIN r : r[i] = s[m]
  BY RowElements
<1>3. \A i, j \in DOMAIN r : i < j => \E a, b \in DOMAIN s : a < b /\ r[i] = s[a] /\ r[j] = s[b]
  BY DEF IsRow
<1>4. \A i \in DOMAIN r : r[i] \in X /\ \E m \in DOMAIN s : r[i] = s[m]
  BY <1>1
<1>5. \A m \in DOMAIN s : s[m] \in X => \E i \in DOMAIN r : r[i] = s[m]
  BY <1>2
<1> QED BY <1>3, <1>4, <1>5, RowFrom

(* An entry that is not wanted, in front. *)
LEMMA RowPassed ==
  ASSUME NEW s \in Seq(Entry), NEW e \in Entry, NEW u, u = <<e>> \o s,
         NEW r, NEW W, IsRow(r, s, W), e \notin W
  PROVE  IsRow(r, u, W)
<1>1. /\ u \in Seq(Entry) /\ Len(u) = Len(s) + 1 /\ u[1] = e
      /\ \A i \in DOMAIN s : u[i + 1] = s[i]
      /\ \A i \in DOMAIN u : i = 1 \/ (i - 1 \in DOMAIN s /\ u[i] = s[i - 1])
  BY Pushed
<1>0. PICK D : D = DOMAIN s
  OBVIOUS
<1>2. PICK h \in [D -> DOMAIN u] : \A i \in D : h[i] = i + 1
  <2>1. [i \in D |-> i + 1] \in [D -> DOMAIN u]
    BY <1>0, <1>1
  <2> QED BY <2>1
<1>3. \A m, n \in D : m < n => h[m] < h[n]
  BY <1>0, <1>2
<1>4. \A m \in D : u[h[m]] = s[m]
  BY <1>0, <1>1, <1>2
<1>5. \A m \in DOMAIN u : u[m] \in W => \E n \in D : u[m] = s[n]
  BY <1>0, <1>1
<1>6. D \subseteq DOMAIN s /\ (\A m \in DOMAIN s : s[m] \in W => m \in D)
  BY <1>0
<1>7. \A m \in D : s[m] \in W <=> s[m] \in W
  OBVIOUS
<1> HIDE <1>0, <1>1
<1> QED BY ONLY IsRow(r, s, W), <1>2, <1>3, <1>4, <1>5, <1>6, <1>7, RowMoved

(* An entry that is wanted, in front. *)
LEMMA RowPushed ==
  ASSUME NEW s \in Seq(Entry), NEW e \in Entry, NEW u, u = <<e>> \o s,
         NEW r \in Seq(Entry), NEW W, IsRow(r, s, W), e \in W, NEW q, q = <<e>> \o r
  PROVE  IsRow(q, u, W)
<1>1. /\ u \in Seq(Entry) /\ Len(u) = Len(s) + 1 /\ u[1] = e
      /\ \A i \in DOMAIN s : u[i + 1] = s[i]
      /\ \A i \in DOMAIN u : i = 1 \/ (i - 1 \in DOMAIN s /\ u[i] = s[i - 1])
  BY Pushed
<1>2. /\ q \in Seq(Entry) /\ Len(q) = Len(r) + 1 /\ q[1] = e
      /\ \A i \in DOMAIN r : q[i + 1] = r[i]
      /\ \A i \in DOMAIN q : i = 1 \/ (i - 1 \in DOMAIN r /\ q[i] = r[i - 1])
  BY Pushed
<1>3. \A i \in DOMAIN r : r[i] \in W /\ \E m \in DOMAIN s : r[i] = s[m]
  BY RowElements
<1>4. \A m \in DOMAIN s : s[m] \in W => \E i \in DOMAIN r : r[i] = s[m]
  BY RowElements
<1>5. ASSUME NEW i \in DOMAIN q
      PROVE  q[i] \in W /\ \E m \in DOMAIN u : q[i] = u[m]
  <2>1. CASE i = 1
    <3>1. 1 \in DOMAIN u
      BY <1>1
    <3> QED BY <1>1, <1>2, <2>1, <3>1
  <2>2. CASE i # 1
    <3>1. PICK m \in DOMAIN s : q[i] = s[m] /\ q[i] \in W
      BY <1>2, <1>3, <2>2
    <3>2. m + 1 \in DOMAIN u
      BY <1>1
    <3> QED BY <1>1, <3>1, <3>2
  <2> QED BY <2>1, <2>2
<1>6. ASSUME NEW m \in DOMAIN u, u[m] \in W
      PROVE  \E i \in DOMAIN q : q[i] = u[m]
  <2>1. CASE m = 1
    <3>1. 1 \in DOMAIN q
      BY <1>2
    <3> QED BY <1>1, <1>2, <2>1, <3>1
  <2>2. CASE m # 1
    <3>1. PICK i \in DOMAIN r : r[i] = u[m]
      BY <1>1, <1>4, <1>6, <2>2
    <3>2. i + 1 \in DOMAIN q
      BY <1>2
    <3> QED BY <1>2, <3>1, <3>2
  <2> QED BY <2>1, <2>2
<1>7. ASSUME NEW i \in DOMAIN q, NEW j \in DOMAIN q, i < j
      PROVE  \E a, b \in DOMAIN u : a < b /\ q[i] = u[a] /\ q[j] = u[b]
  <2>1. j - 1 \in DOMAIN r /\ q[j] = r[j - 1]
    BY <1>2, <1>7
  <2>2. CASE i = 1
    <3>1. PICK m \in DOMAIN s : q[j] = s[m]
      BY <1>3, <2>1
    <3>2. 1 \in DOMAIN u /\ m + 1 \in DOMAIN u /\ 1 < m + 1
      BY <1>1
    <3> QED BY <1>1, <1>2, <2>2, <3>1, <3>2
  <2>3. CASE i # 1
    <3>1. i - 1 \in DOMAIN r /\ q[i] = r[i - 1] /\ i - 1 < j - 1
      BY <1>2, <1>7, <2>3
    <3>2. PICK a, b \in DOMAIN s : a < b /\ r[i - 1] = s[a] /\ r[j - 1] = s[b]
      BY <2>1, <3>1 DEF IsRow
    <3>3. a + 1 \in DOMAIN u /\ b + 1 \in DOMAIN u /\ a + 1 < b + 1
      BY <1>1, <3>2
    <3> QED BY <1>1, <2>1, <3>1, <3>2, <3>3
  <2> QED BY <2>2, <2>3
<1> QED BY ONLY <1>5, <1>6, <1>7, RowFrom

(* An entry that is not wanted, taken out. *)
LEMMA RowAround ==
  ASSUME NEW s \in Seq(Entry), NEW d \in 1..Len(s), NEW u, u = Without(s, d),
         NEW r, NEW W, IsRow(r, s, W), s[d] \notin W
  PROVE  IsRow(r, u, W)
<1>1. /\ u \in Seq(Entry) /\ Len(u) = Len(s) - 1
      /\ \A i \in DOMAIN u : u[i] = IF i < d THEN s[i] ELSE s[i + 1]
  BY WithoutIs
<1>2. PICK D : D = DOMAIN s \ {d}
  OBVIOUS
<1>3. PICK h \in [D -> DOMAIN u] : \A i \in D : h[i] = IF i < d THEN i ELSE i - 1
  <2>1. [i \in D |-> IF i < d THEN i ELSE i - 1] \in [D -> DOMAIN u]
    BY <1>1, <1>2
  <2> QED BY <2>1
<1>4. \A m, n \in D : m < n => h[m] < h[n]
  BY <1>2, <1>3
<1>5. \A m \in D : u[h[m]] = s[m]
  BY <1>1, <1>2, <1>3
<1>6. ASSUME NEW m \in DOMAIN u
      PROVE  \E n \in D : u[m] = s[n]
  <2>1. CASE m < d
    <3>1. m \in D
      BY <1>1, <1>2, <2>1
    <3> QED BY <1>1, <2>1, <3>1
  <2>2. CASE ~(m < d)
    <3>1. m + 1 \in D
      BY <1>1, <1>2, <2>2
    <3> QED BY <1>1, <2>2, <3>1
  <2> QED BY <2>1, <2>2
<1>7. D \subseteq DOMAIN s /\ \A m \in DOMAIN s : s[m] \in W => m \in D
  BY <1>2
<1>8. \A m \in DOMAIN u : u[m] \in W => \E n \in D : u[m] = s[n]
  BY <1>6
<1>9. \A m \in D : s[m] \in W <=> s[m] \in W
  OBVIOUS
<1> QED BY ONLY IsRow(r, s, W), <1>3, <1>4, <1>5, <1>7, <1>8, <1>9, RowMoved

(* The first entry that is wanted is the row's first. *)
LEMMA RowHead ==
  ASSUME NEW s \in Seq(Entry), \A i, j \in DOMAIN s : s[i] = s[j] => i = j,
         NEW r \in Seq(Entry), NEW W, IsRow(r, s, W),
         NEW d \in DOMAIN s, s[d] \in W, \A i \in DOMAIN s : i < d => s[i] \notin W
  PROVE  r # <<>> /\ Head(r) = s[d] /\ 1 \in DOMAIN r
<1>1. PICK m \in DOMAIN r : r[m] = s[d]
  BY RowElements
<1>2. 1 \in DOMAIN r /\ r # <<>> /\ Head(r) = r[1]
  BY <1>1
<1>3. CASE m = 1
  BY <1>1, <1>2, <1>3
<1>4. CASE m # 1
  <2>1. PICK a, b \in DOMAIN s : a < b /\ r[1] = s[a] /\ r[m] = s[b]
    BY <1>1, <1>2, <1>4 DEF IsRow
  <2>2. b = d
    BY <1>1, <2>1
  <2>3. s[a] \in W
    BY <1>2, <2>1, RowElements
  <2> QED BY <2>1, <2>2, <2>3
<1> QED BY <1>2, <1>3, <1>4

(* And taken out, what is left is the row's rest. *)
LEMMA RowTail ==
  ASSUME NEW s \in Seq(Entry), \A i, j \in DOMAIN s : s[i] = s[j] => i = j,
         NEW d \in 1..Len(s), NEW u, u = Without(s, d),
         NEW r \in Seq(Entry), NEW W, IsRow(r, s, W), s[d] \in W,
         \A i \in DOMAIN s : i < d => s[i] \notin W
  PROVE  r # <<>> /\ Tail(r) \in Seq(Entry) /\ IsRow(Tail(r), u, W)
<1>0. r # <<>> /\ r[1] = s[d] /\ 1 \in DOMAIN r
  BY RowHead
<1>9. PICK q : q = Tail(r)
  OBVIOUS
<1>10. q \in Seq(Entry) /\ Len(q) = Len(r) - 1 /\ \A i \in 1..Len(q) : q[i] = r[i + 1]
  BY <1>0, <1>9
<1>1. /\ \A i \in DOMAIN q : i + 1 \in DOMAIN r /\ q[i] = r[i + 1]
      /\ \A i \in DOMAIN r : i # 1 => i - 1 \in DOMAIN q
  BY <1>10
<1>2. \A i \in DOMAIN r : r[i] \in W /\ \E m \in DOMAIN s : r[i] = s[m]
  BY RowElements
<1>3. \A i, j \in DOMAIN r : r[i] = r[j] => i = j
  BY DEF IsRow
<1>4. PICK X : X = W \ {s[d]}
  OBVIOUS
<1>5. IsRow(q, s, X)
  <2>1. ASSUME NEW i \in DOMAIN q
        PROVE  q[i] \in X /\ \E m \in DOMAIN s : q[i] = s[m]
    <3>1. i + 1 \in DOMAIN r /\ q[i] = r[i + 1] /\ i + 1 # 1
      BY <1>1, <1>10
    <3>2. q[i] # s[d]
      BY <1>0, <1>3, <3>1
    <3> QED BY <1>2, <1>4, <3>1, <3>2
  <2>2. ASSUME NEW m \in DOMAIN s, s[m] \in X
        PROVE  \E i \in DOMAIN q : q[i] = s[m]
    <3>1. PICK i \in DOMAIN r : r[i] = s[m]
      BY <1>4, <2>2, RowElements
    <3>2. i # 1
      BY <1>0, <1>4, <2>2, <3>1
    <3>3. i - 1 \in DOMAIN q /\ (i - 1) + 1 = i
      BY <1>1, <3>2
    <3> QED BY <1>1, <3>1, <3>3
  <2>3. ASSUME NEW i \in DOMAIN q, NEW j \in DOMAIN q, i < j
        PROVE  \E a, b \in DOMAIN s : a < b /\ q[i] = s[a] /\ q[j] = s[b]
    <3>1. i + 1 \in DOMAIN r /\ j + 1 \in DOMAIN r /\ i + 1 < j + 1 /\ q[i] = r[i + 1] /\ q[j] = r[j + 1]
      BY <1>1, <1>10, <2>3
    <3> QED BY <3>1 DEF IsRow
  <2> QED BY <2>1, <2>2, <2>3, RowFrom
<1>6. IsRow(q, u, X)
  BY <1>4, <1>5, RowAround
<1>11. /\ u \in Seq(Entry) /\ Len(u) = Len(s) - 1
       /\ \A i \in DOMAIN u : u[i] = IF i < d THEN s[i] ELSE s[i + 1]
  BY WithoutIs
<1>7. ASSUME NEW m \in DOMAIN u
      PROVE  u[m] # s[d]
  <2>1. PICK n \in DOMAIN s : u[m] = s[n] /\ n # d
    BY <1>11
  <2> QED BY <2>1
<1>8. IsRow(q, u, W)
  BY <1>4, <1>6, <1>7, <1>11, RowSame
<1> QED BY <1>0, <1>8, <1>9, <1>10

-----------------------------------------------------------------------------
(* The lists of the table.                                                   *)

ListAt(b) == Chain(b, next)
OfKey(k) == {e \in Entry : key[e] = k}

(* Every list can be walked to its end, and every key has its row. *)
Whole == \A b \in Bucket : ListAt(b) \in Seq(Entry) /\ IsList(b, ListAt(b), next)
Rowed == \A k \in Key : Row(k) \in Seq(Entry) /\ IsRow(Row(k), ListAt(Hash[k]), OfKey(k))

(* A walk stands on a list, all before it is of other keys, and so is what it *)
(* has found, until it is off the list.                                       *)
NoneBefore(s, i, k) == \A j \in DOMAIN s : j < i => key[s[j]] # k
ReachedOf(t) ==
  LET s == ListAt(HeadOf(t)) IN
  /\ At(t, "look") => \E i \in 1..(Len(s) + 1) :
       th[t].pos = Place(HeadOf(t), s, i) /\ NoneBefore(s, i, th[t].key)
  /\ th[t].at \in {"unlink", "skip"} => \E i \in DOMAIN s : th[t].ans = s[i] /\ NoneBefore(s, i, th[t].key)
Reached == \A t \in Thread : ReachedOf(t)

NoAnswer == \A t \in Thread : th[t].op = "insert" => th[t].ans = NoEntry

AtomInv == Whole /\ Rowed /\ Reached /\ NoAnswer

(* An entry of a list is what the node before it points to. *)
LEMMA PointedTo ==
  ASSUME NEW b \in Bucket, NEW s \in Seq(Entry), IsList(b, s, next), NEW i \in DOMAIN s
  PROVE  /\ i - 1 \in 0..Len(s) /\ s[i] \in Entry
         /\ Place(b, s, i - 1) \in Node \ {s[i]} /\ next[Place(b, s, i - 1)] = s[i]
<1>1. \A j \in DOMAIN s : Place(b, s, j) = s[j] /\ s[j] \in Entry /\ s[j] \in Node /\ s[j] # b
  BY HashAssumption DEF Place, Node
<1>2. Place(b, s, 0) = b /\ b \in Node
  BY DEF Place, Node
<1>3. i - 1 \in 0..Len(s) /\ (i - 1) + 1 = i
  OBVIOUS
<1>4. next[Place(b, s, i - 1)] = s[i]
  BY <1>1, <1>3 DEF IsList
<1>5. CASE i = 1
  BY <1>1, <1>2, <1>3, <1>4, <1>5
<1>6. CASE i # 1
  <2>1. i - 1 \in DOMAIN s /\ i - 1 # i
    BY <1>6
  <2>2. s[i - 1] # s[i]
    BY <2>1 DEF IsList
  <2> QED BY <1>1, <1>3, <1>4, <2>1, <2>2
<1> QED BY <1>5, <1>6

LEMMA OnList ==
  ASSUME IInv, NEW b \in Bucket, NEW s \in Seq(Entry), IsList(b, s, next)
  PROVE  /\ \A i \in DOMAIN s : s[i] \in Entry /\ Home(s[i]) = b /\ s[i] \notin Loose
         /\ \A i \in DOMAIN s : key[s[i]] \in Key /\ Hash[key[s[i]]] = b
         /\ \A k \in Key, i \in DOMAIN s : s[i] \in OfKey(k) <=> key[s[i]] = k
<1>0. Homes /\ Apart /\ next \in [Node -> Node]
  BY DEF IInv, TypeOK
<1> DEFINE T == {i \in 0..Len(s) : Home(Place(b, s, i)) = b}
<1>1. \A i \in DOMAIN s : Place(b, s, i) = s[i] /\ s[i] \in Entry /\ s[i] \in Node /\ s[i] # b
  BY HashAssumption DEF Place, Node
<1>2. Place(b, s, 0) = b /\ b \in Node /\ Home(b) = b
  BY DEF Place, Node, Home
<1>3. \A i \in 0..Len(s) : Place(b, s, i) \in Node /\ next[Place(b, s, i)] = Place(b, s, i + 1)
  BY <1>1, <1>2 DEF IsList
<1>4. 0 \in T
  BY <1>2
<1>5. \A i \in 0..Len(s) : i \in T /\ i + 1 \in 0..Len(s) => i + 1 \in T
  BY <1>0, <1>3 DEF Homes
<1>6. \A i \in 0..Len(s) : i \in T
  <2>1. Len(s) \in Nat
    OBVIOUS
  <2> HIDE DEF T
  <2> QED BY <1>4, <1>5, <2>1, AllPlaces
<1>7. ASSUME NEW i \in DOMAIN s
      PROVE  Home(s[i]) = b /\ s[i] \notin Loose
  <2>1. i \in T
    BY <1>6
  <2>2. Home(s[i]) = b
    BY <1>1, <2>1
  <2>3. Place(b, s, i - 1) \in Node \ {s[i]} /\ next[Place(b, s, i - 1)] = s[i]
    BY PointedTo
  <2> QED BY <1>0, <2>2, <2>3 DEF Apart
<1>8. \A i \in DOMAIN s : key[s[i]] \in Key /\ Hash[key[s[i]]] = b
  BY <1>1, <1>7, HashAssumption DEF Home
<1>9. \A k \in Key, i \in DOMAIN s : s[i] \in OfKey(k) <=> key[s[i]] = k
  BY <1>1 DEF OfKey
<1> QED BY <1>1, <1>7, <1>8, <1>9

(* A step that changes neither the links of a list nor its entries' keys      *)
(* leaves the list and its rows alone.                                        *)
LEMMA ListStays ==
  ASSUME IInv, Whole, NEW b \in Bucket, next'[b] = next[b],
         \A i \in DOMAIN ListAt(b) : next'[ListAt(b)[i]] = next[ListAt(b)[i]]
  PROVE  ListAt(b)' = ListAt(b) /\ IsList(b, ListAt(b), next')
<1>1. PICK s : s = ListAt(b)
  OBVIOUS
<1>2. s \in Seq(Entry) /\ IsList(b, s, next)
  BY <1>1 DEF Whole
<1>3. PICK g : g = next'
  OBVIOUS
<1>4. IsList(b, s, g)
  BY <1>1, <1>2, <1>3, SameList
<1>5. Chain(b, g) = s
  BY <1>2, <1>4, ChainIs
<1> QED BY <1>1, <1>3, <1>4, <1>5 DEF ListAt

LEMMA RowStays ==
  ASSUME IInv, Whole, Rowed, NEW k \in Key, ListAt(Hash[k])' = ListAt(Hash[k]),
         \A i \in DOMAIN ListAt(Hash[k]) : key'[ListAt(Hash[k])[i]] = key[ListAt(Hash[k])[i]]
  PROVE  Row(k)' = Row(k) /\ IsRow(Row(k), ListAt(Hash[k]), OfKey(k)')
<1>0. Hash[k] \in Bucket
  BY HashAssumption
<1>1. PICK s : s = ListAt(Hash[k])
  OBVIOUS
<1>2. s \in Seq(Entry) /\ IsList(Hash[k], s, next)
  BY <1>0, <1>1 DEF Whole
<1>3. PICK r : r = Row(k)
  OBVIOUS
<1>4. r \in Seq(Entry) /\ IsRow(r, s, OfKey(k))
  BY <1>1, <1>3 DEF Rowed
<1>5. PICK X : X = OfKey(k)'
  OBVIOUS
<1>6. \A i \in DOMAIN s : s[i] \in OfKey(k) <=> s[i] \in X
  BY <1>1, <1>2, <1>5 DEF OfKey
<1>7. PICK W : W = OfKey(k)
  OBVIOUS
<1>8. IsRow(r, s, X)
  BY <1>2, <1>4, <1>6, <1>7, RowSame
<1>9. RowOf(s, X) = r
  BY <1>2, <1>4, <1>8, RowIs DEF IsList
<1>10. Row(k)' = RowOf(s, X)
  BY <1>1, <1>5 DEF Row, OfKey, ListAt
<1> QED BY <1>1, <1>3, <1>5, <1>8, <1>9, <1>10

(* Lists and rows that are left alone are whole.                             *)
LEMMA AllStay ==
  ASSUME IInv, Whole, Rowed,
         \A b \in Bucket : /\ next'[b] = next[b]
                           /\ \A i \in DOMAIN ListAt(b) :
                                /\ next'[ListAt(b)[i]] = next[ListAt(b)[i]]
                                /\ key'[ListAt(b)[i]] = key[ListAt(b)[i]]
  PROVE  /\ Whole' /\ Rowed'
         /\ \A b \in Bucket : ListAt(b)' = ListAt(b)
         /\ \A k \in Key : Row(k)' = Row(k)
<1>1. ASSUME NEW b \in Bucket
      PROVE  ListAt(b)' = ListAt(b) /\ IsList(b, ListAt(b), next')
  BY ListStays
<1>2. ASSUME NEW k \in Key
      PROVE  Row(k)' = Row(k) /\ IsRow(Row(k), ListAt(Hash[k]), OfKey(k)')
  <2>1. Hash[k] \in Bucket
    BY HashAssumption
  <2>2. ListAt(Hash[k])' = ListAt(Hash[k])
    BY <1>1, <2>1
  <2> QED BY <2>1, <2>2, RowStays
<1>3. Whole'
  <2>1. ASSUME NEW b \in Bucket
        PROVE  ListAt(b)' \in Seq(Entry) /\ IsList(b, ListAt(b)', next')
    BY <1>1 DEF Whole
  <2> QED BY <2>1 DEF Whole
<1>4. Rowed'
  <2>1. ASSUME NEW k \in Key
        PROVE  Row(k)' \in Seq(Entry) /\ IsRow(Row(k)', ListAt(Hash[k])', OfKey(k)')
    <3>1. Hash[k] \in Bucket
      BY HashAssumption
    <3> QED BY <1>1, <1>2, <3>1 DEF Rowed
  <2> QED BY <2>1 DEF Rowed
<1> QED BY <1>1, <1>2, <1>3, <1>4

(* What another thread has reached, it has still if its list and the keys in *)
(* it are left alone.                                                        *)
LEMMA OthersReached ==
  ASSUME IInv, Whole, Reached, NEW t \in Thread, \A u \in Thread \ {t} : th'[u] = th[u],
         \A b \in Bucket : \A i \in DOMAIN ListAt(b) : key'[ListAt(b)[i]] = key[ListAt(b)[i]],
         \A u \in Thread \ {t} : th[u].at \in Critical => ListAt(HeadOf(u))' = ListAt(HeadOf(u))
  PROVE  \A u \in Thread \ {t} : ReachedOf(u)'
<1> SUFFICES ASSUME NEW u \in Thread \ {t}, th[u].at \in {"look", "unlink", "skip"}
             PROVE  ReachedOf(u)'
  BY DEF ReachedOf, At
<1>1. HeadOf(u) \in Bucket /\ th[u].at \in Critical
  BY HeadFacts DEF Critical
<1>2. th'[u] = th[u] /\ HeadOf(u)' = HeadOf(u) /\ ReachedOf(u)
  BY DEF HeadOf, Reached
<1>3. PICK s : s = ListAt(HeadOf(u))
  OBVIOUS
<1>4. ListAt(HeadOf(u))' = s /\ \A i \in DOMAIN s : key'[s[i]] = key[s[i]]
  BY <1>1, <1>3
<1>5. \A i, k : NoneBefore(s, i, k) => \A j \in DOMAIN s : j < i => key'[s[j]] # k
  BY <1>4 DEF NoneBefore
<1>6. th[u].at = "look" => \E i \in 1..(Len(s) + 1) :
        th[u].pos = Place(HeadOf(u), s, i) /\ \A j \in DOMAIN s : j < i => key'[s[j]] # th[u].key
  BY <1>2, <1>3, <1>5 DEF ReachedOf, At
<1>7. th[u].at \in {"unlink", "skip"} => \E i \in DOMAIN s :
        th[u].ans = s[i] /\ \A j \in DOMAIN s : j < i => key'[s[j]] # th[u].key
  BY <1>2, <1>3, <1>5 DEF ReachedOf, At
<1> QED BY <1>2, <1>4, <1>6, <1>7 DEF ReachedOf, NoneBefore, At

-----------------------------------------------------------------------------
(* The calls as the map sees them.                                           *)

(* One thread's call goes on. *)
LEMMA CallSeen ==
  ASSUME NEW t \in Thread, \A u \in Thread \ {t} : th'[u] = th[u]
  PROVE  /\ \A u \in Thread \ {t} : Seen(u)' = Seen(u)
         /\ [u \in Thread |-> Seen(u)]' = [[u \in Thread |-> Seen(u)] EXCEPT ![t] = Seen(t)']
<1>1. ASSUME NEW u \in Thread \ {t}
      PROVE  Seen(u)' = Seen(u)
  <2>1. th'[u] = th[u]
    OBVIOUS
  <2> QED BY <2>1 DEF Seen, Effective, At
<1>2. PICK x : x = Seen(t)'
  OBVIOUS
<1>3. [u \in Thread |-> Seen(u)]' = [u \in Thread |-> IF u = t THEN x ELSE Seen(u)]
  BY <1>1, <1>2
<1> QED BY <1>1, <1>2, <1>3

(* A step that the map does not see.                                         *)
LEMMA Unseen ==
  ASSUME NEW t \in Thread, \A u \in Thread \ {t} : th'[u] = th[u], Seen(t)' = Seen(t), free' = free,
         \A k \in Key : Row(k)' = Row(k)
  PROVE  UNCHANGED Map!vars
<1>1. [u \in Thread |-> Seen(u)]' = [u \in Thread |-> Seen(u)]
  BY CallSeen
<1>2. [k \in Key |-> Row(k)]' = [k \in Key |-> Row(k)]
  OBVIOUS
<1> QED BY <1>1, <1>2 DEF Map!vars

(* What a step needs that leaves the lists alone.                            *)
LEMMA KeepsAtom ==
  ASSUME IInv, AtomInv, NEW t \in Thread, \A u \in Thread \ {t} : th'[u] = th[u],
         \A b \in Bucket : /\ next'[b] = next[b]
                           /\ \A i \in DOMAIN ListAt(b) :
                                /\ next'[ListAt(b)[i]] = next[ListAt(b)[i]]
                                /\ key'[ListAt(b)[i]] = key[ListAt(b)[i]],
         ReachedOf(t)', th'[t].op = "insert" => th'[t].ans = NoEntry
  PROVE  /\ AtomInv'
         /\ \A k \in Key : Row(k)' = Row(k)
<1>0. Whole /\ Rowed /\ Reached /\ NoAnswer
  BY DEF AtomInv
<1>1. /\ Whole' /\ Rowed' /\ \A b \in Bucket : ListAt(b)' = ListAt(b)
      /\ \A k \in Key : Row(k)' = Row(k)
  BY <1>0, AllStay
<1>2. \A u \in Thread \ {t} : th[u].at \in Critical => ListAt(HeadOf(u))' = ListAt(HeadOf(u))
  <2>1. SUFFICES ASSUME NEW u \in Thread \ {t}, th[u].at \in Critical
                 PROVE  ListAt(HeadOf(u))' = ListAt(HeadOf(u))
    OBVIOUS
  <2>2. PICK b : b = HeadOf(u)
    OBVIOUS
  <2>3. b \in Bucket /\ HeadOf(u)' = b
    BY <2>1, <2>2, HeadFacts DEF HeadOf
  <2>4. ListAt(b)' = ListAt(b)
    BY <1>1, <2>3
  <2> QED BY <2>2, <2>3, <2>4 DEF ListAt
<1>3. \A u \in Thread \ {t} : ReachedOf(u)'
  BY <1>0, <1>2, OthersReached
<1>4. Reached'
  BY <1>3 DEF Reached
<1>5. NoAnswer'
  BY <1>0 DEF NoAnswer
<1> QED BY <1>1, <1>4, <1>5 DEF AtomInv

(* Where a thread goes on to when it does not write next.                    *)
LEMMA Moves ==
  ASSUME IInv, NEW t \in Thread
  PROVE  /\ HashCode(t) => /\ th'[t] = [th[t] EXCEPT !.at = th'[t].at]
                           /\ th[t].at = "hash" /\ th'[t].at \in {"lock", "hashed"}
         /\ Hashed(t) => th[t].at = "hashed" /\ th'[t] = [th[t] EXCEPT !.at = "lock"]
         /\ Lock(t) => /\ th'[t] = [th[t] EXCEPT !.at = th'[t].at]
                       /\ th[t].at = "lock" /\ th'[t].at \in {"add", "first"}
         /\ Unlock(t) => th[t].at = "unlock" /\ th'[t] = [th[t] EXCEPT !.at = "return"]
         /\ HashCode(t) \/ Hashed(t) \/ Lock(t) \/ Unlock(t) =>
              /\ \A u \in Thread \ {t} : th'[u] = th[u]
              /\ next' = next /\ key' = key /\ free' = free
<1>1. th \in [Thread -> ThreadRecord]
  BY TypeOKParts DEF IInv, Types
<1>2. th[t] \in ThreadRecord
  BY <1>1
<1>3. HashCode(t) => /\ th'[t] = [th[t] EXCEPT !.at = th'[t].at]
                     /\ th[t].at = "hash" /\ th'[t].at \in {"lock", "hashed"}
                     /\ \A u \in Thread \ {t} : th'[u] = th[u]
  BY <1>1, <1>2 DEF HashCode, Goes, At, ThreadRecord
<1>4. Hashed(t) => /\ th[t].at = "hashed" /\ th'[t] = [th[t] EXCEPT !.at = "lock"]
                   /\ \A u \in Thread \ {t} : th'[u] = th[u]
  BY <1>1, <1>2 DEF Hashed, Goes, At, ThreadRecord
<1>5. Lock(t) => /\ th'[t] = [th[t] EXCEPT !.at = th'[t].at]
                 /\ th[t].at = "lock" /\ th'[t].at \in {"add", "first"}
                 /\ \A u \in Thread \ {t} : th'[u] = th[u]
  BY <1>1, <1>2 DEF Lock, Goes, At, Inside, ThreadRecord
<1>6. Unlock(t) => /\ th[t].at = "unlock" /\ th'[t] = [th[t] EXCEPT !.at = "return"]
                   /\ \A u \in Thread \ {t} : th'[u] = th[u]
  BY <1>1, <1>2 DEF Unlock, Goes, At, ThreadRecord
<1>7. HashCode(t) \/ Hashed(t) \/ Lock(t) \/ Unlock(t) => next' = next /\ key' = key /\ free' = free
  BY DEF HashCode, Hashed, Lock, Unlock, list
<1> QED BY <1>3, <1>4, <1>5, <1>6, <1>7

LEMMA LockingUnseen ==
  ASSUME IInv, AtomInv, NEW t \in Thread, HashCode(t) \/ Hashed(t) \/ Lock(t) \/ Unlock(t)
  PROVE  AtomInv' /\ UNCHANGED Map!vars
<1>1. /\ \A u \in Thread \ {t} : th'[u] = th[u]
      /\ next' = next /\ key' = key /\ free' = free
  BY Moves
<1>2. th[t] \in ThreadRecord
  BY TypeOKParts DEF IInv, Types
<1>3. /\ th'[t].op = th[t].op /\ th'[t].key = th[t].key /\ th'[t].entry = th[t].entry
      /\ th'[t].ans = th[t].ans
      /\ \/ th[t].at \in {"hash", "hashed", "lock"} /\ th'[t].at \in {"lock", "hashed", "add", "first"}
         \/ th[t].at = "unlock" /\ th'[t].at = "return"
  BY <1>2, Moves DEF ThreadRecord
<1>4. ReachedOf(t)'
  BY <1>3 DEF ReachedOf, At
<1>5. th'[t].op = "insert" => th'[t].ans = NoEntry
  BY <1>3 DEF AtomInv, NoAnswer
<1>6. AtomInv' /\ \A k \in Key : Row(k)' = Row(k)
  BY <1>1, <1>4, <1>5, KeepsAtom
<1>7. Seen(t)' = Seen(t)
  BY <1>3 DEF Seen, Effective, At
<1> QED BY <1>1, <1>6, <1>7, Unseen

(* Nothing points any more to an entry that a thread is about to clear.       *)
LEMMA ClearedApart ==
  ASSUME IInv, NEW t \in Thread, th[t].at = "clear", NEW n \in Node \ {th[t].ans}
  PROVE  next[n] # th[t].ans
<1>1. /\ th[t].at \in Critical /\ HalfwayOf(t) /\ Homes
  BY DEF Critical, IInv, Halfway
<1>2. Home(th[t].ans) = HeadOf(t)
  BY DeleteFacts
<1>3. CASE Home(n) = HeadOf(t)
  <2>1. prev[next[n]] = n
    BY <1>1, <1>3, OwnLinks DEF NextBroken
  <2> QED BY <1>1, <2>1 DEF HalfwayOf, At
<1>4. CASE Home(n) # HeadOf(t)
  BY <1>1, <1>2, <1>4 DEF Homes
<1> QED BY <1>3, <1>4

LEMMA WalkStarts ==
  ASSUME IInv, AtomInv, NEW t \in Thread, First(t)
  PROVE  AtomInv' /\ UNCHANGED Map!vars
<1>1. th \in [Thread -> ThreadRecord] /\ th[t] \in ThreadRecord
  BY TypeOKParts DEF IInv, Types
<1>2. /\ th[t].at = "first" /\ th'[t].at = "look" /\ th'[t].pos = next[HeadOf(t)]
      /\ th'[t].op = th[t].op /\ th'[t].key = th[t].key /\ th'[t].entry = th[t].entry
      /\ th'[t].ans = th[t].ans
      /\ \A u \in Thread \ {t} : th'[u] = th[u]
      /\ next' = next /\ key' = key /\ free' = free
  BY <1>1 DEF First, Step, At, ThreadRecord, list
<1>3. HeadOf(t) \in Bucket
  BY <1>2, HeadFacts DEF Critical
<1>4. PICK s : s = ListAt(HeadOf(t))
  OBVIOUS
<1>5. s \in Seq(Entry) /\ IsList(HeadOf(t), s, next)
  BY <1>3, <1>4 DEF AtomInv, Whole
<1>6. next[HeadOf(t)] = Place(HeadOf(t), s, 1)
  <2>1. Place(HeadOf(t), s, 0) = HeadOf(t) /\ 0 \in 0..Len(s) /\ 0 + 1 = 1
    BY <1>5 DEF Place
  <2> QED BY <1>5, <2>1 DEF IsList
<1>7. ReachedOf(t)'
  <2>1. HeadOf(t)' = HeadOf(t) /\ ListAt(HeadOf(t))' = s
    BY <1>2, <1>4 DEF HeadOf, ListAt
  <2>2. 1 \in 1..(Len(s) + 1) /\ \A j \in DOMAIN s : ~(j < 1)
    BY <1>5
  <2> QED BY <1>2, <1>6, <2>1, <2>2 DEF ReachedOf, NoneBefore, At
<1>8. th'[t].op = "insert" => th'[t].ans = NoEntry
  BY <1>2 DEF AtomInv, NoAnswer
<1>9. AtomInv' /\ \A k \in Key : Row(k)' = Row(k)
  BY <1>2, <1>7, <1>8, KeepsAtom
<1>10. Seen(t)' = Seen(t)
  BY <1>2 DEF Seen, Effective, At
<1> QED BY <1>2, <1>9, <1>10, Unseen

(* The writes of an insertion and of a deletion that a walk would not notice. *)
LEMMA WritesUnseen ==
  ASSUME IInv, AtomInv, NEW t \in Thread, AddBack(t) \/ AddLink(t) \/ DelBack(t) \/ DelClear(t)
  PROVE  AtomInv' /\ UNCHANGED Map!vars
<1>0. /\ th \in [Thread -> ThreadRecord] /\ th[t] \in ThreadRecord
      /\ next \in [Node -> Node]
  BY TypeOKParts DEF IInv, Types
<1>1. /\ \A u \in Thread \ {t} : th'[u] = th[u]
      /\ key' = key /\ free' = free
      /\ th'[t].op = th[t].op /\ th'[t].key = th[t].key /\ th'[t].entry = th[t].entry
      /\ th'[t].ans = th[t].ans
  BY <1>0 DEF AddBack, AddLink, DelBack, DelClear, Step, At, ThreadRecord
<1>2. \/ th[t].at = "add" /\ th'[t].at = "link" /\ next' = next
      \/ th[t].at = "link" /\ th'[t].at = "publish" /\ next' = [next EXCEPT ![th[t].entry] = th[t].pos]
      \/ th[t].at = "unlink" /\ th'[t].at = "skip" /\ next' = next
      \/ th[t].at = "clear" /\ th'[t].at = "unlock" /\ next' = [next EXCEPT ![th[t].ans] = th[t].ans]
  BY <1>0 DEF AddBack, AddLink, DelBack, DelClear, Step, At, ThreadRecord
<1>3. ASSUME NEW b \in Bucket
      PROVE  /\ next'[b] = next[b]
             /\ \A i \in DOMAIN ListAt(b) :
                  /\ next'[ListAt(b)[i]] = next[ListAt(b)[i]]
                  /\ key'[ListAt(b)[i]] = key[ListAt(b)[i]]
  <2>1. PICK s : s = ListAt(b)
    OBVIOUS
  <2>2. s \in Seq(Entry) /\ IsList(b, s, next)
    BY <2>1 DEF AtomInv, Whole
  <2>3. b \notin Entry
    BY HashAssumption
  <2>4. \A i \in DOMAIN s : next'[s[i]] = next[s[i]]
    <3>1. CASE next' = next
      BY <3>1
    <3>2. CASE th[t].at = "link" /\ next' = [next EXCEPT ![th[t].entry] = th[t].pos]
      <4>1. \A i \in DOMAIN s : s[i] # th[t].entry
        BY <2>2, <3>2, OnList, InsertFacts
      <4> QED BY <1>0, <3>2, <4>1
    <3>3. CASE th[t].at = "clear" /\ next' = [next EXCEPT ![th[t].ans] = th[t].ans]
      <4>1. ASSUME NEW n \in Node \ {th[t].ans}
            PROVE  next[n] # th[t].ans
        BY <3>3, ClearedApart
      <4>2. \A i \in DOMAIN s : s[i] # th[t].ans
        BY <2>2, <4>1, PointedTo
      <4> QED BY <1>0, <3>3, <4>2
    <3> QED BY <1>2, <3>1, <3>2, <3>3
  <2>5. next'[b] = next[b]
    <3>0. b \in Node
      BY DEF Node
    <3>1. CASE next' = next
      BY <3>1
    <3>2. CASE th[t].at = "link" /\ next' = [next EXCEPT ![th[t].entry] = th[t].pos]
      <4>1. th[t].entry # b
        BY <2>3, <3>2, InsertFacts
      <4> QED BY <1>0, <3>0, <3>2, <4>1
    <3>3. CASE th[t].at = "clear" /\ next' = [next EXCEPT ![th[t].ans] = th[t].ans]
      <4>1. th[t].ans # b
        BY <2>3, <3>3, DeleteFacts
      <4> QED BY <1>0, <3>0, <3>3, <4>1
    <3> QED BY <1>2, <3>1, <3>2, <3>3
  <2> QED BY <1>1, <2>1, <2>4, <2>5
<1>4. ReachedOf(t)'
  <2>1. CASE th'[t].at # "skip"
    BY <1>2, <2>1 DEF ReachedOf, At
  <2>2. CASE th'[t].at = "skip"
    <3>1. th[t].at = "unlink" /\ next' = next /\ ReachedOf(t)
      BY <1>2, <2>2 DEF AtomInv, Reached
    <3>2. HeadOf(t)' = HeadOf(t) /\ ListAt(HeadOf(t))' = ListAt(HeadOf(t))
      BY <1>1, <3>1 DEF HeadOf, ListAt
    <3> QED BY <1>1, <2>2, <3>1, <3>2 DEF ReachedOf, NoneBefore, At
  <2> QED BY <2>1, <2>2
<1>5. th'[t].op = "insert" => th'[t].ans = NoEntry
  BY <1>1 DEF AtomInv, NoAnswer
<1>6. AtomInv' /\ \A k \in Key : Row(k)' = Row(k)
  BY <1>1, <1>3, <1>4, <1>5, KeepsAtom
<1>7. Seen(t)' = Seen(t)
  BY <1>1, <1>2 DEF Seen, Effective, At
<1> QED BY <1>1, <1>6, <1>7, Unseen

(* Records of calls, as the map changes them.                                *)
CallField == {"op", "key", "entry", "done", "ans"}
IsCall(x) == DOMAIN x = CallField /\ x = [i \in CallField |-> x[i]]

LEMMA RecordFields ==
  ASSUME NEW x, NEW o, NEW k, NEW e, NEW d, NEW a, x = [op |-> o, key |-> k, entry |-> e, done |-> d, ans |-> a]
  PROVE  IsCall(x) /\ x["op"] = o /\ x["key"] = k /\ x["entry"] = e /\ x["done"] = d /\ x["ans"] = a
BY DEF CallField, IsCall

LEMMA SameCall ==
  ASSUME NEW y, IsCall(y), NEW z, IsCall(z), \A i \in CallField : z[i] = y[i]
  PROVE  y = z
BY DEF IsCall

(* A call begins. *)
LEMMA InsertCalled ==
  ASSUME IInv, AtomInv, NEW t \in Thread, CallInsert(t)
  PROVE  AtomInv' /\ Map!CallInsert(t)
<1>0. /\ th \in [Thread -> ThreadRecord]
      /\ next \in [Node -> Node] /\ key \in [Entry -> Key \cup {NoKey}] /\ free \subseteq Entry
  BY TypeOKParts DEF IInv, Types
<1>1. PICK k \in Key, e \in free :
        /\ th' = [th EXCEPT ![t] = [Idle EXCEPT !.at = "hash", !.op = "insert", !.key = k, !.entry = e]]
        /\ next' = [next EXCEPT ![e] = e] /\ key' = [key EXCEPT ![e] = k] /\ free' = free \ {e}
  BY DEF CallInsert
<1>2. /\ th[t].at = "idle" /\ th'[t].at = "hash" /\ th'[t].op = "insert" /\ th'[t].key = k
      /\ th'[t].entry = e /\ th'[t].ans = NoEntry
      /\ \A u \in Thread \ {t} : th'[u] = th[u]
  BY <1>0, <1>1 DEF CallInsert, At, Idle
<1>3. ASSUME NEW b \in Bucket
      PROVE  /\ next'[b] = next[b]
             /\ \A i \in DOMAIN ListAt(b) :
                  /\ next'[ListAt(b)[i]] = next[ListAt(b)[i]]
                  /\ key'[ListAt(b)[i]] = key[ListAt(b)[i]]
  <2>1. PICK s : s = ListAt(b)
    OBVIOUS
  <2>2. s \in Seq(Entry) /\ IsList(b, s, next)
    BY <2>1 DEF AtomInv, Whole
  <2>3. b # e /\ b \in Node /\ e \in Loose
    BY <1>0, HashAssumption DEF Node, Loose
  <2>4. \A i \in DOMAIN s : s[i] # e /\ s[i] \in Entry /\ s[i] \in Node
    BY <2>2, <2>3, OnList DEF Node
  <2>5. \A i \in DOMAIN s : next'[s[i]] = next[s[i]] /\ key'[s[i]] = key[s[i]]
    BY <1>0, <1>1, <2>4
  <2>6. next'[b] = next[b]
    BY <1>0, <1>1, <2>3
  <2> QED BY <2>1, <2>5, <2>6
<1>4. ReachedOf(t)'
  BY <1>2 DEF ReachedOf, At
<1>5. AtomInv' /\ \A l \in Key : Row(l)' = Row(l)
  BY <1>2, <1>3, <1>4, KeepsAtom
<1>6. Seen(t) = Map!Idle
  BY <1>2 DEF Seen, At, Map!Idle
<1>7. Seen(t)' = [Map!Idle EXCEPT !.op = "insert", !.key = k, !.entry = e]
  <2>1. Effective(t)' = FALSE
    BY <1>2 DEF Effective
  <2>2. Seen(t)' = [op |-> "insert", key |-> k, entry |-> e, done |-> FALSE, ans |-> NoEntry]
    BY <1>2, <2>1 DEF Seen, At
  <2>3. Map!Idle = [op |-> "none", key |-> NoKey, entry |-> NoEntry, done |-> FALSE, ans |-> NoEntry]
    BY DEF Map!Idle
  <2>4. PICK x, y, d : x = Map!Idle /\ y = Seen(t)' /\ d = FALSE
    OBVIOUS
  <2>5. x = [op |-> "none", key |-> NoKey, entry |-> NoEntry, done |-> d, ans |-> NoEntry]
    BY <2>3, <2>4
  <2>6. y = [op |-> "insert", key |-> k, entry |-> e, done |-> d, ans |-> NoEntry]
    BY <2>2, <2>4
  <2>7. IsCall(x) /\ x["done"] = d /\ x["ans"] = NoEntry
    BY <2>5, RecordFields
  <2>8. /\ IsCall(y)
        /\ y["op"] = "insert" /\ y["key"] = k /\ y["entry"] = e /\ y["done"] = d /\ y["ans"] = NoEntry
    BY <2>6, RecordFields
  <2>9. y["done"] = x["done"] /\ y["ans"] = x["ans"]
    BY <2>7, <2>8
  <2>10. PICK z : z = [x EXCEPT !.op = "insert", !.key = k, !.entry = e]
    OBVIOUS
  <2>11. IsCall(z)
    BY <2>7, <2>10 DEF IsCall
  <2>12. \A i \in CallField : z[i] = y[i]
    BY <2>7, <2>8, <2>9, <2>10 DEF IsCall, CallField
  <2>13. y = z
    BY <2>8, <2>11, <2>12, SameCall
  <2> QED BY <2>4, <2>10, <2>13
<1>8. Map!Call(t, "insert", k, e)
  <2>1. [l \in Key |-> Row(l)]' = [l \in Key |-> Row(l)]
    BY <1>5
  <2>2. [u \in Thread |-> Seen(u)]' = [[u \in Thread |-> Seen(u)] EXCEPT ![t] = Seen(t)']
    BY <1>2, CallSeen
  <2> QED BY <1>1, <1>6, <1>7, <2>1, <2>2 DEF Map!Call
<1> QED BY <1>5, <1>8 DEF Map!CallInsert

LEMMA OtherCalled ==
  ASSUME IInv, AtomInv, NEW t \in Thread, CallOther(t)
  PROVE  AtomInv' /\ Map!CallOther(t)
<1>0. th \in [Thread -> ThreadRecord] /\ free \subseteq Entry
  BY TypeOKParts DEF IInv, Types
<1>1. PICK k \in Key, op \in {"lookup", "del"} :
        th' = [th EXCEPT ![t] = [Idle EXCEPT !.at = "hash", !.op = op, !.key = k]]
  BY DEF CallOther
<1>2. /\ th[t].at = "idle" /\ th'[t].at = "hash" /\ th'[t].op = op /\ th'[t].key = k
      /\ th'[t].entry = NoEntry /\ th'[t].ans = NoEntry
      /\ \A u \in Thread \ {t} : th'[u] = th[u]
      /\ next' = next /\ key' = key /\ free' = free
  BY <1>0, <1>1 DEF CallOther, At, Idle, list
<1>4. ReachedOf(t)'
  BY <1>2 DEF ReachedOf, At
<1>5. AtomInv' /\ \A l \in Key : Row(l)' = Row(l)
  BY <1>2, <1>4, KeepsAtom
<1>6. Seen(t) = Map!Idle
  BY <1>2 DEF Seen, At, Map!Idle
<1>7. Seen(t)' = [Map!Idle EXCEPT !.op = op, !.key = k, !.entry = NoEntry]
  <2>1. Effective(t)' = FALSE
    BY <1>2 DEF Effective
  <2>2. Seen(t)' = [op |-> op, key |-> k, entry |-> NoEntry, done |-> FALSE, ans |-> NoEntry]
    BY <1>2, <2>1 DEF Seen, At
  <2>3. Map!Idle = [op |-> "none", key |-> NoKey, entry |-> NoEntry, done |-> FALSE, ans |-> NoEntry]
    BY DEF Map!Idle
  <2>4. PICK x, y, d : x = Map!Idle /\ y = Seen(t)' /\ d = FALSE
    OBVIOUS
  <2>5. x = [op |-> "none", key |-> NoKey, entry |-> NoEntry, done |-> d, ans |-> NoEntry]
    BY <2>3, <2>4
  <2>6. y = [op |-> op, key |-> k, entry |-> NoEntry, done |-> d, ans |-> NoEntry]
    BY <2>2, <2>4
  <2>7. IsCall(x) /\ x["done"] = d /\ x["ans"] = NoEntry
    BY <2>5, RecordFields
  <2>8. /\ IsCall(y)
        /\ y["op"] = op /\ y["key"] = k /\ y["entry"] = NoEntry /\ y["done"] = d /\ y["ans"] = NoEntry
    BY <2>6, RecordFields
  <2>9. y["done"] = x["done"] /\ y["ans"] = x["ans"]
    BY <2>7, <2>8
  <2>10. PICK z : z = [x EXCEPT !.op = op, !.key = k, !.entry = NoEntry]
    OBVIOUS
  <2>11. IsCall(z)
    BY <2>7, <2>10 DEF IsCall
  <2>12. \A i \in CallField : z[i] = y[i]
    BY <2>7, <2>8, <2>9, <2>10 DEF IsCall, CallField
  <2>13. y = z
    BY <2>8, <2>11, <2>12, SameCall
  <2> QED BY <2>4, <2>10, <2>13
<1>8. Map!Call(t, op, k, NoEntry)
  <2>1. [l \in Key |-> Row(l)]' = [l \in Key |-> Row(l)]
    BY <1>5
  <2>2. [u \in Thread |-> Seen(u)]' = [[u \in Thread |-> Seen(u)] EXCEPT ![t] = Seen(t)']
    BY <1>2, CallSeen
  <2>3. free' = free \ {NoEntry}
    BY <1>0, <1>2, HashAssumption
  <2> QED BY <1>6, <1>7, <2>1, <2>2, <2>3 DEF Map!Call
<1> QED BY <1>5, <1>8 DEF Map!CallOther

(* And returns, an entry it has deleted being its user's again. *)
LEMMA Returned ==
  ASSUME IInv, AtomInv, NEW t \in Thread, Return(t)
  PROVE  AtomInv' /\ Map!Return(t)
<1>0. /\ th \in [Thread -> ThreadRecord] /\ key \in [Entry -> Key \cup {NoKey}]
  BY TypeOKParts DEF IInv, Types
<1>1. PICK gone : gone = IF th[t].op = "del" /\ th[t].ans # NoEntry THEN {th[t].ans} ELSE {}
  OBVIOUS
<1>2. /\ th[t].at = "return" /\ th' = [th EXCEPT ![t] = Idle] /\ free' = free \cup gone
      /\ key' = [e \in Entry |-> IF e \in gone THEN NoKey ELSE key[e]]
      /\ next' = next
  BY <1>1 DEF Return, At, list
<1>3. gone \subseteq Loose
  BY <1>1, <1>2 DEF Loose, Mine
<1>4. /\ th'[t].at = "idle" /\ th'[t].op = "none"
      /\ \A u \in Thread \ {t} : th'[u] = th[u]
  BY <1>0, <1>2 DEF Idle
<1>5. ASSUME NEW b \in Bucket
      PROVE  /\ next'[b] = next[b]
             /\ \A i \in DOMAIN ListAt(b) :
                  /\ next'[ListAt(b)[i]] = next[ListAt(b)[i]]
                  /\ key'[ListAt(b)[i]] = key[ListAt(b)[i]]
  <2>1. PICK s : s = ListAt(b)
    OBVIOUS
  <2>2. s \in Seq(Entry) /\ IsList(b, s, next)
    BY <2>1 DEF AtomInv, Whole
  <2>3. \A i \in DOMAIN s : s[i] \notin gone /\ s[i] \in Entry
    BY <1>3, <2>2, OnList
  <2>4. \A i \in DOMAIN s : key'[s[i]] = key[s[i]]
    BY <1>2, <2>3
  <2> QED BY <1>2, <2>1, <2>4
<1>6. ReachedOf(t)'
  BY <1>4 DEF ReachedOf, At
<1>7. AtomInv' /\ \A l \in Key : Row(l)' = Row(l)
  BY <1>4, <1>5, <1>6, KeepsAtom
<1>8. /\ Seen(t).op = th[t].op /\ Seen(t).done /\ Seen(t).ans = th[t].ans
  BY <1>2 DEF Seen, Effective, At
<1>9. Seen(t)' = Map!Idle
  BY <1>4 DEF Seen, At, Map!Idle
<1>10. [l \in Key |-> Row(l)]' = [l \in Key |-> Row(l)]
  BY <1>7
<1>11. [u \in Thread |-> Seen(u)]' = [[u \in Thread |-> Seen(u)] EXCEPT ![t] = Seen(t)']
  BY <1>4, CallSeen
<1>12. free' = IF th[t].op = "del" /\ th[t].ans # NoEntry THEN free \cup {th[t].ans} ELSE free
  BY <1>1, <1>2
<1>13. Map!Return(t)
  BY <1>8, <1>9, <1>10, <1>11, <1>12 DEF Map!Return
<1> QED BY <1>7, <1>13

(* A call takes effect. *)
LEMMA Answered ==
  ASSUME NEW t \in Thread, \A u \in Thread \ {t} : th'[u] = th[u],
         th[t].at \notin {"idle", "clear", "unlock", "return"}, th'[t].at \in {"clear", "unlock"},
         th'[t].op = th[t].op, th'[t].key = th[t].key, th'[t].entry = th[t].entry
  PROVE  /\ Map!Pending(t, th[t].op)
         /\ Map!Answers(t, th'[t].ans)
         /\ [u \in Thread |-> Seen(u)][t].key = th[t].key
         /\ [u \in Thread |-> Seen(u)][t].entry = th[t].entry
<1>1. Effective(t) = FALSE /\ Effective(t)' = TRUE
  BY DEF Effective
<1>2. Seen(t) = [op |-> th[t].op, key |-> th[t].key, entry |-> th[t].entry, done |-> FALSE, ans |-> NoEntry]
  BY <1>1 DEF Seen, At
<1>3. Seen(t)' = [op |-> th[t].op, key |-> th[t].key, entry |-> th[t].entry, done |-> TRUE, ans |-> th'[t].ans]
  BY <1>1 DEF Seen, At
<1>4. Seen(t)' = [Seen(t) EXCEPT !.done = TRUE, !.ans = th'[t].ans]
  <2>1. PICK x, y, d, f : x = Seen(t) /\ y = Seen(t)' /\ d = FALSE /\ f = TRUE
    OBVIOUS
  <2>2. PICK o, k, e, c : o = th[t].op /\ k = th[t].key /\ e = th[t].entry /\ c = th'[t].ans
    OBVIOUS
  <2>3. x = [op |-> o, key |-> k, entry |-> e, done |-> d, ans |-> NoEntry]
    BY <1>2, <2>1, <2>2
  <2>4. y = [op |-> o, key |-> k, entry |-> e, done |-> f, ans |-> c]
    BY <1>3, <2>1, <2>2
  <2>5. /\ IsCall(x)
        /\ x["op"] = o /\ x["key"] = k /\ x["entry"] = e
    BY <2>3, RecordFields
  <2>6. /\ IsCall(y)
        /\ y["op"] = o /\ y["key"] = k /\ y["entry"] = e /\ y["done"] = f /\ y["ans"] = c
    BY <2>4, RecordFields
  <2>7. y["op"] = x["op"] /\ y["key"] = x["key"] /\ y["entry"] = x["entry"]
    BY <2>5, <2>6
  <2>8. PICK z : z = [x EXCEPT !.done = f, !.ans = c]
    OBVIOUS
  <2>9. IsCall(z)
    BY <2>5, <2>8 DEF IsCall
  <2>10. \A i \in CallField : z[i] = y[i]
    BY <2>5, <2>6, <2>7, <2>8 DEF IsCall, CallField
  <2>11. y = z
    BY <2>6, <2>9, <2>10, SameCall
  <2> QED BY <2>1, <2>2, <2>8, <2>11
<1>5. [u \in Thread |-> Seen(u)]' = [[u \in Thread |-> Seen(u)] EXCEPT ![t] = Seen(t)']
  BY CallSeen
<1>6. PICK R : R = [u \in Thread |-> Seen(u)]
  OBVIOUS
<1>7. R[t] = Seen(t) /\ t \in DOMAIN R
  BY <1>6
<1>8. [R EXCEPT ![t] = Seen(t)'] = [R EXCEPT ![t].done = TRUE, ![t].ans = th'[t].ans]
  BY <1>4, <1>6, <1>7
<1>9. Map!Answers(t, th'[t].ans)
  BY <1>5, <1>6, <1>8 DEF Map!Answers
<1>10. Map!Pending(t, th[t].op)
  BY <1>2 DEF Map!Pending
<1> QED BY <1>2, <1>9, <1>10

(* A walk that ends finds nothing, or the newest entry of its key.           *)
LEMMA Looked ==
  ASSUME IInv, AtomInv, NEW t \in Thread, Look(t)
  PROVE  AtomInv' /\ (Map!Lookup(t) \/ Map!Del(t) \/ UNCHANGED Map!vars)
<1>0. /\ th \in [Thread -> ThreadRecord] /\ th[t] \in ThreadRecord
      /\ key \in [Entry -> Key \cup {NoKey}]
  BY TypeOKParts DEF IInv, Types
<1>1. /\ th[t].at = "look" /\ \A u \in Thread \ {t} : th'[u] = th[u]
      /\ next' = next /\ key' = key /\ free' = free
      /\ th'[t].op = th[t].op /\ th'[t].key = th[t].key /\ th'[t].entry = th[t].entry
  BY <1>0 DEF Look, At, ThreadRecord, list
<1>2. /\ HeadOf(t) \in Bucket /\ th[t].key \in Key /\ HeadOf(t) = Hash[th[t].key]
      /\ th[t].op \in {"lookup", "del"} /\ th[t].ans = NoEntry
  <2>1. th[t].at \in Critical /\ WorkOf(t)
    BY <1>1 DEF Critical, IInv, Work
  <2> QED BY <1>1, <2>1, HeadFacts DEF WorkOf, HeadOf
<1>3. PICK s, k : s = ListAt(HeadOf(t)) /\ k = th[t].key
  OBVIOUS
<1>4. s \in Seq(Entry) /\ IsList(HeadOf(t), s, next)
  BY <1>2, <1>3 DEF AtomInv, Whole
<1>5. PICK r : r = Row(k)
  OBVIOUS
<1>6. r \in Seq(Entry) /\ IsRow(r, s, OfKey(k))
  BY <1>2, <1>3, <1>5 DEF AtomInv, Rowed
<1>7. PICK i \in 1..(Len(s) + 1) : th[t].pos = Place(HeadOf(t), s, i) /\ NoneBefore(s, i, k)
  BY <1>1, <1>3 DEF AtomInv, Reached, ReachedOf, At
<1>8. \A j \in DOMAIN s : /\ s[j] \in Entry /\ s[j] # HeadOf(t)
                          /\ s[j] \in OfKey(k) <=> key[s[j]] = k
  BY <1>2, <1>3, <1>4, OnList, HashAssumption
<1>9. /\ ListAt(HeadOf(t))' = s /\ HeadOf(t)' = HeadOf(t)
  BY <1>1, <1>3 DEF ListAt, HeadOf
<1>10. th'[t].op = "insert" => th'[t].ans = NoEntry
  BY <1>1, <1>2
<1>11. ReachedOf(t)' => AtomInv' /\ \A l \in Key : Row(l)' = Row(l)
  BY <1>1, <1>10, KeepsAtom
<1>12. Map!First(k) = IF r = <<>> THEN NoEntry ELSE Head(r)
  BY <1>2, <1>3, <1>5 DEF Map!First
<1>13. CASE th[t].pos = HeadOf(t)
  <2>1. th'[t].at = "unlock" /\ th'[t].ans = NoEntry
    BY <1>0, <1>1, <1>2, <1>13 DEF Look, ThreadRecord
  <2>2. \A j \in DOMAIN s : s[j] \notin OfKey(k)
    <3>1. i = Len(s) + 1
      BY <1>4, <1>7, <1>8, <1>13 DEF Place
    <3> QED BY <1>4, <1>7, <1>8, <3>1 DEF NoneBefore
  <2>3. r = <<>>
    <3>1. \A j \in DOMAIN r : FALSE
      BY <1>6, <2>2, RowElements
    <3>2. Len(r) = 0
      BY <1>6, <3>1
    <3> QED BY <1>6, <3>2
  <2>4. ReachedOf(t)'
    BY <2>1 DEF ReachedOf, At
  <2>5. AtomInv' /\ \A l \in Key : Row(l)' = Row(l)
    BY <1>11, <2>4
  <2>6. /\ Map!Pending(t, th[t].op) /\ Map!Answers(t, NoEntry)
        /\ [u \in Thread |-> Seen(u)][t].key = k
    BY <1>1, <1>3, <2>1, Answered
  <2>7. [l \in Key |-> Row(l)]' = [l \in Key |-> Row(l)]
    BY <2>5
  <2>8. Map!Answers(t, Map!First([u \in Thread |-> Seen(u)][t].key))
    BY <1>12, <2>3, <2>6
  <2>9. CASE th[t].op = "lookup"
    <3>1. Map!Lookup(t)
      BY <1>1, <2>6, <2>7, <2>8, <2>9 DEF Map!Lookup
    <3> QED BY <2>5, <3>1
  <2>10. CASE th[t].op = "del"
    <3>1. PICK R : R = [l \in Key |-> Row(l)]
      OBVIOUS
    <3>2. R[k] = <<>> /\ [R EXCEPT ![k] = IF @ = <<>> THEN @ ELSE Tail(@)] = R
      BY <1>2, <1>3, <1>5, <2>3, <3>1
    <3>3. Map!Del(t)
      BY <1>1, <2>6, <2>7, <2>8, <2>10, <3>1, <3>2 DEF Map!Del
    <3> QED BY <2>5, <3>3
  <2> QED BY <1>2, <2>9, <2>10
<1>14. CASE th[t].pos # HeadOf(t)
  <2>1. i \in DOMAIN s /\ th[t].pos = s[i]
    BY <1>4, <1>7, <1>14 DEF Place
  <2>2. CASE key[th[t].pos] = k
    <3>1. th'[t].ans = s[i] /\ th'[t].at = IF th[t].op = "del" THEN "unlink" ELSE "unlock"
      BY <1>0, <1>1, <1>3, <1>14, <2>1, <2>2 DEF Look, Looks, ThreadRecord
    <3>2. CASE th[t].op = "del"
      <4>1. ReachedOf(t)'
        BY <1>1, <1>3, <1>7, <1>9, <2>1, <3>1, <3>2 DEF ReachedOf, NoneBefore, At
      <4>2. Seen(t)' = Seen(t)
        BY <1>1, <3>1, <3>2 DEF Seen, Effective, At
      <4> QED BY <1>1, <1>11, <4>1, <4>2, Unseen
    <3>3. CASE th[t].op # "del"
      <4>1. ReachedOf(t)'
        BY <3>1, <3>3 DEF ReachedOf, At
      <4>2. AtomInv' /\ [l \in Key |-> Row(l)]' = [l \in Key |-> Row(l)]
        BY <1>11, <4>1
      <4>3. /\ Map!Pending(t, th[t].op) /\ Map!Answers(t, s[i])
            /\ [u \in Thread |-> Seen(u)][t].key = k
        BY <1>1, <1>3, <3>1, <3>3, Answered
      <4>4. r # <<>> /\ Head(r) = s[i]
        <5>1. PICK W : W = OfKey(k)
          OBVIOUS
        <5>2. s[i] \in W /\ \A j \in DOMAIN s : j < i => s[j] \notin W
          BY <1>7, <1>8, <2>1, <2>2, <5>1 DEF NoneBefore
        <5> QED BY <1>4, <1>6, <2>1, <5>1, <5>2, RowHead DEF IsList
      <4>5. Map!Answers(t, Map!First([u \in Thread |-> Seen(u)][t].key))
        BY <1>12, <4>3, <4>4
      <4>6. Map!Lookup(t)
        BY <1>1, <1>2, <3>3, <4>2, <4>3, <4>5 DEF Map!Lookup
      <4> QED BY <4>2, <4>6
    <3> QED BY <3>2, <3>3
  <2>3. CASE key[th[t].pos] # k
    <3>1. th'[t].at = "look" /\ th'[t].ans = th[t].ans /\ th'[t].pos = next[s[i]]
      BY <1>0, <1>1, <1>3, <1>14, <2>1, <2>3 DEF Look, Looks, NextOf, ThreadRecord
    <3>2. i \in 0..Len(s) /\ Place(HeadOf(t), s, i) = s[i] /\ i + 1 \in 1..(Len(s) + 1)
      BY <1>4, <2>1 DEF Place
    <3>3. next[s[i]] = Place(HeadOf(t), s, i + 1)
      BY <1>4, <3>2 DEF IsList
    <3>4. \A j \in DOMAIN s : j < i + 1 => key[s[j]] # k
      BY <1>4, <1>7, <2>1, <2>3 DEF NoneBefore
    <3>5. ReachedOf(t)'
      BY <1>1, <1>3, <1>9, <3>1, <3>2, <3>3, <3>4 DEF ReachedOf, NoneBefore, At
    <3>6. Seen(t)' = Seen(t)
      BY <1>1, <3>1 DEF Seen, Effective, At
    <3> QED BY <1>1, <1>11, <3>5, <3>6, Unseen
  <2> QED BY <2>2, <2>3
<1> QED BY <1>13, <1>14

(* A step by which a call takes effect: the list of its bucket becomes u, and *)
(* the row of its key q.                                                      *)
LEMMA TakesEffect ==
  ASSUME IInv, AtomInv, NEW t \in Thread, th[t].at \in Critical,
         NEW b, b = HeadOf(t), NEW c, c = th[t].key,
         \A v \in Thread \ {t} : th'[v] = th[v], key' = key,
         \A n \in Node : Home(n) # b => next'[n] = next[n],
         NEW u \in Seq(Entry), IsList(b, u, next'),
         NEW q \in Seq(Entry), IsRow(q, u, OfKey(c)),
         \A k \in Key : Hash[k] = b /\ k # c => IsRow(Row(k), u, OfKey(k)),
         th'[t].at \in {"clear", "unlock"}, th'[t].op = "insert" => th'[t].ans = NoEntry
  PROVE  /\ AtomInv'
         /\ [k \in Key |-> Row(k)]' = [[k \in Key |-> Row(k)] EXCEPT ![c] = q]
<1>0. Whole /\ Rowed /\ Reached /\ NoAnswer
  BY DEF AtomInv
<1>1. /\ b \in Bucket /\ c \in Key /\ b = Hash[c]
      /\ \A k \in Key : Hash[k] \in Bucket
  BY HeadFacts, HashAssumption DEF HeadOf
<1>2. \A k \in Key : OfKey(k)' = OfKey(k)
  BY DEF OfKey
<1>3. \A i, j \in DOMAIN u : u[i] = u[j] => i = j
  BY DEF IsList
<1>4. ListAt(b)' = u
  <2>1. PICK g : g = next'
    OBVIOUS
  <2>2. Chain(b, g) = u
    BY <1>1, <2>1, ChainIs
  <2> QED BY <2>1, <2>2 DEF ListAt
<1>5. ASSUME NEW d \in Bucket \ {b}
      PROVE  ListAt(d)' = ListAt(d) /\ IsList(d, ListAt(d), next')
  <2>1. PICK s : s = ListAt(d)
    OBVIOUS
  <2>2. s \in Seq(Entry) /\ IsList(d, s, next)
    BY <1>0, <2>1 DEF Whole
  <2>3. \A i \in DOMAIN s : s[i] \in Node /\ Home(s[i]) # b
    BY <2>2, OnList DEF Node
  <2>4. d \in Node /\ Home(d) # b
    BY DEF Node, Home
  <2>5. next'[d] = next[d] /\ \A i \in DOMAIN ListAt(d) : next'[ListAt(d)[i]] = next[ListAt(d)[i]]
    BY <2>1, <2>3, <2>4
  <2> QED BY <1>0, <2>5, ListStays
<1>6. Whole'
  <2>1. ASSUME NEW d \in Bucket
        PROVE  ListAt(d)' \in Seq(Entry) /\ IsList(d, ListAt(d)', next')
    <3>1. CASE d = b
      BY <1>4, <3>1
    <3>2. CASE d # b
      BY <1>0, <1>5, <3>2 DEF Whole
    <3> QED BY <3>1, <3>2
  <2> QED BY <2>1 DEF Whole
<1>7. ASSUME NEW r \in Seq(Entry), NEW k \in Key, Hash[k] = b, IsRow(r, u, OfKey(k))
      PROVE  Row(k)' = r
  <2>1. PICK W : W = OfKey(k)
    OBVIOUS
  <2>2. RowOf(u, W) = r
    BY <1>3, <1>7, <2>1, RowIs
  <2>3. Row(k)' = RowOf(ListAt(Hash[k])', OfKey(k)')
    BY DEF Row, ListAt, OfKey
  <2> QED BY <1>2, <1>4, <1>7, <2>1, <2>2, <2>3
<1>8. ASSUME NEW k \in Key
      PROVE  /\ Row(k)' = IF k = c THEN q ELSE Row(k)
             /\ Row(k)' \in Seq(Entry) /\ IsRow(Row(k)', ListAt(Hash[k])', OfKey(k)')
  <2>0. Row(k) \in Seq(Entry)
    BY <1>0 DEF Rowed
  <2>1. CASE k = c
    <3>1. Row(k)' = q
      BY <1>1, <1>7, <2>1
    <3> QED BY <1>1, <1>2, <1>4, <2>1, <3>1
  <2>2. CASE k # c /\ Hash[k] = b
    <3>1. IsRow(Row(k), u, OfKey(k))
      BY <2>2
    <3>2. Row(k)' = Row(k)
      BY <1>7, <2>0, <2>2, <3>1
    <3> QED BY <1>2, <1>4, <2>0, <2>2, <3>1, <3>2
  <2>3. CASE Hash[k] # b
    <3>1. ListAt(Hash[k])' = ListAt(Hash[k])
      BY <1>1, <1>5, <2>3
    <3>2. Row(k)' = Row(k) /\ IsRow(Row(k), ListAt(Hash[k]), OfKey(k)')
      BY <1>0, <3>1, RowStays
    <3> QED BY <1>1, <2>0, <2>3, <3>1, <3>2
  <2> QED BY <2>1, <2>2, <2>3
<1>9. Rowed'
  <2>1. \A k \in Key : Row(k)' \in Seq(Entry) /\ IsRow(Row(k)', ListAt(Hash[k])', OfKey(k)')
    BY <1>8
  <2> QED BY <2>1 DEF Rowed
<1>10. \A v \in Thread \ {t} : th[v].at \in Critical => ListAt(HeadOf(v))' = ListAt(HeadOf(v))
  <2>1. SUFFICES ASSUME NEW v \in Thread \ {t}, th[v].at \in Critical
                 PROVE  ListAt(HeadOf(v))' = ListAt(HeadOf(v))
    OBVIOUS
  <2>2. PICK d : d = HeadOf(v)
    OBVIOUS
  <2>3. d \in Bucket \ {b} /\ HeadOf(v)' = d
    BY <2>1, <2>2, HeadFacts, Separate DEF HeadOf, IInv
  <2>4. ListAt(d)' = ListAt(d)
    BY <1>5, <2>3
  <2> QED BY <2>2, <2>3, <2>4 DEF ListAt
<1>11. \A v \in Thread \ {t} : ReachedOf(v)'
  BY <1>0, <1>10, OthersReached
<1>12. ReachedOf(t)'
  BY DEF ReachedOf, At
<1>13. Reached' /\ NoAnswer'
  BY <1>0, <1>11, <1>12 DEF Reached, NoAnswer
<1>14. [k \in Key |-> Row(k)]' = [[k \in Key |-> Row(k)] EXCEPT ![c] = q]
  <2>1. PICK A, B : A = [k \in Key |-> Row(k)] /\ B = [k \in Key |-> Row(k)]'
    OBVIOUS
  <2>2. \A k \in Key : A[k] = Row(k) /\ B[k] = Row(k)'
    BY <2>1
  <2>3. B = [k \in Key |-> IF k = c THEN q ELSE A[k]]
    BY <1>8, <2>1, <2>2
  <2>4. [A EXCEPT ![c] = q] = [k \in Key |-> IF k = c THEN q ELSE A[k]]
    BY <2>1
  <2> QED BY <2>1, <2>3, <2>4
<1> QED BY <1>6, <1>9, <1>13, <1>14 DEF AtomInv

(* list_add: with its last write an entry is the first of its list, and of   *)
(* the row of its key.                                                       *)
LEMMA Inserted ==
  ASSUME IInv, AtomInv, NEW t \in Thread, AddPublish(t)
  PROVE  AtomInv' /\ Map!Insert(t)
<1>0. /\ th \in [Thread -> ThreadRecord] /\ th[t] \in ThreadRecord /\ next \in [Node -> Node]
      /\ WorkOf(t) /\ HalfwayOf(t) /\ Homes
  BY TypeOKParts DEF IInv, Types, Work, Halfway
<1>1. PICK b, c, e : b = HeadOf(t) /\ c = th[t].key /\ e = th[t].entry
  OBVIOUS
<1>2. /\ th[t].at = "publish" /\ th'[t].at = "unlock"
      /\ th'[t].op = th[t].op /\ th'[t].key = th[t].key /\ th'[t].entry = th[t].entry
      /\ th'[t].ans = th[t].ans
      /\ \A v \in Thread \ {t} : th'[v] = th[v]
      /\ next' = [next EXCEPT ![b] = e] /\ key' = key /\ free' = free
  BY <1>0, <1>1 DEF AddPublish, Step, At, ThreadRecord
<1>3. /\ th[t].at \in Critical /\ th[t].op = "insert" /\ th[t].ans = NoEntry
      /\ e \in Entry /\ key[e] = c /\ Home(e) = b
      /\ next[e] = next[b] /\ prev[e] = b /\ prev[next[b]] = e
  BY <1>0, <1>1, <1>2 DEF Critical, WorkOf, Belongs, HalfwayOf, At, AtomInv, NoAnswer
<1>4. b \in Bucket /\ b \in Node /\ Home(b) = b /\ c \in Key /\ Hash[c] = b /\ e # b
  BY <1>1, <1>3, HeadFacts, HashAssumption DEF HeadOf
<1>5. PICK s, r : s = ListAt(b) /\ r = Row(c)
  OBVIOUS
<1>6. s \in Seq(Entry) /\ IsList(b, s, next)
  BY <1>4, <1>5 DEF AtomInv, Whole
<1>7. r \in Seq(Entry) /\ IsRow(r, s, OfKey(c))
  BY <1>4, <1>5 DEF AtomInv, Rowed
<1>8. ASSUME NEW n \in Node \ {e}
      PROVE  next[n] # e
  <2>1. CASE n = b
    BY <1>3, <1>4, <2>1
  <2>2. CASE n # b /\ Home(n) = b
    <3>1. prev[next[n]] = n
      BY <1>1, <1>2, <1>3, <2>2, OwnLinks DEF NextBroken
    <3> QED BY <1>3, <2>2, <3>1
  <2>3. CASE Home(n) # b
    BY <1>0, <1>3, <2>3 DEF Homes
  <2> QED BY <2>1, <2>2, <2>3
<1>9. \A i \in DOMAIN s : s[i] # e /\ s[i] \in Node /\ s[i] # b
  BY <1>4, <1>6, <1>8, PointedTo, HashAssumption DEF Node
<1>10. PICK u, q : u = <<e>> \o s /\ q = <<e>> \o r
  OBVIOUS
<1>11. u \in Seq(Entry) /\ q \in Seq(Entry)
  BY <1>3, <1>6, <1>7, <1>10
<1>12. IsList(b, u, next')
  <2>1. PICK f, g : f = next /\ g = next'
    OBVIOUS
  <2>2. g[b] = e /\ g[e] = f[b] /\ \A i \in DOMAIN s : g[s[i]] = f[s[i]]
    <3>1. e \in Node
      BY <1>3 DEF Node
    <3> QED BY <1>0, <1>2, <1>3, <1>4, <1>9, <2>1, <3>1
  <2>3. IsList(b, s, f) /\ \A i \in DOMAIN s : s[i] # e
    BY <1>6, <1>9, <2>1
  <2>4. e \in Entry /\ b \in Bucket /\ s \in Seq(Entry) /\ u = <<e>> \o s
    BY <1>3, <1>4, <1>6, <1>10
  <2>5. IsList(b, u, g)
    BY ONLY <2>2, <2>3, <2>4, ListPushed
  <2> QED BY <2>1, <2>5
<1>13. IsRow(q, u, OfKey(c))
  <2>1. PICK W : W = OfKey(c)
    OBVIOUS
  <2>2. e \in W
    BY <1>3, <2>1 DEF OfKey
  <2>3. e \in Entry /\ s \in Seq(Entry) /\ u = <<e>> \o s /\ q = <<e>> \o r
    BY <1>3, <1>6, <1>10
  <2>4. r \in Seq(Entry) /\ IsRow(r, s, W)
    BY <1>7, <2>1
  <2>5. IsRow(q, u, W)
    BY ONLY <2>2, <2>3, <2>4, RowPushed
  <2> QED BY <2>1, <2>5
<1>14. ASSUME NEW k \in Key, Hash[k] = b /\ k # c
       PROVE  IsRow(Row(k), u, OfKey(k))
  <2>1. PICK x, W : x = Row(k) /\ W = OfKey(k)
    OBVIOUS
  <2>2. IsRow(x, s, W)
    BY <1>5, <1>14, <2>1 DEF AtomInv, Rowed
  <2>3. e \notin W
    BY <1>3, <1>14, <2>1 DEF OfKey
  <2>4. IsRow(x, u, W)
    BY <1>3, <1>6, <1>10, <2>2, <2>3, RowPassed
  <2> QED BY <2>1, <2>4
<1>15. \A n \in Node : Home(n) # b => next'[n] = next[n]
  BY <1>0, <1>2, <1>4
<1>16. AtomInv' /\ [k \in Key |-> Row(k)]' = [[k \in Key |-> Row(k)] EXCEPT ![c] = q]
  <2>1. \A k \in Key : Hash[k] = b /\ k # c => IsRow(Row(k), u, OfKey(k))
    BY <1>14
  <2>2. th[t].at \in Critical /\ th'[t].at \in {"clear", "unlock"} /\ (th'[t].op = "insert" => th'[t].ans = NoEntry)
    BY <1>2, <1>3
  <2>3. (\A v \in Thread \ {t} : th'[v] = th[v]) /\ key' = key
    BY <1>2
  <2> QED BY ONLY IInv, AtomInv, <1>1, <1>11, <1>12, <1>13, <1>15, <2>1, <2>2, <2>3, TakesEffect
<1>17. /\ Map!Pending(t, "insert") /\ Map!Answers(t, NoEntry)
       /\ [v \in Thread |-> Seen(v)][t].key = c /\ [v \in Thread |-> Seen(v)][t].entry = e
  <2>1. /\ Map!Pending(t, th[t].op) /\ Map!Answers(t, th'[t].ans)
        /\ [v \in Thread |-> Seen(v)][t].key = th[t].key
        /\ [v \in Thread |-> Seen(v)][t].entry = th[t].entry
    BY <1>2, Answered
  <2> QED BY <1>1, <1>2, <1>3, <2>1
<1>18. [k \in Key |-> Row(k)]' =
         [[k \in Key |-> Row(k)] EXCEPT ![[v \in Thread |-> Seen(v)][t].key] =
            <<[v \in Thread |-> Seen(v)][t].entry>> \o @]
  <2>1. PICK A, R : A = [k \in Key |-> Row(k)] /\ R = [v \in Thread |-> Seen(v)]
    OBVIOUS
  <2>2. A[c] = r /\ R[t].key = c /\ R[t].entry = e
    BY <1>4, <1>5, <1>17, <2>1
  <2>3. [A EXCEPT ![c] = q] = [A EXCEPT ![R[t].key] = <<R[t].entry>> \o @]
    BY <1>10, <2>2
  <2> QED BY <1>16, <2>1, <2>3
<1>19. Map!Insert(t)
  BY <1>2, <1>17, <1>18 DEF Map!Insert
<1> QED BY <1>16, <1>19

(* list_del_init: with its second write the first entry of its key's row is   *)
(* on the list no more.                                                       *)
LEMMA Deleted ==
  ASSUME IInv, AtomInv, NEW t \in Thread, DelSkip(t)
  PROVE  AtomInv' /\ Map!Del(t)
<1>0. /\ th \in [Thread -> ThreadRecord] /\ th[t] \in ThreadRecord /\ next \in [Node -> Node]
      /\ HalfwayOf(t) /\ Homes /\ ReachedOf(t)
  BY TypeOKParts DEF IInv, Types, Halfway, AtomInv, Reached
<1>1. PICK b, c, a, p : b = HeadOf(t) /\ c = th[t].key /\ a = th[t].ans /\ p = prev[th[t].ans]
  OBVIOUS
<1>2. /\ th[t].at = "skip" /\ th'[t].at = "clear"
      /\ th'[t].op = th[t].op /\ th'[t].key = th[t].key /\ th'[t].entry = th[t].entry
      /\ th'[t].ans = th[t].ans
      /\ \A v \in Thread \ {t} : th'[v] = th[v]
      /\ next' = [next EXCEPT ![p] = next[a]] /\ key' = key /\ free' = free
  BY <1>0, <1>1 DEF DelSkip, Step, At, ThreadRecord
<1>3. /\ th[t].at \in Critical /\ th[t].op = "del"
      /\ a \in Entry /\ key[a] = c /\ Home(a) = b /\ p \in Node /\ Home(p) = b
  BY <1>1, <1>2, DeleteFacts DEF Critical
<1>4. b \in Bucket /\ b \in Node /\ c \in Key /\ Hash[c] = b
  BY <1>1, <1>3, HeadFacts DEF HeadOf
<1>5. PICK s, r : s = ListAt(b) /\ r = Row(c)
  OBVIOUS
<1>6. s \in Seq(Entry) /\ IsList(b, s, next)
  BY <1>4, <1>5 DEF AtomInv, Whole
<1>7. r \in Seq(Entry) /\ IsRow(r, s, OfKey(c))
  BY <1>4, <1>5 DEF AtomInv, Rowed
<1>8. PICK d \in DOMAIN s : a = s[d] /\ NoneBefore(s, d, c)
  BY <1>0, <1>1, <1>2, <1>5 DEF ReachedOf
<1>9. p = Place(b, s, d - 1)
  <2>1. PICK n : n = Place(b, s, d - 1)
    OBVIOUS
  <2>2. n \in Node \ {a} /\ next[n] = a
    BY <1>4, <1>6, <1>8, <2>1, PointedTo
  <2>3. Home(n) = b
    BY <1>0, <1>3, <2>2 DEF Homes
  <2>4. prev[next[n]] = n
    BY <1>1, <1>2, <1>3, <2>2, <2>3, OwnLinks DEF NextBroken
  <2> QED BY <1>1, <2>1, <2>2, <2>4
<1>10. PICK u, q : u = Without(s, d) /\ q = Tail(r)
  OBVIOUS
<1>11. \A i, j \in DOMAIN s : s[i] = s[j] => i = j
  BY <1>6 DEF IsList
<1>12. IsList(b, u, next')
  <2>1. PICK f, g : f = next /\ g = next'
    OBVIOUS
  <2>2. ASSUME NEW i \in 0..Len(s), i # d - 1
        PROVE  Place(b, s, i) # p /\ Place(b, s, i) \in Node
    <3>1. \A j \in DOMAIN s : s[j] # b /\ s[j] \in Node
      BY <1>4, <1>6, HashAssumption DEF Node
    <3>2. i \in DOMAIN s \/ i = 0
      BY <1>6
    <3>3. d - 1 \in DOMAIN s \/ d - 1 = 0
      BY <1>6
    <3>4. 0 \notin DOMAIN s
      BY <1>6
    <3> QED BY <1>4, <1>9, <1>11, <2>2, <3>1, <3>2, <3>3, <3>4 DEF Place
  <2>3. ASSUME NEW i \in 0..Len(s), i # d - 1
        PROVE  g[Place(b, s, i)] = f[Place(b, s, i)]
    <3>1. PICK n : n = Place(b, s, i)
      OBVIOUS
    <3>2. n # p /\ n \in Node
      BY <2>2, <2>3, <3>1
    <3> QED BY <1>0, <1>2, <2>1, <3>1, <3>2
  <2>4. g[p] = f[s[d]]
    BY <1>0, <1>2, <1>3, <1>8, <2>1
  <2>5. b \in Bucket /\ s \in Seq(Entry) /\ IsList(b, s, f) /\ d \in 1..Len(s) /\ u = Without(s, d)
    BY <1>4, <1>6, <1>10, <2>1
  <2>6. \A i \in 0..Len(s) : i # d - 1 => g[Place(b, s, i)] = f[Place(b, s, i)]
    BY <2>3
  <2>7. IsList(b, u, g)
    BY ONLY <1>9, <2>4, <2>5, <2>6, ListWithout
  <2> QED BY <2>1, <2>7
<1>13. d \in 1..Len(s) /\ s \in Seq(Entry) /\ u = Without(s, d) /\ u \in Seq(Entry)
  BY <1>6, <1>10, WithoutIs
<1>14. r # <<>> /\ Head(r) = a /\ q \in Seq(Entry) /\ IsRow(q, u, OfKey(c))
  <2>1. PICK W : W = OfKey(c)
    OBVIOUS
  <2>2. s[d] \in W /\ \A i \in DOMAIN s : i < d => s[i] \notin W
    BY <1>3, <1>8, <2>1 DEF OfKey, NoneBefore
  <2>3. r \in Seq(Entry) /\ IsRow(r, s, W)
    BY <1>7, <2>1
  <2>4. r # <<>> /\ Tail(r) \in Seq(Entry) /\ IsRow(Tail(r), u, W)
    BY ONLY <1>11, <1>13, <2>2, <2>3, RowTail
  <2>5. d \in DOMAIN s
    OBVIOUS
  <2>6. Head(r) = s[d]
    BY ONLY <1>11, <1>13, <2>2, <2>3, <2>5, RowHead
  <2> QED BY <1>8, <1>10, <2>1, <2>4, <2>6
<1>15. ASSUME NEW k \in Key, Hash[k] = b /\ k # c
       PROVE  IsRow(Row(k), u, OfKey(k))
  <2>1. PICK x, W : x = Row(k) /\ W = OfKey(k)
    OBVIOUS
  <2>2. IsRow(x, s, W)
    BY <1>5, <1>15, <2>1 DEF AtomInv, Rowed
  <2>3. s[d] \notin W
    BY <1>3, <1>8, <1>15, <2>1 DEF OfKey
  <2>4. IsRow(x, u, W)
    BY ONLY <1>13, <2>2, <2>3, RowAround
  <2> QED BY <2>1, <2>4
<1>16. \A n \in Node : Home(n) # b => next'[n] = next[n]
  BY <1>0, <1>2, <1>3
<1>17. AtomInv' /\ [k \in Key |-> Row(k)]' = [[k \in Key |-> Row(k)] EXCEPT ![c] = q]
  <2>1. \A k \in Key : Hash[k] = b /\ k # c => IsRow(Row(k), u, OfKey(k))
    BY <1>15
  <2>2. th[t].at \in Critical /\ th'[t].at \in {"clear", "unlock"} /\ (th'[t].op = "insert" => th'[t].ans = NoEntry)
    BY <1>2, <1>3
  <2>3. (\A v \in Thread \ {t} : th'[v] = th[v]) /\ key' = key
    BY <1>2
  <2>4. b = HeadOf(t) /\ c = th[t].key
    BY <1>1
  <2>5. u \in Seq(Entry) /\ q \in Seq(Entry) /\ IsRow(q, u, OfKey(c))
    BY <1>13, <1>14
  <2> QED BY ONLY IInv, AtomInv, <1>12, <1>16, <2>1, <2>2, <2>3, <2>4, <2>5, TakesEffect
<1>18. /\ Map!Pending(t, "del") /\ Map!Answers(t, a)
       /\ [v \in Thread |-> Seen(v)][t].key = c
  <2>1. /\ Map!Pending(t, th[t].op) /\ Map!Answers(t, th'[t].ans)
        /\ [v \in Thread |-> Seen(v)][t].key = th[t].key
    BY <1>2, Answered
  <2> QED BY <1>1, <1>2, <1>3, <2>1
<1>19. Map!First(c) = a
  BY <1>4, <1>5, <1>14 DEF Map!First
<1>20. Map!Answers(t, Map!First([v \in Thread |-> Seen(v)][t].key))
  BY <1>18, <1>19
<1>21. [k \in Key |-> Row(k)]' =
         [[k \in Key |-> Row(k)] EXCEPT ![[v \in Thread |-> Seen(v)][t].key] =
            IF @ = <<>> THEN @ ELSE Tail(@)]
  <2>1. PICK A, R : A = [k \in Key |-> Row(k)] /\ R = [v \in Thread |-> Seen(v)]
    OBVIOUS
  <2>2. A[c] = r /\ R[t].key = c
    BY <1>4, <1>5, <1>18, <2>1
  <2>3. [A EXCEPT ![c] = q] = [A EXCEPT ![R[t].key] = IF @ = <<>> THEN @ ELSE Tail(@)]
    BY <1>10, <1>14, <2>2
  <2> QED BY <1>17, <2>1, <2>3
<1>22. Map!Del(t)
  BY <1>2, <1>18, <1>20, <1>21 DEF Map!Del
<1> QED BY <1>17, <1>22

-----------------------------------------------------------------------------
(* The refinement.                                                           *)

LEMMA AtomBegins == Init => AtomInv /\ Map!Init
<1> SUFFICES ASSUME Init
             PROVE  AtomInv /\ Map!Init
  OBVIOUS
<1>1. PICK s : s = <<>>
  OBVIOUS
<1>2. s \in Seq(Entry) /\ Len(s) = 0 /\ DOMAIN s = {}
  BY <1>1
<1>3. ASSUME NEW b \in Bucket
      PROVE  ListAt(b) = s /\ IsList(b, s, next)
  <2>1. next[b] = b
    BY DEF Init, Node
  <2>2. \A i : Place(b, s, i) = b
    BY <1>2 DEF Place
  <2>3. IsList(b, s, next)
    BY <1>2, <2>1, <2>2 DEF IsList
  <2> QED BY <1>2, <2>3, ChainIs DEF ListAt
<1>4. ASSUME NEW k \in Key
      PROVE  Row(k) = s /\ IsRow(s, ListAt(Hash[k]), OfKey(k))
  <2>1. ListAt(Hash[k]) = s
    BY <1>3, HashAssumption
  <2>2. PICK W : W = OfKey(k)
    OBVIOUS
  <2>3. IsRow(s, s, W)
    <3>1. {s[i] : i \in DOMAIN s} = {}
      BY <1>2
    <3> QED BY <1>2, <3>1 DEF IsRow
  <2>4. RowOf(s, W) = s
    BY <1>2, <2>3, RowIs
  <2> QED BY <2>1, <2>2, <2>3, <2>4 DEF Row, ListAt, OfKey
<1>5. Whole /\ Rowed
  BY <1>2, <1>3, <1>4 DEF Whole, Rowed
<1>6. \A t \in Thread : th[t].at = "idle" /\ th[t].op = "none"
  BY DEF Init, Idle
<1>7. Reached /\ NoAnswer
  BY <1>6 DEF Reached, ReachedOf, NoAnswer, At
<1>8. \A t \in Thread : Seen(t) = Map!Idle
  BY <1>6 DEF Seen, At, Map!Idle
<1>9. [k \in Key |-> Row(k)] = [k \in Key |-> <<>>]
  BY <1>1, <1>4
<1>10. [t \in Thread |-> Seen(t)] = [t \in Thread |-> Map!Idle]
  BY <1>8
<1>11. Map!Init
  BY <1>9, <1>10 DEF Init, Map!Init
<1> QED BY <1>5, <1>7, <1>11 DEF AtomInv

LEMMA AtomStep ==
  ASSUME IInv, AtomInv, [Next]_vars
  PROVE  AtomInv' /\ [Map!Next]_(Map!vars)
<1>1. CASE UNCHANGED vars
  <2>1. next' = next /\ key' = key /\ th' = th /\ free' = free
    BY <1>1 DEF vars
  <2>2. AtomInv'
    BY <2>1 DEF AtomInv, Whole, Rowed, Reached, ReachedOf, NoneBefore, NoAnswer, ListAt, OfKey, Row, HeadOf, At
  <2>3. UNCHANGED Map!vars
    BY <2>1 DEF Map!vars, Row, Seen, Effective, At
  <2> QED BY <2>2, <2>3
<1>2. ASSUME NEW t \in Thread, CallInsert(t) \/ CallOther(t) \/ Go(t)
      PROVE  AtomInv' /\ [Map!Next]_(Map!vars)
  <2>1. CASE CallInsert(t)
    BY <2>1, InsertCalled DEF Map!Next
  <2>2. CASE CallOther(t)
    BY <2>2, OtherCalled DEF Map!Next
  <2>3. CASE HashCode(t) \/ Hashed(t) \/ Lock(t) \/ Unlock(t)
    BY <2>3, LockingUnseen
  <2>4. CASE Return(t)
    BY <2>4, Returned DEF Map!Next
  <2>5. CASE AddBack(t) \/ AddLink(t) \/ DelBack(t) \/ DelClear(t)
    BY <2>5, WritesUnseen
  <2>6. CASE AddPublish(t)
    BY <2>6, Inserted DEF Map!Next
  <2>7. CASE First(t)
    BY <2>7, WalkStarts
  <2>8. CASE Look(t)
    BY <2>8, Looked DEF Map!Next
  <2>9. CASE DelSkip(t)
    BY <2>9, Deleted DEF Map!Next
  <2> QED BY <1>2, <2>1, <2>2, <2>3, <2>4, <2>5, <2>6, <2>7, <2>8, <2>9 DEF Go
<1> QED BY <1>1, <1>2 DEF Next

(* A call takes effect at once, when an insertion's last write links its     *)
(* entry in, a walk comes to an end, or a deletion's second write takes the  *)
(* entry off its list: whatever threads, keys, buckets and entries there     *)
(* are, the table is a map in which the newest entry of a key is found first. *)
THEOREM HashImplementsMap == Spec => Atomic
<1>1. Init => AtomInv /\ Map!Init
  BY AtomBegins
<1>2. IInv /\ AtomInv /\ [Next]_vars => AtomInv' /\ [Map!Next]_(Map!vars)
  BY AtomStep
<1> QED
  BY <1>1, <1>2, InitHolds, StepKeeps, PTL DEF Spec, Atomic, Map!Spec
=============================================================================
