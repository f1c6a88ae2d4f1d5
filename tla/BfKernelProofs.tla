--------------------------- MODULE BfKernelProofs ---------------------------
(***************************************************************************)
(* Theorems about BfKernel: its type invariant; that no hook ever stands   *)
(* on a rule that has been freed or on the other chain's rules; that the   *)
(* three indexes agree between two messages; that an answer is true; and   *)
(* that it implements BfTable.                                             *)
(***************************************************************************)
EXTENDS BfKernelTable, TLAPS

(* Two sequences put together, element by element.                         *)
LEMMA ConcatElements ==
  ASSUME NEW S, NEW a \in Seq(S), NEW b \in Seq(S), NEW c, c = a \o b
  PROVE  /\ c \in Seq(S)
         /\ Len(c) = Len(a) + Len(b)
         /\ \A j \in 1..Len(a) : c[j] = a[j]
         /\ \A j \in 1..Len(b) : c[Len(a) + j] = b[j]
<1>1. c \in Seq(S) /\ Len(c) = Len(a) + Len(b) /\ Len(a) \in Nat /\ Len(b) \in Nat
  OBVIOUS
<1>2. \A j \in 1..Len(a) : c[j] = a[j]
  BY <1>1
<1>3. \A j \in 1..Len(b) : c[Len(a) + j] = b[j]
  <2> SUFFICES ASSUME NEW j \in 1..Len(b)
               PROVE  c[Len(a) + j] = b[j]
    OBVIOUS
  <2>1. Len(a) + j \in 1..(Len(a) + Len(b)) /\ ~(Len(a) + j <= Len(a)) /\ (Len(a) + j) - Len(a) = j
    BY <1>1
  <2> QED  BY <1>1, <2>1
<1> QED  BY <1>1, <1>2, <1>3

(* A place at or beyond the i-th, in what is left when the i-th is gone.    *)
LEMMA PlaceBeyond ==
  ASSUME NEW n \in Nat, NEW i \in 1..n, NEW j \in 1..(n - 1), ~(j < i)
  PROVE  \E k \in 1..(n - i) : j = (i - 1) + k /\ j + 1 = i + k
<1>1. j - (i - 1) \in 1..(n - i)
  OBVIOUS
<1>2. j = (i - 1) + (j - (i - 1)) /\ j + 1 = i + (j - (i - 1))
  OBVIOUS
<1> QED  BY <1>1, <1>2

(* Removing one element of a sequence, element by element.                 *)
LEMMA RemoveAtElements ==
  ASSUME NEW S, NEW s \in Seq(S), NEW i \in DOMAIN s
  PROVE  /\ RemoveAt(s, i) \in Seq(S)
         /\ Len(RemoveAt(s, i)) = Len(s) - 1
         /\ \A j \in DOMAIN RemoveAt(s, i) :
              RemoveAt(s, i)[j] = IF j < i THEN s[j] ELSE s[j + 1]
<1> DEFINE a == SubSeq(s, 1, i - 1)
           b == SubSeq(s, i + 1, Len(s))
<1>1. i \in 1..Len(s) /\ Len(s) \in Nat
  OBVIOUS
<1>2. a \in Seq(S) /\ Len(a) = i - 1 /\ \A j \in 1..(i - 1) : a[j] = s[j]
  <2>1. \A j \in 1..(i - 1) : s[j] \in S
    BY <1>1
  <2> QED  BY <1>1, <2>1
<1>3. b \in Seq(S) /\ Len(b) = Len(s) - i /\ \A j \in 1..(Len(s) - i) : b[j] = s[i + j]
  <2>1. \A j \in (i + 1)..Len(s) : s[j] \in S
    BY <1>1
  <2> QED  BY <1>1, <2>1
<1>4. RemoveAt(s, i) = a \o b
  BY DEF RemoveAt
<1> HIDE DEF a, b
<1>5. PICK u \in Seq(S), v \in Seq(S) : u = a /\ v = b
  BY <1>2, <1>3
<1>6. PICK c : c = u \o v
  OBVIOUS
<1>7. /\ c \in Seq(S)
      /\ Len(c) = Len(u) + Len(v)
      /\ \A j \in 1..Len(u) : c[j] = u[j]
      /\ \A j \in 1..Len(v) : c[Len(u) + j] = v[j]
  BY <1>6, ConcatElements
<1>8. /\ Len(u) = i - 1 /\ \A j \in 1..(i - 1) : u[j] = s[j]
      /\ Len(v) = Len(s) - i /\ \A j \in 1..(Len(s) - i) : v[j] = s[i + j]
  BY <1>2, <1>3, <1>5
<1>9. Len(c) = Len(s) - 1
  BY <1>1, <1>7, <1>8
<1>10. \A j \in 1..(Len(s) - 1) : c[j] = IF j < i THEN s[j] ELSE s[j + 1]
  <2> SUFFICES ASSUME NEW j \in 1..(Len(s) - 1)
               PROVE  c[j] = IF j < i THEN s[j] ELSE s[j + 1]
    OBVIOUS
  <2>1. CASE j < i
    <3>1. j \in 1..(i - 1) /\ j \in 1..Len(u)
      <4>1. PICK n \in Nat : n = i - 1
        BY <1>1
      <4>2. j \in 1..n
        BY <1>1, <2>1, <4>1
      <4>3. Len(u) = n
        BY <1>8, <4>1
      <4> QED  BY <4>1, <4>2, <4>3
    <3>2. c[j] = u[j]
      BY <1>7, <3>1
    <3>3. u[j] = s[j]
      BY <1>8, <3>1
    <3> QED  BY <2>1, <3>2, <3>3
  <2>2. CASE ~(j < i)
    <3>1. PICK k \in 1..(Len(s) - i) : j = (i - 1) + k /\ j + 1 = i + k
      <4>1. PICK n \in Nat : n = Len(s)
        BY <1>1
      <4>2. i \in 1..n /\ j \in 1..(n - 1)
        BY <1>1, <4>1
      <4> QED  BY <2>2, <4>1, <4>2, PlaceBeyond
    <3>2. c[j] = v[k]
      BY <1>7, <1>8, <3>1
    <3>3. v[k] = s[i + k]
      BY <1>8
    <3>4. s[j + 1] = v[k]
      BY <3>1, <3>3
    <3> QED  BY <2>2, <3>2, <3>4
  <2> QED  BY <2>1, <2>2
<1>11. DOMAIN c = 1..(Len(s) - 1)
  BY <1>7, <1>9
<1>12. RemoveAt(s, i) = c
  BY <1>4, <1>5, <1>6
<1> QED  BY <1>7, <1>9, <1>10, <1>11, <1>12

(* Removing an element of a sequence without repetitions removes it from   *)
(* the set of its elements, and brings no repetition in.                   *)
LEMMA RemoveAtInjective ==
  ASSUME NEW S, NEW s \in Seq(S), IsInjective(s), NEW i \in DOMAIN s
  PROVE  /\ RemoveAt(s, i) \in Seq(S)
         /\ IsInjective(RemoveAt(s, i))
         /\ ToSet(RemoveAt(s, i)) = ToSet(s) \ {s[i]}
<1> DEFINE t == RemoveAt(s, i)
<1>1. /\ t \in Seq(S) /\ Len(t) = Len(s) - 1
      /\ \A j \in DOMAIN t : t[j] = IF j < i THEN s[j] ELSE s[j + 1]
  BY RemoveAtElements
<1>2. Len(s) \in Nat /\ i \in 1..Len(s) /\ DOMAIN s = 1..Len(s)
  OBVIOUS
<1>3. \A j, k \in 1..Len(s) : s[j] = s[k] => j = k
  BY DEF IsInjective
<1> HIDE DEF t
<1>4. DOMAIN t = 1..(Len(s) - 1)
  BY <1>1
<1>5. IsInjective(t)
  <2> SUFFICES ASSUME NEW j \in DOMAIN t, NEW k \in DOMAIN t, t[j] = t[k]
               PROVE  j = k
    BY DEF IsInjective
  <2> DEFINE J == IF j < i THEN j ELSE j + 1
             K == IF k < i THEN k ELSE k + 1
  <2>1. t[j] = s[J] /\ t[k] = s[K] /\ J \in 1..Len(s) /\ K \in 1..Len(s)
    BY <1>1, <1>2, <1>4
  <2>2. J = K
    BY <1>3, <2>1
  <2> QED  BY <1>2, <1>4, <2>2
<1>6. ToSet(t) \subseteq ToSet(s) \ {s[i]}
  <2> SUFFICES ASSUME NEW j \in DOMAIN t
               PROVE  t[j] \in ToSet(s) /\ t[j] # s[i]
    BY DEF ToSet
  <2> DEFINE J == IF j < i THEN j ELSE j + 1
  <2>1. t[j] = s[J] /\ J \in 1..Len(s) /\ J # i
    BY <1>1, <1>2, <1>4
  <2> QED  BY <1>2, <1>3, <2>1 DEF ToSet
<1>7. ToSet(s) \ {s[i]} \subseteq ToSet(t)
  <2> SUFFICES ASSUME NEW k \in 1..Len(s), k # i
               PROVE  s[k] \in ToSet(t)
    BY <1>2 DEF ToSet
  <2>1. CASE k < i
    <3>1. k \in DOMAIN t /\ t[k] = s[k]
      BY <1>1, <1>2, <1>4, <2>1
    <3> QED  BY <3>1 DEF ToSet
  <2>2. CASE i < k
    <3>1. k - 1 \in DOMAIN t /\ ~(k - 1 < i) /\ (k - 1) + 1 = k
      BY <1>2, <1>4, <2>2
    <3>2. t[k - 1] = s[k]
      BY <1>1, <3>1
    <3> QED  BY <3>1, <3>2 DEF ToSet
  <2> QED  BY <1>2, <2>1, <2>2
<1> QED  BY <1>1, <1>5, <1>6, <1>7 DEF t

(* Appending an element that is not there brings no repetition in.         *)
LEMMA AppendFresh ==
  ASSUME NEW S, NEW s \in Seq(S), IsInjective(s), NEW x \in S, x \notin ToSet(s)
  PROVE  /\ Append(s, x) \in Seq(S)
         /\ IsInjective(Append(s, x))
         /\ ToSet(Append(s, x)) = ToSet(s) \cup {x}
<1>1. /\ Append(s, x) \in Seq(S) /\ Len(s) \in Nat
      /\ DOMAIN s = 1..Len(s) /\ DOMAIN Append(s, x) = 1..(Len(s) + 1)
      /\ \A j \in 1..Len(s) : Append(s, x)[j] = s[j]
      /\ Append(s, x)[Len(s) + 1] = x
  <2>1. Append(s, x) \in Seq(S) /\ Len(Append(s, x)) = Len(s) + 1 /\ Len(s) \in Nat
    OBVIOUS
  <2>2. DOMAIN s = 1..Len(s) /\ DOMAIN Append(s, x) = 1..(Len(s) + 1)
    BY <2>1
  <2>3. \A j \in 1..Len(s) : Append(s, x)[j] = s[j]
    OBVIOUS
  <2>4. Append(s, x)[Len(s) + 1] = x
    OBVIOUS
  <2> QED  BY <2>1, <2>2, <2>3, <2>4
<1>2. \A j \in 1..(Len(s) + 1) : j \in 1..Len(s) \/ j = Len(s) + 1
  BY <1>1
<1>3. x \notin {s[j] : j \in 1..Len(s)}
  BY <1>1 DEF ToSet
<1>4. IsInjective(Append(s, x))
  BY <1>1, <1>2, <1>3 DEF IsInjective
<1>5. ToSet(Append(s, x)) = ToSet(s) \cup {x}
  <2>1. ToSet(Append(s, x)) \subseteq ToSet(s) \cup {x}
    BY <1>1, <1>2 DEF ToSet
  <2>2. \A j \in 1..Len(s) : j \in DOMAIN Append(s, x)
    BY <1>1
  <2>3. ToSet(s) \subseteq ToSet(Append(s, x))
    BY <1>1, <2>2 DEF ToSet
  <2>4. x \in ToSet(Append(s, x))
    BY <1>1 DEF ToSet
  <2> QED  BY <2>1, <2>3, <2>4
<1>6. Append(s, x) \in Seq(S)
  BY <1>1
<1> QED  BY <1>4, <1>5, <1>6

(* Taking the first element off removes it from the set of the elements.   *)
LEMMA TailInjective ==
  ASSUME NEW S, NEW s \in Seq(S), IsInjective(s), s # <<>>
  PROVE  /\ Tail(s) \in Seq(S)
         /\ s[1] \in S /\ s[1] \in ToSet(s)
         /\ IsInjective(Tail(s))
         /\ ToSet(Tail(s)) = ToSet(s) \ {s[1]}
<1>1. /\ Tail(s) \in Seq(S) /\ Len(s) \in Nat \ {0}
      /\ DOMAIN s = 1..Len(s) /\ DOMAIN Tail(s) = 1..(Len(s) - 1)
      /\ \A j \in 1..(Len(s) - 1) : Tail(s)[j] = s[j + 1]
  OBVIOUS
<1>2. \A j, k \in 1..Len(s) : s[j] = s[k] => j = k
  BY <1>1 DEF IsInjective
<1>3. IsInjective(Tail(s))
  BY <1>1, <1>2 DEF IsInjective
<1>4. ToSet(Tail(s)) \subseteq ToSet(s) \ {s[1]}
  BY <1>1, <1>2 DEF ToSet
<1>5. ToSet(s) \ {s[1]} \subseteq ToSet(Tail(s))
  <2> SUFFICES ASSUME NEW k \in 1..Len(s), k # 1
               PROVE  s[k] \in ToSet(Tail(s))
    BY <1>1 DEF ToSet
  <2>1. k - 1 \in 1..(Len(s) - 1) /\ (k - 1) + 1 = k
    BY <1>1
  <2>2. k - 1 \in DOMAIN Tail(s) /\ Tail(s)[k - 1] = s[k]
    BY <1>1, <2>1
  <2> QED  BY <2>2 DEF ToSet
<1>6. 1 \in DOMAIN s /\ s[1] \in S
  BY <1>1
<1> QED  BY <1>1, <1>3, <1>4, <1>5, <1>6 DEF ToSet

-----------------------------------------------------------------------------
(* Following ->next.                                                       *)

(* From an element of a chain one comes to the head or to another one.     *)
LEMMA NextOnChain ==
  ASSUME TypeOK, NEW c \in Chain, IsInjective(chain[c]), NEW n \in ToSet(chain[c])
  PROVE  \/ NextOf(c, n) = HeadOf(c)
         \/ NextOf(c, n) \in ToSet(chain[c]) \ {n}
<1> DEFINE s == chain[c]
           i == CHOOSE j \in DOMAIN s : s[j] = n
<1>1. s \in Seq(Node) /\ Len(s) \in Nat /\ DOMAIN s = 1..Len(s)
  BY DEF TypeOK
<1>2. i \in DOMAIN s /\ s[i] = n
  BY DEF ToSet
<1> HIDE DEF i
<1>3. n \in Node /\ n # HeadOf(c)
  BY <1>1, <1>2, CellAssumption DEF HeadOf
<1> USE DEF i
<1>4. NextOf(c, n) = IF i = Len(s) THEN HeadOf(c) ELSE s[i + 1]
  BY <1>3 DEF NextOf
<1> HIDE DEF i
<1>5. CASE i = Len(s)
  BY <1>4, <1>5
<1>6. CASE i # Len(s)
  <2>1. i + 1 \in DOMAIN s /\ s[i + 1] # s[i]
    BY <1>1, <1>2, <1>6 DEF IsInjective
  <2> QED  BY <1>2, <1>4, <1>6, <2>1 DEF ToSet
<1> QED  BY <1>5, <1>6

(* A walk that follows ->next stays on its path.                           *)
LEMMA NextOnPath ==
  ASSUME IInv, NEW h \in Hook, NEW c \in Chain, NEW x, OnPath(c, x, h)
  PROVE  OnPath(c, NextOf(c, x), h)
<1>1. chain[c] \in Seq(Node) /\ IsInjective(chain[c])
  BY DEF IInv, TypeOK, ChainInv
<1>2. ToSet(chain[c]) \subseteq Node /\ \A n \in ToSet(chain[c]) : ChainOf[rule[n].key] = c
  BY <1>1 DEF ToSet, IInv, ChainInv
<1>3. CASE x = HeadOf(c)
  <2>1. chain[c] # <<>> => chain[c][1] \in ToSet(chain[c])
    BY <1>1 DEF ToSet
  <2> QED  BY <1>2, <1>3, <2>1 DEF NextOf, OnPath
<1>4. CASE x \in ToSet(chain[c])
  BY <1>1, <1>2, <1>4, NextOnChain DEF OnPath, IInv
<1>5. CASE x # HeadOf(c) /\ x \notin ToSet(chain[c])
  <2>1. x \in Node /\ h \in sees[x] /\ ChainOf[rule[x].key] = c
    BY <1>5 DEF OnPath
  <2>2. OnPath(c, left[x], h)
    BY <2>1 DEF IInv, SeesInv
  <2>3. NextOf(c, x) = left[x]
    BY <1>5 DEF NextOf
  <2> QED  BY <2>2, <2>3
<1> QED  BY <1>3, <1>4, <1>5

-----------------------------------------------------------------------------
(* What the parts of IInv depend on.                                       *)

(* init_module() leaves empty lists and no walk.                           *)
LEMMA InitIInv == Init => IInv
<1> SUFFICES ASSUME Init PROVE IInv
  OBVIOUS
<1> USE DEF Init, Chain
<1>1. AnyRule \in FilterRule /\ AnyClient \in Client
  BY SomeAssumption DEF AnyRule, AnyClient, FilterRule, Switch, Policy
<1>2. TypeOK
  BY <1>1, SomeAssumption
     DEF TypeOK, Cell, Verdict, Step, Policy
<1>3. WalkInv /\ SeesInv /\ HashInv /\ StepInv
  BY DEF WalkInv, Walking, SeesInv, HashInv, StepInv
<1>4. ChainInv /\ FullInv
  BY DEF ChainInv, FullInv, IsInjective, ToSet
<1> QED  BY <1>2, <1>3, <1>4 DEF IInv

(* A step that leaves the store and the walks alone leaves the parts of    *)
(* the invariant alone that do not mention the handler.                    *)
LEMMA StoreFrame ==
  ASSUME IInv, UNCHANGED <<store, hook, waits, sees>>
  PROVE  WalkInv' /\ SeesInv' /\ ChainInv' /\ HashInv'
BY DEF IInv, WalkInv, SeesInv, ChainInv, HashInv, OnPath, HeadOf, Walking, store, lists

(* The elements of a list are objects.                                     *)
LEMMA ListedAreNodes ==
  ASSUME TypeOK
  PROVE  /\ ToSet(full) \subseteq Node
         /\ \A c \in Chain : chain[c] \in Seq(Node) /\ ToSet(chain[c]) \subseteq Node
<1>1. \A s \in Seq(Node) : ToSet(s) \subseteq Node
  BY DEF ToSet
<1> QED  BY <1>1 DEF TypeOK

(* list_del_rcu under the walks: the walks that stand on the object may go *)
(* on, and it leads them back to the chain.                                *)
LEMMA ChainDelKeeps ==
  ASSUME IInv, NEW c \in Chain, NEW i \in DOMAIN chain[c], ChainDel(c, i),
         UNCHANGED <<mem, rule, hashed, hook, waits>>
  PROVE  /\ left' \in [Node -> Cell]
         /\ chain' \in [Chain -> Seq(Node)]
         /\ sees' \in [Node -> SUBSET Hook]
         /\ ToSet(chain'[c]) = ToSet(chain[c]) \ {chain[c][i]}
         /\ \A d \in Chain \ {c} : chain'[d] = chain[d]
         /\ WalkInv' /\ SeesInv' /\ ChainInv'
<1> DEFINE n == chain[c][i]
<1>1. /\ chain[c] \in Seq(Node) /\ ToSet(chain[c]) \subseteq Node
      /\ IsInjective(chain[c]) /\ n \in ToSet(chain[c]) /\ n \in Node
  BY ListedAreNodes DEF IInv, ChainInv, ToSet
<1>2. /\ chain'[c] = RemoveAt(chain[c], i)
      /\ \A d \in Chain \ {c} : chain'[d] = chain[d]
      /\ chain' = [chain EXCEPT ![c] = RemoveAt(chain[c], i)]
      /\ left' = [left EXCEPT ![n] = NextOf(c, n)]
      /\ sees' = [sees EXCEPT ![n] = {h \in Hook : Walking(h)}]
  BY DEF ChainDel, IInv, TypeOK
<1>3. /\ RemoveAt(chain[c], i) \in Seq(Node)
      /\ IsInjective(chain'[c])
      /\ ToSet(chain'[c]) = ToSet(chain[c]) \ {n}
  BY <1>1, <1>2, RemoveAtInjective
<1>4. \/ NextOf(c, n) = HeadOf(c)
      \/ NextOf(c, n) \in ToSet(chain'[c])
  BY <1>1, <1>3, NextOnChain DEF IInv
<1> HIDE DEF n
<1>5. NextOf(c, n) \in Cell
  BY <1>1, <1>3, <1>4 DEF Cell, HeadOf
<1>6. left' \in [Node -> Cell] /\ chain' \in [Chain -> Seq(Node)] /\ sees' \in [Node -> SUBSET Hook]
  BY <1>1, <1>2, <1>3, <1>5 DEF IInv, TypeOK
<1>7. ChainInv'
  BY <1>2, <1>3 DEF IInv, ChainInv
<1>8. /\ mem[n] = "used" /\ ChainOf[rule[n].key] = c
      /\ \A d \in Chain \ {c} : n \notin ToSet(chain[d])
  BY <1>1 DEF IInv, ChainInv
<1> DEFINE StillOnPath(d, x, h) ==
             \/ x = HeadOf(d)
             \/ /\ x \in Node
                /\ ChainOf[rule[x].key] = d
                /\ x \in ToSet(chain'[d]) \/ h \in sees'[x]
<1>9. ASSUME NEW d \in Chain, NEW x, NEW h \in Hook, Walking(h), OnPath(d, x, h)
      PROVE  StillOnPath(d, x, h)
  <2>1. CASE x = n
    BY <1>1, <1>2, <1>9, <2>1 DEF OnPath, IInv, TypeOK
  <2>2. CASE x # n
    BY <1>1, <1>2, <1>3, <1>9, <2>2 DEF OnPath, IInv, TypeOK
  <2> QED  BY <2>1, <2>2
<1>10. \A h \in Hook : Walking(h)' <=> Walking(h)
  BY DEF Walking
<1>11. WalkInv'
  <2> SUFFICES ASSUME NEW h \in Hook, Walking(h)
               PROVE  StillOnPath(hook[h].chain, hook[h].cur, h)
    BY <1>10 DEF WalkInv, OnPath, HeadOf
  <2>1. hook[h].chain \in Chain /\ OnPath(hook[h].chain, hook[h].cur, h)
    BY DEF IInv, WalkInv, TypeOK
  <2> QED  BY <1>9, <2>1
<1>12. SeesInv'
  <2> SUFFICES ASSUME NEW m \in Node, NEW h \in sees'[m]
               PROVE  /\ h \in Hook /\ Walking(h)
                      /\ mem[m] # "free"
                      /\ mem[m] = "retired" => h \in waits[m]
                      /\ \A d \in Chain : m \notin ToSet(chain'[d])
                      /\ ChainOf[rule[m].key] \in Chain
                      /\ StillOnPath(ChainOf[rule[m].key], left'[m], h)
    BY <1>10 DEF SeesInv, OnPath, HeadOf
  <2>1. CASE m = n
    <3>1. h \in Hook /\ Walking(h)
      BY <1>1, <1>2, <2>1 DEF IInv, TypeOK
    <3>2. left'[n] = NextOf(c, n)
      BY <1>1, <1>2 DEF IInv, TypeOK
    <3>3. \A x \in ToSet(chain'[c]) : x \in Node /\ ChainOf[rule[x].key] = c
      BY <1>1, <1>3, <1>7 DEF ChainInv
    <3>4. StillOnPath(c, left'[n], h)
      BY <1>4, <3>2, <3>3
    <3> HIDE DEF StillOnPath
    <3>5. \A d \in Chain : n \notin ToSet(chain'[d])
      BY <1>2, <1>3, <1>8
    <3>6. mem[n] # "free" /\ mem[n] # "retired" /\ ChainOf[rule[n].key] = c
      BY <1>8
    <3> QED  BY <2>1, <3>1, <3>4, <3>5, <3>6
  <2>2. CASE m # n
    <3>1. h \in sees[m] /\ left'[m] = left[m] /\ h \in Hook
      BY <1>1, <1>2, <2>2 DEF IInv, TypeOK
    <3>2. /\ Walking(h)
          /\ mem[m] # "free"
          /\ mem[m] = "retired" => h \in waits[m]
          /\ \A d \in Chain : m \notin ToSet(chain[d])
          /\ ChainOf[rule[m].key] \in Chain
          /\ OnPath(ChainOf[rule[m].key], left[m], h)
      BY <3>1 DEF IInv, SeesInv
    <3>3. StillOnPath(ChainOf[rule[m].key], left'[m], h)
      BY <1>9, <3>1, <3>2
    <3>4. \A d \in Chain : m \notin ToSet(chain'[d])
      BY <1>2, <1>3, <3>2
    <3> HIDE DEF StillOnPath
    <3> QED  BY <3>1, <3>2, <3>3, <3>4
  <2> QED  BY <2>1, <2>2
<1> QED  BY <1>2, <1>3, <1>6, <1>7, <1>11, <1>12 DEF n

(* Steps under which the chains only grow, no object on a path changes its *)
(* chain and none that a walk may stand on is freed keep the walks safe.   *)
LEMMA PathsKept ==
  ASSUME IInv, UNCHANGED <<hook, sees, left>>,
         \A d \in Chain : ToSet(chain[d]) \subseteq ToSet(chain'[d]),
         \A n \in Node : n \in hashed \/ sees[n] # {} => rule'[n].key = rule[n].key,
         \A n \in Node : sees[n] # {} =>
           /\ mem'[n] # "free"
           /\ mem'[n] = "retired" => sees[n] \subseteq waits'[n]
           /\ \A d \in Chain : n \notin ToSet(chain'[d])
  PROVE  WalkInv' /\ SeesInv'
<1> DEFINE NextPath(d, x, h) ==
             \/ x = HeadOf(d)
             \/ /\ x \in Node
                /\ ChainOf[rule'[x].key] = d
                /\ x \in ToSet(chain'[d]) \/ h \in sees'[x]
<1>1. ASSUME NEW d \in Chain, NEW x, NEW h \in Hook, OnPath(d, x, h)
      PROVE  NextPath(d, x, h)
  <2>1. CASE x = HeadOf(d)
    BY <2>1
  <2>2. CASE x \in Node /\ ChainOf[rule[x].key] = d /\ x \in ToSet(chain[d])
    BY <2>2 DEF IInv, ChainInv
  <2>3. CASE x \in Node /\ ChainOf[rule[x].key] = d /\ h \in sees[x]
    BY <2>3
  <2> QED  BY <1>1, <2>1, <2>2, <2>3 DEF OnPath
<1>2. WalkInv'
  <2> SUFFICES ASSUME NEW h \in Hook, Walking(h)
               PROVE  NextPath(hook[h].chain, hook[h].cur, h)
    BY DEF WalkInv, OnPath, HeadOf, Walking
  <2>1. hook[h].chain \in Chain /\ OnPath(hook[h].chain, hook[h].cur, h)
    BY DEF IInv, WalkInv, TypeOK
  <2> QED  BY <1>1, <2>1
<1>3. SeesInv'
  <2> SUFFICES ASSUME NEW n \in Node, NEW h \in sees[n]
               PROVE  /\ Walking(h)
                      /\ mem'[n] # "free"
                      /\ mem'[n] = "retired" => h \in waits'[n]
                      /\ \A d \in Chain : n \notin ToSet(chain'[d])
                      /\ ChainOf[rule'[n].key] \in Chain
                      /\ NextPath(ChainOf[rule'[n].key], left[n], h)
    BY DEF SeesInv, OnPath, HeadOf, Walking
  <2>1. h \in Hook
    BY DEF IInv, TypeOK
  <2>2. /\ Walking(h)
        /\ ChainOf[rule[n].key] \in Chain
        /\ OnPath(ChainOf[rule[n].key], left[n], h)
    BY DEF IInv, SeesInv
  <2>3. NextPath(ChainOf[rule[n].key], left[n], h)
    BY <1>1, <2>1, <2>2
  <2> HIDE DEF NextPath
  <2> QED  BY <2>2, <2>3
<1> QED  BY <1>2, <1>3

-----------------------------------------------------------------------------
(* Every action keeps IInv.                                                *)

(* The first step of a message.                                            *)
LEMMA ReceiveKeeps ==
  ASSUME IInv, NEW c \in Client, NEW m \in Msg, Receive(c, m)
  PROVE  IInv'
<1> m.fr \in FilterRule /\ m.fr.key \in Key /\ m.fr.policy \in Policy
  BY MsgAssumption DEF FilterRule
<1> TypeOK
  BY DEF IInv
<1> USE DEF Receive, EnterAndLeave, Enter, Answer, Error
<1>1. UNCHANGED <<store, hook, waits, sees>> /\ at = "idle"
  BY DEF RcvAddPolicyRule, RcvAddExisting, RcvAddNew, RcvUpdate, RcvDelete, RcvMissing,
         RcvDeleteAll, RcvChainPolicy
<1>2. WalkInv' /\ SeesInv' /\ ChainInv' /\ HashInv'
  BY <1>1, StoreFrame
<1>3. /\ UNCHANGED filterOn /\ node' = node
      /\ caller' \in Client /\ fr' \in FilterRule
      /\ \/ at' = "idle"
         \/ at' = "add" /\ Found(fr'.key) = {}
         \/ at' \in {"updoff", "delin", "flushin"}
  BY DEF RcvAddPolicyRule, RcvAddExisting, RcvAddNew, RcvUpdate, RcvDelete, RcvMissing,
         RcvDeleteAll, RcvChainPolicy, TypeOK
<1>7. reply' \in [Client -> Error \cup {NoReply}]
  BY DEF RcvAddPolicyRule, RcvAddExisting, RcvAddNew, RcvUpdate, RcvDelete, RcvMissing,
         RcvDeleteAll, RcvChainPolicy, TypeOK
<1>8. chainPolicy' \in [Chain -> Verdict]
  <2>1. CASE RcvChainPolicy(c, m)
    BY <2>1 DEF RcvChainPolicy, TypeOK, ApplyPolicy, Verdict
  <2>2. CASE ~RcvChainPolicy(c, m)
    BY <2>2 DEF RcvAddPolicyRule, RcvAddExisting, RcvAddNew, RcvUpdate, RcvDelete, RcvMissing,
         RcvDeleteAll, TypeOK
  <2> QED  BY <2>1, <2>2
<1>4. TypeOK'
  BY <1>1, <1>3, <1>7, <1>8 DEF TypeOK, store, lists, Step
<1>5. FullInv'
  BY <1>1 DEF IInv, FullInv, store, lists
<1>6. StepInv'
  BY <1>1, <1>3 DEF StepInv, store, lists, Found
<1> QED  BY <1>2, <1>4, <1>5, <1>6 DEF IInv

(* add_rule() puts a new object on the full list and into the hash table:  *)
(* no walk can stand on it, and no other entry has its key.                *)
LEMMA AddRuleKeeps ==
  ASSUME IInv, NEW n \in Node, AddRule(n)
  PROVE  IInv'
<1> TypeOK
  BY DEF IInv
<1> USE DEF AddRule
<1>1. /\ full \in Seq(Node) /\ IsInjective(full) /\ n \notin ToSet(full) /\ n \notin hashed
      /\ \A c \in Chain : n \notin ToSet(chain[c])
      /\ sees[n] = {}
  BY DEF IInv, FullInv, HashInv, ChainInv, SeesInv, TypeOK
<1>2. /\ full' \in Seq(Node) /\ IsInjective(full') /\ ToSet(full') = ToSet(full) \cup {n}
  BY <1>1, AppendFresh
<1>3. TypeOK'
  BY <1>2 DEF TypeOK, Step
<1>4. WalkInv' /\ SeesInv'
  <2>1. \A m \in Node : m \in hashed \/ sees[m] # {} => m # n
    BY <1>1
  <2>2. \A m \in Node : sees[m] # {} =>
          /\ mem[m] # "free"
          /\ mem[m] = "retired" => sees[m] \subseteq waits[m]
          /\ \A d \in Chain : m \notin ToSet(chain[d])
    BY DEF IInv, SeesInv
  <2> QED  BY <2>1, <2>2, PathsKept DEF TypeOK
<1>7. ChainInv'
  BY <1>1, ListedAreNodes DEF IInv, ChainInv, TypeOK
<1>8. HashInv'
  BY <1>1 DEF IInv, HashInv, StepInv, Found, TypeOK
<1>9. FullInv'
  BY <1>1, <1>2, ListedAreNodes DEF IInv, FullInv, TypeOK
<1>10. StepInv'
  BY <1>1 DEF StepInv, TypeOK
<1> QED  BY <1>3, <1>4, <1>7, <1>8, <1>9, <1>10 DEF IInv

(* list_add_tail_rcu: the walks of the chain may now come to the object.   *)
LEMMA AddToChainKeeps ==
  ASSUME IInv, AddToChain
  PROVE  IInv'
<1> TypeOK
  BY DEF IInv
<1> DEFINE c == ChainOf[fr.key]
<1>1. /\ node \in hashed /\ rule[node] = fr /\ sees[node] = {} /\ mem[node] = "used"
      /\ \A d \in Chain : node \notin ToSet(chain[d])
      /\ node \in Node
  BY DEF IInv, StepInv, HashInv, AddToChain, TypeOK
<1>2. AnyRule \in FilterRule /\ AnyClient \in Client
  BY SomeAssumption DEF AnyRule, AnyClient, FilterRule, Switch, Policy
<1>3. /\ chain' \in [Chain -> Seq(Node)]
      /\ \A d \in Chain : /\ IsInjective(chain'[d])
                          /\ ToSet(chain'[d]) = ToSet(chain[d]) \cup (IF d = c THEN {node} ELSE {})
  <2>1. CASE c \in Chain
    <3>1. chain[c] \in Seq(Node) /\ IsInjective(chain[c])
      BY <2>1 DEF TypeOK, IInv, ChainInv
    <3>2. /\ Append(chain[c], node) \in Seq(Node)
          /\ IsInjective(Append(chain[c], node))
          /\ ToSet(Append(chain[c], node)) = ToSet(chain[c]) \cup {node}
      BY <1>1, <2>1, <3>1, AppendFresh
    <3>3. chain' = [chain EXCEPT ![c] = Append(chain[c], node)]
      BY <2>1 DEF AddToChain
    <3> QED  BY <2>1, <3>2, <3>3 DEF TypeOK, IInv, ChainInv
  <2>2. CASE c \notin Chain
    BY <2>2 DEF AddToChain, TypeOK, IInv, ChainInv
  <2> QED  BY <2>1, <2>2
<1>4. TypeOK'
  BY <1>2, <1>3 DEF AddToChain, Forget, TypeOK, Step
<1>5. WalkInv' /\ SeesInv'
  <2>1. \A n \in Node : sees[n] # {} =>
          /\ mem[n] # "free"
          /\ mem[n] = "retired" => sees[n] \subseteq waits[n]
          /\ \A d \in Chain : n \notin ToSet(chain'[d])
    BY <1>1, <1>3 DEF IInv, SeesInv
  <2> QED  BY <1>3, <2>1, PathsKept DEF AddToChain
<1>8. ChainInv'
  <2> SUFFICES ASSUME NEW d \in Chain, NEW n \in ToSet(chain'[d])
               PROVE  mem[n] = "used" /\ ChainOf[rule[n].key] = d /\ n \in hashed
    BY <1>3 DEF AddToChain, ChainInv
  <2> QED  BY <1>1, <1>3 DEF IInv, ChainInv
<1>9. HashInv' /\ FullInv' /\ StepInv'
  BY DEF AddToChain, IInv, HashInv, FullInv, StepInv
<1> QED  BY <1>4, <1>5, <1>8, <1>9 DEF IInv

(* An update in place changes no key.                                      *)
LEMMA UpdateKeeps ==
  ASSUME IInv, UpdateOff \/ UpdatePolicy
  PROVE  IInv'
<1> TypeOK
  BY DEF IInv
<1> USE DEF UpdateOff, UpdatePolicy, Goto, Leave, Answer, Forget, lists
<1>1. AnyRule \in FilterRule /\ AnyClient \in Client
  BY SomeAssumption DEF AnyRule, AnyClient, FilterRule, Switch, Policy
<1>2. /\ rule' \in [Node -> FilterRule]
      /\ \A n \in Node : rule'[n].key = rule[n].key
  <2>1. PICK n \in Node :
          \/ rule' = rule
          \/ rule' = [rule EXCEPT ![n].off = fr.off]
          \/ rule' = [rule EXCEPT ![n].policy = fr.policy]
    BY DEF TypeOK, Found
  <2>2. fr.off \in Switch /\ fr.policy \in Policy /\ rule[n] \in FilterRule
    BY DEF TypeOK, FilterRule
  <2>3. CASE rule' = rule
    BY <2>3 DEF TypeOK
  <2>4. CASE rule' = [rule EXCEPT ![n].off = fr.off]
    BY <2>2, <2>4 DEF TypeOK, FilterRule
  <2>5. CASE rule' = [rule EXCEPT ![n].policy = fr.policy]
    BY <2>2, <2>5 DEF TypeOK, FilterRule
  <2> QED  BY <2>1, <2>3, <2>4, <2>5
<1>3. TypeOK'
  BY <1>1, <1>2 DEF TypeOK, Step, Error
<1>4. WalkInv' /\ SeesInv'
  <2>1. \A n \in Node : sees[n] # {} =>
          /\ mem[n] # "free"
          /\ mem[n] = "retired" => sees[n] \subseteq waits[n]
          /\ \A d \in Chain : n \notin ToSet(chain[d])
    BY DEF IInv, SeesInv
  <2> QED  BY <1>2, <2>1, PathsKept
<1>5. ChainInv' /\ HashInv' /\ FullInv' /\ StepInv'
  <2>1. ChainInv'
    BY <1>2, ListedAreNodes DEF IInv, ChainInv, TypeOK
  <2>2. HashInv'
    BY <1>2, ListedAreNodes DEF IInv, HashInv, TypeOK
  <2>3. FullInv'
    BY <1>2, ListedAreNodes DEF IInv, FullInv, TypeOK
  <2>4. StepInv'
    BY <1>2, ListedAreNodes DEF IInv, StepInv, TypeOK
  <2> QED
    BY <2>1, <2>2, <2>3, <2>4
<1> QED  BY <1>3, <1>4, <1>5 DEF IInv

(* delete_rule() unlinks from a chain the only rule with the key.          *)
LEMMA DeleteFromChainKeeps ==
  ASSUME IInv, NEW c \in Chain, NEW here, NEW next,
         DeleteFromChain(c, here, next),
         \/ c = "INPUT" /\ here = "delin" /\ next = "delout"
         \/ c = "OUTPUT" /\ here = "delout" /\ next = "delhash"
  PROVE  IInv'
<1> TypeOK
  BY DEF IInv
<1>1. /\ at = here /\ at' = next
      /\ UNCHANGED <<mem, rule, full, hashed, chainPolicy, filterOn, caller, fr, node, reply, hook, waits>>
  BY DEF DeleteFromChain, Goto
<1>2. /\ left' \in [Node -> Cell]
      /\ chain' \in [Chain -> Seq(Node)]
      /\ sees' \in [Node -> SUBSET Hook]
      /\ \A d \in Chain \ {c} : chain'[d] = chain[d]
      /\ WalkInv' /\ SeesInv' /\ ChainInv'
      /\ Cleared(c)'
  <2>1. CASE \A i \in DOMAIN chain[c] : rule[chain[c][i]].key # fr.key
    <3>1. UNCHANGED <<chain, left, sees>>
      BY <2>1 DEF DeleteFromChain
    <3>2. WalkInv' /\ SeesInv' /\ ChainInv'
      BY <1>1, <3>1, StoreFrame DEF store, lists
    <3>3. Cleared(c)'
      BY <1>1, <2>1, <3>1 DEF Cleared, ToSet
    <3> QED  BY <3>1, <3>2, <3>3 DEF TypeOK
  <2>2. CASE \E i \in DOMAIN chain[c] : rule[chain[c][i]].key = fr.key
    <3>1. PICK i \in DOMAIN chain[c] : rule[chain[c][i]].key = fr.key /\ ChainDel(c, i)
      BY <2>2 DEF DeleteFromChain
    <3>2. /\ ToSet(chain'[c]) = ToSet(chain[c]) \ {chain[c][i]}
          /\ left' \in [Node -> Cell]
          /\ chain' \in [Chain -> Seq(Node)]
          /\ sees' \in [Node -> SUBSET Hook]
          /\ \A d \in Chain \ {c} : chain'[d] = chain[d]
          /\ WalkInv' /\ SeesInv' /\ ChainInv'
      BY <1>1, <3>1, ChainDelKeeps
    <3>3. chain[c][i] \in hashed /\ ToSet(chain[c]) \subseteq hashed
      BY <3>1 DEF IInv, ChainInv, ToSet
    <3>4. Cleared(c)'
      BY <1>1, <3>1, <3>2, <3>3 DEF Cleared, IInv, HashInv
    <3> QED  BY <3>2, <3>4
  <2> QED  BY <2>1, <2>2
<1>3. TypeOK'
  BY <1>1, <1>2 DEF TypeOK, Step
<1>4. HashInv' /\ FullInv'
  BY <1>1 DEF IInv, HashInv, FullInv
<1>5. StepInv'
  <2>1. CASE c = "INPUT"
    BY <1>1, <1>2, <2>1 DEF StepInv
  <2>2. CASE c = "OUTPUT"
    <3>1. Cleared("INPUT") /\ chain'["INPUT"] = chain["INPUT"]
      BY <1>1, <1>2, <2>2 DEF IInv, StepInv, Chain
    <3>2. Cleared("INPUT")'
      BY <1>1, <3>1 DEF Cleared
    <3> QED  BY <1>1, <1>2, <2>2, <3>2 DEF StepInv
  <2> QED  BY <2>1, <2>2 DEF Chain
<1> QED  BY <1>2, <1>3, <1>4, <1>5 DEF IInv

(* hash_table_del_key_safe() on a key that no chain holds any more.        *)
LEMMA DeleteFromHashKeeps ==
  ASSUME IInv, DeleteFromHash
  PROVE  IInv'
<1> TypeOK
  BY DEF IInv
<1>1. /\ at = "delhash" /\ at' = "delfull"
      /\ UNCHANGED <<mem, rule, full, chain, left, chainPolicy, filterOn, caller, fr, node,
                     reply, hook, waits, sees>>
  BY DEF DeleteFromHash, Goto
<1>2. hashed' = hashed \ Found(fr.key)
  BY DEF DeleteFromHash, HashDel, Found, IInv, HashInv
<1>3. TypeOK'
  BY <1>1, <1>2 DEF TypeOK, Step
<1>4. WalkInv' /\ SeesInv'
  BY <1>1, PathsKept DEF IInv, SeesInv
<1>5. ChainInv'
  BY <1>1, <1>2 DEF IInv, ChainInv, StepInv, Cleared, Found, Chain
<1>6. HashInv' /\ FullInv'
  BY <1>1, <1>2 DEF IInv, HashInv, FullInv, Found
<1>7. StepInv'
  BY <1>1, <1>2 DEF IInv, StepInv, Cleared, Found
<1> QED  BY <1>3, <1>4, <1>5, <1>6, <1>7 DEF IInv

(* A rule that is on no chain and not hashed is retired.                   *)
LEMMA CallRcuKeeps ==
  ASSUME IInv, NEW n \in Node, CallRcu(n), n \notin hashed',
         hashed' \subseteq hashed,
         \A c \in Chain : ToSet(chain[c]) \subseteq hashed',
         UNCHANGED <<rule, chain, left, hook, sees>>
  PROVE  /\ mem' \in [Node -> {"free", "used", "retired"}]
         /\ waits' \in [Node -> SUBSET Hook]
         /\ WalkInv' /\ SeesInv' /\ ChainInv' /\ HashInv'
<1> TypeOK
  BY DEF IInv
<1>1. /\ mem' = [mem EXCEPT ![n] = "retired"]
      /\ waits' = [waits EXCEPT ![n] = {h \in Hook : Walking(h)}]
  BY DEF CallRcu
<1>2. mem' \in [Node -> {"free", "used", "retired"}] /\ waits' \in [Node -> SUBSET Hook]
  BY <1>1 DEF TypeOK
<1>3. \A m \in Node : sees[m] # {} =>
        /\ mem'[m] # "free"
        /\ mem'[m] = "retired" => sees[m] \subseteq waits'[m]
        /\ \A d \in Chain : m \notin ToSet(chain[d])
  BY <1>1 DEF IInv, SeesInv, TypeOK
<1>4. WalkInv' /\ SeesInv'
  BY <1>3, PathsKept
<1>5. ChainInv' /\ HashInv'
  BY <1>1 DEF IInv, ChainInv, HashInv, TypeOK
<1> QED  BY <1>2, <1>4, <1>5

(* delete_rule() retires the object it has unlinked everywhere else.       *)
LEMMA DeleteFromFullKeeps ==
  ASSUME IInv, DeleteFromFull
  PROVE  IInv'
<1> TypeOK
  BY DEF IInv
<1>1. PICK i \in DOMAIN full : /\ rule[full[i]].key = fr.key
                               /\ full' = RemoveAt(full, i)
                               /\ CallRcu(full[i])
  BY DEF DeleteFromFull
<1> DEFINE n == full[i]
<1>2. /\ full \in Seq(Node) /\ IsInjective(full) /\ n \in ToSet(full) /\ n \in Node
  BY ListedAreNodes DEF IInv, FullInv, TypeOK, ToSet
<1>3. full' \in Seq(Node) /\ IsInjective(full') /\ ToSet(full') = ToSet(full) \ {n}
  BY <1>1, <1>2, RemoveAtInjective
<1>4. /\ at = "delfull" /\ n \notin hashed
      /\ UNCHANGED <<rule, chain, left, hashed, chainPolicy, filterOn, handler, hook, sees>>
  BY <1>1 DEF DeleteFromFull, IInv, StepInv, Found
<1>5. rule[n].key = fr.key /\ CallRcu(n)
  BY <1>1
<1> HIDE DEF n
<1>6. /\ mem' \in [Node -> {"free", "used", "retired"}]
      /\ waits' \in [Node -> SUBSET Hook]
      /\ WalkInv' /\ SeesInv' /\ ChainInv' /\ HashInv'
  BY <1>2, <1>4, <1>5, CallRcuKeeps DEF IInv, ChainInv
<1>7. TypeOK'
  BY <1>3, <1>4, <1>6 DEF TypeOK, handler
<1>8. FullInv'
  BY <1>2, <1>3, <1>4, <1>5, ListedAreNodes DEF IInv, FullInv, CallRcu, TypeOK, handler
<1>9. StepInv'
  BY <1>4 DEF IInv, StepInv, Cleared, Found, handler
<1> QED  BY <1>6, <1>7, <1>8, <1>9 DEF IInv

(* The last step of a delete or of a flush.                                *)
LEMMA LeaveKeeps ==
  ASSUME IInv, DeleteDone \/ FlushDone
  PROVE  IInv'
<1> TypeOK
  BY DEF IInv
<1> USE DEF DeleteDone, FlushDone, Leave, Answer, Forget
<1>1. AnyRule \in FilterRule /\ AnyClient \in Client
  BY SomeAssumption DEF AnyRule, AnyClient, FilterRule, Switch, Policy
<1>2. WalkInv' /\ SeesInv' /\ ChainInv' /\ HashInv'
  BY StoreFrame
<1>3. TypeOK'
  BY <1>1 DEF TypeOK, store, lists, Step, Error
<1>4. FullInv' /\ StepInv'
  BY DEF IInv, FullInv, StepInv, store, lists, ToSet
<1> QED  BY <1>2, <1>3, <1>4 DEF IInv

(* delete_rules() empties one chain after the other.                       *)
LEMMA FlushChainKeeps ==
  ASSUME IInv, NEW c \in Chain, NEW here, NEW next,
         FlushChain(c, here, next),
         \/ c = "INPUT" /\ here = "flushin" /\ next = "flushout"
         \/ c = "OUTPUT" /\ here = "flushout" /\ next = "flushfull"
  PROVE  IInv'
<1> TypeOK
  BY DEF IInv
<1>1. /\ at = here
      /\ UNCHANGED <<mem, rule, full, hashed, chainPolicy, filterOn, caller, fr, node, reply, hook, waits>>
  BY DEF FlushChain, Goto, handler
<1>2. CASE chain[c] = <<>>
  <2>1. at' = next /\ UNCHANGED <<chain, left, sees>>
    BY <1>2 DEF FlushChain, Goto
  <2>2. WalkInv' /\ SeesInv' /\ ChainInv' /\ HashInv'
    BY <1>1, <2>1, StoreFrame DEF store, lists
  <2>3. TypeOK' /\ FullInv'
    BY <1>1, <2>1 DEF IInv, TypeOK, Step, FullInv
  <2>4. StepInv'
    BY <1>1, <1>2, <2>1 DEF IInv, StepInv
  <2> QED  BY <2>2, <2>3, <2>4 DEF IInv
<1>3. CASE chain[c] # <<>>
  <2>1. at' = at /\ ChainDel(c, 1) /\ 1 \in DOMAIN chain[c]
    BY <1>3 DEF FlushChain, handler, TypeOK
  <2>2. /\ left' \in [Node -> Cell]
        /\ chain' \in [Chain -> Seq(Node)]
        /\ sees' \in [Node -> SUBSET Hook]
        /\ \A d \in Chain \ {c} : chain'[d] = chain[d]
        /\ WalkInv' /\ SeesInv' /\ ChainInv'
    BY <1>1, <2>1, ChainDelKeeps
  <2>3. TypeOK' /\ HashInv' /\ FullInv'
    BY <1>1, <2>1, <2>2 DEF IInv, TypeOK, HashInv, FullInv
  <2>4. StepInv'
    BY <1>1, <2>1, <2>2 DEF IInv, StepInv, Chain
  <2> QED  BY <2>2, <2>3, <2>4 DEF IInv
<1> QED  BY <1>2, <1>3

(* delete_rules() retires the rules once both chains are empty.            *)
LEMMA FlushFullKeeps ==
  ASSUME IInv, FlushFull
  PROVE  IInv'
<1> TypeOK
  BY DEF IInv
<1> DEFINE n == full[1]
<1>1. /\ full' = Tail(full) /\ CallRcu(n) /\ full # <<>> /\ at = "flushfull"
      /\ UNCHANGED <<rule, chain, left, chainPolicy, filterOn, handler, hook, sees>>
  BY DEF FlushFull
<1>2. full \in Seq(Node) /\ IsInjective(full)
  BY DEF IInv, FullInv, TypeOK
<1>3. /\ full' \in Seq(Node) /\ n \in Node /\ n \in ToSet(full)
      /\ IsInjective(full') /\ ToSet(full') = ToSet(full) \ {n}
  BY <1>1, <1>2, TailInjective
<1>4. n \in hashed
  BY <1>1, <1>3 DEF IInv, FullInv
<1>5. HashDel(rule[n].key)
  BY DEF FlushFull
<1> HIDE DEF n
<1>6. hashed' = hashed \ {n}
  BY <1>4, <1>5 DEF HashDel, Found, IInv, HashInv
<1>7. \A c \in Chain : ToSet(chain[c]) = {}
  BY <1>1 DEF IInv, StepInv, Chain, ToSet
<1>8. /\ mem' \in [Node -> {"free", "used", "retired"}]
      /\ waits' \in [Node -> SUBSET Hook]
      /\ WalkInv' /\ SeesInv' /\ ChainInv' /\ HashInv'
  BY <1>1, <1>3, <1>6, <1>7, CallRcuKeeps
<1>9. TypeOK'
  BY <1>1, <1>3, <1>6, <1>8 DEF TypeOK, handler
<1>10. FullInv'
  BY <1>1, <1>3, <1>6, ListedAreNodes DEF IInv, FullInv, CallRcu, TypeOK, handler
<1>11. StepInv'
  BY <1>1 DEF IInv, StepInv, handler
<1> QED  BY <1>8, <1>9, <1>10, <1>11 DEF IInv

(* A hook that moves, within its section or into a new one.                *)
LEMMA HookMoveKeeps ==
  ASSUME IInv, NEW h \in Hook, NEW e,
         hook' = [hook EXCEPT ![h] = e],
         e \in [at : {"idle", "next", "compare", "default", "done"},
                chain : Chain, packet : Packet, cur : Cell,
                policy : Policy, verdict : Verdict],
         e.at \in {"next", "compare"} => OnPath(e.chain, e.cur, h),
         Walking(h) => e.at \in {"next", "compare"},
         UNCHANGED <<store, chainPolicy, filterOn, handler, waits, sees>>
  PROVE  IInv'
<1> TypeOK
  BY DEF IInv
<1>1. TypeOK'
  BY DEF TypeOK, store, lists, handler
<1>2. hook'[h] = e /\ \A g \in Hook \ {h} : hook'[g] = hook[g]
  BY DEF TypeOK
<1>3. WalkInv'
  <2> SUFFICES ASSUME NEW g \in Hook, Walking(g)'
               PROVE  OnPath(hook'[g].chain, hook'[g].cur, g)
    BY DEF WalkInv, OnPath, HeadOf, store, lists
  <2>1. CASE g = h
    BY <1>2, <2>1 DEF Walking
  <2>2. CASE g # h
    <3>1. hook'[g] = hook[g]
      BY <1>2, <2>2
    <3>2. Walking(g)
      BY <3>1 DEF Walking
    <3> QED  BY <3>1, <3>2 DEF IInv, WalkInv
  <2> QED  BY <2>1, <2>2
<1>4. SeesInv'
  <2>1. \A g \in Hook : Walking(g) => Walking(g)'
    BY <1>2 DEF Walking
  <2> QED  BY <2>1 DEF IInv, SeesInv, OnPath, HeadOf, store, lists, TypeOK
<1>5. ChainInv' /\ HashInv' /\ FullInv' /\ StepInv'
  BY DEF IInv, ChainInv, HashInv, FullInv, StepInv, Cleared, Found, store, lists, handler
<1> QED  BY <1>1, <1>3, <1>4, <1>5 DEF IInv

(* A hook whose read-side section ends.                                    *)
LEMMA HookLeaveKeeps ==
  ASSUME IInv, NEW h \in Hook, NEW e,
         hook' = [hook EXCEPT ![h] = e],
         e \in [at : {"idle", "next", "compare", "default", "done"},
                chain : Chain, packet : Packet, cur : Cell,
                policy : Policy, verdict : Verdict],
         e.at \notin {"next", "compare"},
         SectionEnds(h),
         UNCHANGED <<store, chainPolicy, filterOn, handler>>
  PROVE  IInv'
<1> TypeOK
  BY DEF IInv
<1>1. /\ waits' = [n \in Node |-> waits[n] \ {h}]
      /\ sees' = [n \in Node |-> sees[n] \ {h}]
  BY DEF SectionEnds
<1>2. TypeOK'
  BY <1>1 DEF TypeOK, store, lists, handler
<1>3. hook'[h] = e /\ \A g \in Hook \ {h} : hook'[g] = hook[g]
  BY DEF TypeOK
<1>4. \A g \in Hook : Walking(g)' <=> Walking(g) /\ g # h
  BY <1>3 DEF Walking
<1> DEFINE NextPath(d, x, g) ==
             \/ x = HeadOf(d)
             \/ /\ x \in Node
                /\ ChainOf[rule[x].key] = d
                /\ x \in ToSet(chain[d]) \/ g \in sees'[x]
<1>5. \A d, x : \A g \in Hook \ {h} : OnPath(d, x, g) => NextPath(d, x, g)
  BY <1>1 DEF OnPath
<1>6. WalkInv'
  <2> SUFFICES ASSUME NEW g \in Hook, Walking(g), g # h
               PROVE  NextPath(hook'[g].chain, hook'[g].cur, g)
    BY <1>4 DEF WalkInv, OnPath, HeadOf, store, lists
  <2>1. hook'[g] = hook[g]
    BY <1>3
  <2> QED  BY <1>5, <2>1 DEF IInv, WalkInv
<1>7. SeesInv'
  <2> SUFFICES ASSUME NEW n \in Node, NEW g \in sees'[n]
               PROVE  /\ g \in Hook /\ g # h /\ Walking(g)
                      /\ mem[n] # "free"
                      /\ mem[n] = "retired" => g \in waits'[n]
                      /\ \A d \in Chain : n \notin ToSet(chain[d])
                      /\ ChainOf[rule[n].key] \in Chain
                      /\ NextPath(ChainOf[rule[n].key], left[n], g)
    BY <1>4 DEF SeesInv, OnPath, HeadOf, store, lists
  <2>1. g \in sees[n] /\ g \in Hook /\ g # h
    BY <1>1 DEF TypeOK
  <2>2. /\ Walking(g)
        /\ mem[n] # "free"
        /\ mem[n] = "retired" => g \in waits[n]
        /\ \A d \in Chain : n \notin ToSet(chain[d])
        /\ ChainOf[rule[n].key] \in Chain
        /\ OnPath(ChainOf[rule[n].key], left[n], g)
    BY <2>1 DEF IInv, SeesInv
  <2>3. NextPath(ChainOf[rule[n].key], left[n], g)
    BY <1>5, <2>1, <2>2
  <2>4. g \in waits[n] => g \in waits'[n]
    BY <1>1, <2>1
  <2> HIDE DEF NextPath
  <2> QED  BY <2>1, <2>2, <2>3, <2>4
<1>8. ChainInv' /\ HashInv' /\ FullInv'
  BY DEF IInv, ChainInv, HashInv, FullInv, store, lists, handler
<1>9. StepInv'
  <2>1. at = "addchain" => node \in Node
    BY DEF IInv, StepInv, TypeOK
  <2> QED  BY <1>1, <2>1 DEF IInv, StepInv, Cleared, Found, store, lists, handler
<1> QED  BY <1>2, <1>6, <1>7, <1>8, <1>9 DEF IInv

(* hook_func: each of its steps stays on the path of its walk.             *)
LEMMA FilterKeeps ==
  ASSUME IInv, NEW h \in Hook, Filter(h)
  PROVE  IInv'
<1> TypeOK
  BY DEF IInv
<1> DEFINE c == hook[h].chain
<1>1. /\ hook \in [Hook -> [at : {"idle", "next", "compare", "default", "done"},
                            chain : Chain, packet : Packet, cur : Cell,
                            policy : Policy, verdict : Verdict]]
      /\ c \in Chain /\ HeadOf(c) \in Cell
  BY DEF TypeOK, HeadOf, Cell
<1>2. CASE HookNext(h)
  <2> DEFINE n == NextOf(c, hook[h].cur)
             e == [hook[h] EXCEPT !.at = "compare", !.cur = n, !.policy = rule[n].policy]
  <2>1. OnPath(c, n, h) /\ n # HeadOf(c)
    BY <1>1, <1>2, NextOnPath DEF HookNext, IInv, WalkInv, Walking
  <2>2. n \in Node /\ n \in Cell /\ rule[n].policy \in Policy
    BY <2>1 DEF OnPath, Cell, TypeOK, FilterRule
  <2>3. hook' = [hook EXCEPT ![h] = e]
    BY <1>2 DEF HookNext
  <2> HIDE DEF n
  <2>4. /\ e \in [at : {"idle", "next", "compare", "default", "done"},
                  chain : Chain, packet : Packet, cur : Cell,
                  policy : Policy, verdict : Verdict]
        /\ e.at = "compare" /\ e.cur = n /\ e.chain = c
    BY <1>1, <2>2
  <2>5. UNCHANGED <<store, chainPolicy, filterOn, handler, waits, sees>>
    BY <1>2 DEF HookNext
  <2> HIDE DEF e
  <2> QED  BY <2>1, <2>3, <2>4, <2>5, HookMoveKeeps
<1>3. CASE HookMatch(h)
  <2> DEFINE e == [hook[h] EXCEPT !.at = "done", !.cur = HeadOf(c),
                                  !.verdict = ApplyPolicy(hook[h].policy)]
  <2>1. hook' = [hook EXCEPT ![h] = e]
    BY <1>3 DEF HookMatch
  <2>2. /\ e \in [at : {"idle", "next", "compare", "default", "done"},
                  chain : Chain, packet : Packet, cur : Cell,
                  policy : Policy, verdict : Verdict]
        /\ e.at = "done"
    BY <1>1 DEF ApplyPolicy, Verdict
  <2> HIDE DEF e
  <2> QED  BY <1>3, <2>1, <2>2, HookLeaveKeeps DEF HookMatch
<1>4. CASE HookSkip(h)
  <2> DEFINE e == [hook[h] EXCEPT !.at = "next"]
  <2>1. hook' = [hook EXCEPT ![h] = e] /\ Walking(h)
    BY <1>4 DEF HookSkip, Walking
  <2>2. /\ e \in [at : {"idle", "next", "compare", "default", "done"},
                  chain : Chain, packet : Packet, cur : Cell,
                  policy : Policy, verdict : Verdict]
        /\ e.at = "next" /\ e.cur = hook[h].cur /\ e.chain = c
    BY <1>1
  <2>3. OnPath(c, hook[h].cur, h)
    BY <2>1 DEF IInv, WalkInv
  <2> HIDE DEF e
  <2> QED  BY <1>4, <2>1, <2>2, <2>3, HookMoveKeeps DEF HookSkip
<1>5. CASE HookEnd(h)
  <2> DEFINE e == [hook[h] EXCEPT !.at = "default", !.cur = HeadOf(c)]
  <2>1. hook' = [hook EXCEPT ![h] = e]
    BY <1>5 DEF HookEnd
  <2>2. /\ e \in [at : {"idle", "next", "compare", "default", "done"},
                  chain : Chain, packet : Packet, cur : Cell,
                  policy : Policy, verdict : Verdict]
        /\ e.at = "default"
    BY <1>1
  <2> HIDE DEF e
  <2> QED  BY <1>5, <2>1, <2>2, HookLeaveKeeps DEF HookEnd
<1>6. CASE HookDefault(h)
  <2> DEFINE e == [hook[h] EXCEPT !.at = "done", !.verdict = chainPolicy[c]]
  <2>1. hook' = [hook EXCEPT ![h] = e] /\ ~Walking(h)
    BY <1>6 DEF HookDefault, Walking
  <2>2. /\ e \in [at : {"idle", "next", "compare", "default", "done"},
                  chain : Chain, packet : Packet, cur : Cell,
                  policy : Policy, verdict : Verdict]
        /\ e.at = "done"
    BY <1>1 DEF TypeOK
  <2> HIDE DEF e
  <2> QED  BY <1>6, <2>1, <2>2, HookMoveKeeps DEF HookDefault
<1> QED  BY <1>2, <1>3, <1>4, <1>5, <1>6 DEF Filter

(* A packet enters hook_func: its walk begins at the head.                 *)
LEMMA HookBeginKeeps ==
  ASSUME IInv, NEW h \in Hook, NEW c \in Chain, NEW p \in Packet, HookBegin(h, c, p)
  PROVE  IInv'
<1> DEFINE e == [at |-> IF filterOn THEN "next" ELSE "done", chain |-> c, packet |-> p,
                 cur |-> HeadOf(c), policy |-> "NONE", verdict |-> "ACCEPT"]
<1>1. hook' = [hook EXCEPT ![h] = e] /\ ~Walking(h)
  BY DEF HookBegin, Walking
<1>2. /\ e \in [at : {"idle", "next", "compare", "default", "done"},
                chain : Chain, packet : Packet, cur : Cell,
                policy : Policy, verdict : Verdict]
      /\ OnPath(e.chain, e.cur, h)
  BY DEF HeadOf, Cell, Policy, Verdict, OnPath
<1> HIDE DEF e
<1> QED  BY <1>1, <1>2, HookMoveKeeps DEF HookBegin

(* free_rule(): no walk can come to the object any more.                   *)
LEMMA FreeRuleKeeps ==
  ASSUME IInv, NEW n \in Node, FreeRule(n)
  PROVE  IInv'
<1> TypeOK
  BY DEF IInv
<1> USE DEF FreeRule
<1>1. AnyRule \in FilterRule
  BY SomeAssumption DEF AnyRule, FilterRule, Switch, Policy
<1>2. TypeOK'
  BY <1>1 DEF TypeOK, Cell, handler
<1>3. /\ sees[n] = {} /\ n \notin hashed /\ n \notin ToSet(full)
      /\ \A c \in Chain : n \notin ToSet(chain[c])
  BY DEF IInv, SeesInv, HashInv, FullInv, ChainInv
<1> DEFINE NextPath(d, x, g) ==
             \/ x = HeadOf(d)
             \/ /\ x \in Node
                /\ ChainOf[rule'[x].key] = d
                /\ x \in ToSet(chain[d]) \/ g \in sees[x]
<1>4. ASSUME NEW d \in Chain, NEW x, NEW g \in Hook, OnPath(d, x, g)
      PROVE  NextPath(d, x, g)
  BY <1>3, <1>4 DEF OnPath, TypeOK
<1>5. WalkInv'
  <2> SUFFICES ASSUME NEW g \in Hook, Walking(g)
               PROVE  NextPath(hook[g].chain, hook[g].cur, g)
    BY DEF WalkInv, Walking, OnPath, HeadOf
  <2>1. hook[g].chain \in Chain /\ OnPath(hook[g].chain, hook[g].cur, g)
    BY DEF IInv, WalkInv, TypeOK
  <2> QED  BY <1>4, <2>1
<1>6. SeesInv'
  <2> SUFFICES ASSUME NEW m \in Node, NEW g \in sees[m]
               PROVE  /\ Walking(g)
                      /\ mem'[m] # "free"
                      /\ mem'[m] = "retired" => g \in waits[m]
                      /\ \A d \in Chain : m \notin ToSet(chain[d])
                      /\ ChainOf[rule'[m].key] \in Chain
                      /\ NextPath(ChainOf[rule'[m].key], left'[m], g)
    BY DEF SeesInv, Walking, OnPath, HeadOf
  <2>1. m # n /\ g \in Hook
    BY <1>3 DEF TypeOK
  <2>2. mem'[m] = mem[m] /\ rule'[m] = rule[m] /\ left'[m] = left[m]
    BY <2>1 DEF TypeOK
  <2>3. /\ Walking(g)
        /\ mem[m] # "free"
        /\ mem[m] = "retired" => g \in waits[m]
        /\ \A d \in Chain : m \notin ToSet(chain[d])
        /\ ChainOf[rule[m].key] \in Chain
        /\ OnPath(ChainOf[rule[m].key], left[m], g)
    BY DEF IInv, SeesInv
  <2>4. NextPath(ChainOf[rule[m].key], left[m], g)
    BY <1>4, <2>1, <2>3
  <2> HIDE DEF NextPath
  <2> QED  BY <2>2, <2>3, <2>4
<1>7. ChainInv' /\ HashInv' /\ FullInv'
  BY <1>3, ListedAreNodes DEF IInv, ChainInv, HashInv, FullInv, TypeOK, handler
<1>8. StepInv'
  BY <1>3, ListedAreNodes DEF IInv, StepInv, Cleared, Found, TypeOK, handler, Chain
<1> QED  BY <1>2, <1>5, <1>6, <1>7, <1>8 DEF IInv

(* Steps that touch no variable of the store, and stuttering.              *)
LEMMA OtherKeeps ==
  ASSUME IInv, SkbWrite \/ UNCHANGED vars
  PROVE  IInv'
<1>1. UNCHANGED <<store, chainPolicy, handler, hook, waits, sees>> /\ filterOn' \in BOOLEAN
  BY DEF SkbWrite, vars, IInv, TypeOK
<1>2. WalkInv' /\ SeesInv' /\ ChainInv' /\ HashInv'
  BY <1>1, StoreFrame
<1>3. TypeOK' /\ FullInv' /\ StepInv'
  BY <1>1 DEF IInv, TypeOK, FullInv, StepInv, Cleared, Found, store, lists, handler
<1> QED  BY <1>2, <1>3 DEF IInv

(* Every step of the module keeps the invariant.                           *)
LEMMA NextIInv == IInv /\ [Next]_vars => IInv'
<1> SUFFICES ASSUME IInv, [Next]_vars PROVE IInv'
  OBVIOUS
<1>1. ASSUME NEW c \in Client, NEW m \in Msg, Receive(c, m) PROVE IInv'
  BY <1>1, ReceiveKeeps
<1>2. CASE Handle
  <2>1. ASSUME NEW n \in Node, AddRule(n) PROVE IInv'
    BY <2>1, AddRuleKeeps
  <2>2. CASE AddToChain
    BY <2>2, AddToChainKeeps
  <2>3. CASE UpdateOff \/ UpdatePolicy
    BY <2>3, UpdateKeeps
  <2>4. CASE DeleteFromIn
    BY <2>4, DeleteFromChainKeeps DEF DeleteFromIn, Chain
  <2>5. CASE DeleteFromOut
    BY <2>5, DeleteFromChainKeeps DEF DeleteFromOut, Chain
  <2>6. CASE DeleteFromHash
    BY <2>6, DeleteFromHashKeeps
  <2>7. CASE DeleteFromFull
    BY <2>7, DeleteFromFullKeeps
  <2>8. CASE DeleteDone \/ FlushDone
    BY <2>8, LeaveKeeps
  <2>9. CASE FlushIn
    BY <2>9, FlushChainKeeps DEF FlushIn, Chain
  <2>10. CASE FlushOut
    BY <2>10, FlushChainKeeps DEF FlushOut, Chain
  <2>11. CASE FlushFull
    BY <2>11, FlushFullKeeps
  <2> QED  BY <1>2, <2>1, <2>2, <2>3, <2>4, <2>5, <2>6, <2>7, <2>8, <2>9, <2>10, <2>11 DEF Handle
<1>3. ASSUME NEW h \in Hook, Filter(h) PROVE IInv'
  BY <1>3, FilterKeeps
<1>4. ASSUME NEW h \in Hook, NEW c \in Chain, NEW p \in Packet, HookBegin(h, c, p) PROVE IInv'
  BY <1>4, HookBeginKeeps
<1>5. ASSUME NEW n \in Node, FreeRule(n) PROVE IInv'
  BY <1>5, FreeRuleKeeps
<1>6. CASE SkbWrite \/ UNCHANGED vars
  BY <1>6, OtherKeeps
<1> QED  BY <1>1, <1>2, <1>3, <1>4, <1>5, <1>6 DEF Next

(* The lists, the handler's steps and the walks fit together at every      *)
(* moment of every execution of the module, for any number of rule         *)
(* objects, keys, processors and clients.                                  *)
THEOREM InvariantHolds == Spec => []IInv
BY InitIInv, NextIInv, PTL DEF Spec

(* Every variable keeps to its values.                                     *)
THEOREM TypeCorrect == Spec => []TypeOK
<1>1. IInv => TypeOK
  BY DEF IInv
<1> QED  BY <1>1, InvariantHolds, PTL

(* No hook stands on a rule that kfree has taken: what list_del_rcu,       *)
(* call_rcu and rcu_read_lock are there for in delete_rule and hook_func.  *)
THEOREM WalksAreSafe == Spec => []HookOnLiveRule
<1>1. IInv => HookOnLiveRule
  BY DEF IInv, WalkInv, SeesInv, ChainInv, OnPath, HookOnLiveRule, TypeOK
<1> QED  BY <1>1, InvariantHolds, PTL

(* No hook crosses to the other chain's rules, or misses its own head.     *)
THEOREM WalksKeepTheirChain == Spec => []HookOnItsChain
<1>1. IInv => HookOnItsChain
  BY CellAssumption DEF IInv, WalkInv, OnPath, HookOnItsChain, HeadOf
<1> QED  BY <1>1, InvariantHolds, PTL

-----------------------------------------------------------------------------
(* Between two messages the three indexes agree, and an answer is true.    *)


\* The rules that may be hashed and not on their chain: one that is being added, one that
\* is being deleted, and all of them in a flush.
Between(n) ==
  \/ at = "addchain" /\ n = node
  \/ at \in {"delout", "delhash"} /\ rule[n].key = fr.key
  \/ at \in {"flushin", "flushout", "flushfull"}

UsedInv == \A n \in Node : mem[n] = "used" => n \in ToSet(full)
ChainedInv ==
  \A n \in hashed : ChainOf[rule[n].key] \in Chain =>
    n \in ToSet(chain[ChainOf[rule[n].key]]) \/ Between(n)
OrderInv == \A c \in Chain : \A n, m \in Node : Precedes(chain[c], n, m) => Precedes(full, n, m)
AnswerInv ==
  /\ at \in {"add", "addchain"} => reply[caller] = "OK"
  /\ at = "addchain" => Len(full) \in DOMAIN full /\ full[Len(full)] = node
  /\ at = "updpolicy" => \A n \in Found(fr.key) : fr.off \in {rule[n].off, "NONE"}

\* What IInv leaves open: nothing that is in use is forgotten, the order, and the answers.
StoreInv == UsedInv /\ ChainedInv /\ OrderInv /\ AnswerInv
-----------------------------------------------------------------------------
(* Lists.                                                                    *)

LEMMA PrecedesAppend ==
  ASSUME NEW s \in Seq(Node), NEW e, NEW x, NEW y
  PROVE  /\ Precedes(s, x, y) => Precedes(Append(s, e), x, y)
         /\ Precedes(Append(s, e), x, y) => Precedes(s, x, y) \/ (x \in ToSet(s) /\ y = e)
<1>1. \A i \in DOMAIN s : i \in DOMAIN Append(s, e) /\ Append(s, e)[i] = s[i]
  OBVIOUS
<1>2. \A i \in DOMAIN Append(s, e) : i \in DOMAIN s \/ (i = Len(s) + 1 /\ Append(s, e)[i] = e)
  OBVIOUS
<1>3. \A i, j \in DOMAIN Append(s, e) : i < j => i \in DOMAIN s
  OBVIOUS
<1> QED
  BY <1>1, <1>2, <1>3 DEF Precedes, ToSet

LEMMA PrecedesRemoveAt ==
  ASSUME NEW s \in Seq(Node), NEW i \in DOMAIN s, NEW x, NEW y
  PROVE  /\ Precedes(RemoveAt(s, i), x, y) => Precedes(s, x, y)
         /\ Precedes(s, x, y) /\ x # s[i] /\ y # s[i] => Precedes(RemoveAt(s, i), x, y)
<1> DEFINE t == RemoveAt(s, i)
<1>1. /\ t \in Seq(Node) /\ Len(t) = Len(s) - 1
      /\ \A j \in DOMAIN t : t[j] = IF j < i THEN s[j] ELSE s[j + 1]
  BY RemoveAtElements
<1>2. Len(s) \in Nat /\ DOMAIN s = 1 .. Len(s) /\ DOMAIN t = 1 .. (Len(s) - 1) /\ i \in 1 .. Len(s)
  BY <1>1
<1> HIDE DEF t
<1>3. ASSUME Precedes(t, x, y) PROVE Precedes(s, x, y)
  <2>1. PICK j, k \in 1 .. (Len(s) - 1) : j < k /\ t[j] = x /\ t[k] = y
    BY <1>2, <1>3 DEF Precedes
  <2> DEFINE u(n) == IF n < i THEN n ELSE n + 1
  <2>2. u(j) \in 1 .. Len(s) /\ u(k) \in 1 .. Len(s) /\ u(j) < u(k)
    BY <1>2, <2>1
  <2>3. s[u(j)] = x /\ s[u(k)] = y
    BY <1>1, <1>2, <2>1
  <2> HIDE DEF u
  <2> QED
    BY <1>2, <2>2, <2>3 DEF Precedes
<1>4. ASSUME Precedes(s, x, y), x # s[i], y # s[i] PROVE Precedes(t, x, y)
  <2>1. PICK j, k \in 1 .. Len(s) : j < k /\ s[j] = x /\ s[k] = y
    BY <1>2, <1>4 DEF Precedes
  <2>2. j # i /\ k # i
    BY <1>4, <2>1
  <2> DEFINE d(n) == IF n < i THEN n ELSE n - 1
  <2>3. d(j) \in 1 .. (Len(s) - 1) /\ d(k) \in 1 .. (Len(s) - 1) /\ d(j) < d(k)
    BY <1>2, <2>1, <2>2
  <2>4. t[d(j)] = x /\ t[d(k)] = y
    <3>1. /\ d(j) < i => d(j) = j
          /\ ~(d(j) < i) => d(j) + 1 = j
          /\ d(k) < i => d(k) = k
          /\ ~(d(k) < i) => d(k) + 1 = k
      BY <1>2, <2>1, <2>2
    <3> HIDE DEF d
    <3> QED
      BY <1>1, <1>2, <2>1, <2>3, <3>1
  <2> HIDE DEF d
  <2> QED
    BY <1>2, <2>3, <2>4 DEF Precedes
<1> QED
  BY <1>3, <1>4 DEF t

-----------------------------------------------------------------------------
(* One lemma for each kind of step.                                          *)

LEMMA StoreInitially == Init => StoreInv
BY DEF Init, StoreInv, UsedInv, ChainedInv, OrderInv, AnswerInv, Precedes, Chain

\* Steps that leave the lists and the handler alone.
LEMMA StoreKept ==
  ASSUME IInv, StoreInv, UNCHANGED <<full, chain, hashed, handler>>,
         \A n \in Node : mem'[n] = "used" => mem[n] = "used",
         \A n \in hashed : rule'[n] = rule[n]
  PROVE  StoreInv'
<1> USE DEF StoreInv
<1>1. UsedInv' /\ OrderInv'
  BY DEF UsedInv, OrderInv
<1>2. ChainedInv'
  BY DEF ChainedInv, Between, handler
<1>3. Found(fr.key)' = Found(fr.key) /\ \A n \in Found(fr.key) : rule'[n] = rule[n]
  BY DEF Found, handler
<1>4. AnswerInv'
  BY <1>3 DEF AnswerInv, handler
<1> QED
  BY <1>1, <1>2, <1>4

LEMMA ReceiveStore ==
  ASSUME IInv, StoreInv, NEW c \in Client, NEW m \in Msg, Receive(c, m)
  PROVE  StoreInv'
<1> DEFINE Quiet == UNCHANGED <<mem, rule, full, chain, hashed>>
<1>1. /\ at = "idle" /\ Quiet
      /\ at' \in {"idle", "add", "updoff", "delin", "flushin"}
      /\ at' = "add" => reply'[caller'] = "OK"
  <2> USE DEF store, lists
  <2>1. CASE RcvAddNew(c, m)
    BY <2>1 DEF RcvAddNew, Enter, Answer, IInv, TypeOK
  <2>2. CASE RcvUpdate(c, m)
    BY <2>2 DEF RcvUpdate, Enter
  <2>3. CASE RcvDelete(c, m) \/ RcvDeleteAll(c, m)
    BY <2>3 DEF RcvDelete, RcvDeleteAll, Enter
  <2>4. CASE RcvAddPolicyRule(c, m) \/ RcvAddExisting(c, m) \/ RcvMissing(c, m) \/ RcvChainPolicy(c, m)
    BY <2>4 DEF RcvAddPolicyRule, RcvAddExisting, RcvMissing, RcvChainPolicy, EnterAndLeave
  <2> QED
    BY <2>1, <2>2, <2>3, <2>4 DEF Receive
<1>2. UsedInv' /\ OrderInv'
  BY <1>1 DEF StoreInv, UsedInv, OrderInv
<1>3. ChainedInv'
  BY <1>1 DEF StoreInv, ChainedInv, Between
<1>4. AnswerInv'
  BY <1>1 DEF AnswerInv
<1> QED
  BY <1>2, <1>3, <1>4 DEF StoreInv

LEMMA AddRuleStore ==
  ASSUME IInv, StoreInv, NEW n \in Node, AddRule(n)
  PROVE  StoreInv'
<1> TypeOK
  BY DEF IInv
<1> USE DEF AddRule
<1>1. n \notin hashed /\ \A m \in Node \ {n} : rule'[m] = rule[m] /\ mem'[m] = mem[m]
  BY DEF IInv, HashInv, TypeOK
<1>2. /\ full \in Seq(Node) /\ full' = Append(full, n)
      /\ Len(full') \in DOMAIN full' /\ full'[Len(full')] = n
      /\ ToSet(full) \subseteq ToSet(full') /\ n \in ToSet(full')
  <2>1. full \in Seq(Node) /\ full' = Append(full, n)
    BY DEF TypeOK
  <2>2. /\ Len(full') \in DOMAIN full' /\ full'[Len(full')] = n
        /\ \A i \in DOMAIN full : i \in DOMAIN full' /\ full'[i] = full[i]
    BY <2>1
  <2> QED
    BY <2>1, <2>2 DEF ToSet
<1>3. UsedInv'
  BY <1>1, <1>2 DEF StoreInv, UsedInv
<1>4. ChainedInv'
  BY <1>1 DEF StoreInv, ChainedInv, Between, TypeOK
<1>5. OrderInv'
  BY <1>2, PrecedesAppend DEF StoreInv, OrderInv
<1>6. AnswerInv'
  BY <1>2 DEF StoreInv, AnswerInv
<1> QED
  BY <1>3, <1>4, <1>5, <1>6 DEF StoreInv

LEMMA AddToChainStore ==
  ASSUME IInv, StoreInv, AddToChain
  PROVE  StoreInv'
<1> TypeOK
  BY DEF IInv
<1> DEFINE c == ChainOf[fr.key]
<1>1. /\ at = "addchain" /\ at' = "idle" /\ UNCHANGED <<mem, rule, full, hashed>>
      /\ rule[node] = fr /\ node \in hashed /\ node \in Node
      /\ full \in Seq(Node) /\ full[Len(full)] = node /\ Len(full) \in DOMAIN full
  BY DEF AddToChain, IInv, StepInv, StoreInv, AnswerInv, TypeOK
<1>2. UsedInv' /\ AnswerInv'
  BY <1>1 DEF StoreInv, UsedInv, AnswerInv
<1>3. CASE c \notin Chain
  <2>1. chain' = chain
    BY <1>3 DEF AddToChain
  <2> QED
    BY <1>1, <1>2, <1>3, <2>1 DEF StoreInv, ChainedInv, OrderInv, Between
<1>4. CASE c \in Chain
  <2>1. /\ chain[c] \in Seq(Node) /\ IsInjective(chain[c]) /\ node \notin ToSet(chain[c])
        /\ chain'[c] = Append(chain[c], node)
        /\ \A d \in Chain \ {c} : chain'[d] = chain[d]
    BY <1>1, <1>4 DEF AddToChain, TypeOK, IInv, StepInv, ChainInv
  <2>2. ToSet(chain'[c]) = ToSet(chain[c]) \cup {node}
    BY <1>1, <2>1, AppendFresh
  <2>3. ChainedInv'
    <3>1. \A n \in hashed : Between(n) <=> n = node
      BY <1>1 DEF Between
    <3>2. \A d \in Chain : ToSet(chain[d]) \subseteq ToSet(chain'[d])
      BY <2>1, <2>2
    <3>3. node \in ToSet(chain'[c])
      BY <2>2
    <3> QED
      BY <1>1, <3>1, <3>2, <3>3 DEF StoreInv, ChainedInv
  <2>4. ASSUME NEW d \in Chain, NEW n \in Node, NEW m \in Node, Precedes(chain'[d], n, m)
        PROVE  Precedes(full, n, m)
    <3>1. CASE Precedes(chain[d], n, m)
      BY <3>1 DEF StoreInv, OrderInv
    <3>2. CASE d = c /\ n \in ToSet(chain[c]) /\ m = node
      <4>1. n # node /\ n \in ToSet(full)
        BY <2>1, <3>2 DEF IInv, ChainInv, StoreInv, UsedInv
      <4>2. PICK i \in DOMAIN full : full[i] = n
        BY <4>1 DEF ToSet
      <4>3. i < Len(full)
        BY <1>1, <4>1, <4>2
      <4> QED
        BY <1>1, <3>2, <4>2, <4>3 DEF Precedes
    <3>3. CASE d = c
      <4>1. Precedes(Append(chain[c], node), n, m)
        BY <2>1, <2>4, <3>3
      <4>2. Precedes(chain[c], n, m) \/ (n \in ToSet(chain[c]) /\ m = node)
        BY <2>1, <4>1, PrecedesAppend
      <4> QED
        BY <3>1, <3>2, <3>3, <4>2
    <3>4. CASE d # c
      BY <2>1, <2>4, <3>1, <3>4
    <3> QED
      BY <3>3, <3>4
  <2> QED
    BY <1>1, <1>2, <2>3, <2>4 DEF StoreInv, OrderInv
<1> QED
  BY <1>3, <1>4

LEMMA UpdateStore ==
  ASSUME IInv, StoreInv, UpdateOff \/ UpdatePolicy
  PROVE  StoreInv'
<1> TypeOK
  BY DEF IInv
<1>1. /\ UNCHANGED <<mem, full, chain, hashed>> /\ at \in {"updoff", "updpolicy"}
      /\ at' \in {"updpolicy", "idle"}
      /\ at' = "updpolicy" => UpdateOff /\ fr' = fr
  BY DEF UpdateOff, UpdatePolicy, Goto, Leave, lists
<1>2. \A n \in Node : rule'[n].key = rule[n].key
  <2> rule \in [Node -> FilterRule] /\ \A n \in Found(fr.key) : n \in Node
    BY DEF Found, TypeOK
  <2>1. CASE UpdateOff
    BY <2>1 DEF UpdateOff, FilterRule
  <2>2. CASE UpdatePolicy
    BY <2>2 DEF UpdatePolicy, FilterRule
  <2> QED
    BY <2>1, <2>2
<1>3. UsedInv' /\ OrderInv'
  BY <1>1 DEF StoreInv, UsedInv, OrderInv
<1>4. ChainedInv'
  BY <1>1, <1>2 DEF StoreInv, ChainedInv, Between, TypeOK
<1>5. AnswerInv'
  <2>1. CASE at' = "idle"
    BY <2>1 DEF AnswerInv
  <2>2. CASE at' = "updpolicy"
    <3>1. PICK n \in Found(fr.key) :
            rule' = IF fr.off # "NONE" THEN [rule EXCEPT ![n].off = fr.off] ELSE rule
      BY <1>1, <2>2 DEF UpdateOff
    <3>2. \A m \in hashed' : rule'[m].key = fr'.key => m = n
      BY <1>1, <1>2, <2>2, <3>1 DEF Found, IInv, HashInv, TypeOK
    <3>3. fr'.off \in {rule'[n].off, "NONE"}
      BY <1>1, <2>2, <3>1 DEF Found, TypeOK, FilterRule
    <3> QED
      <4>1. \A m \in hashed' : rule'[m].key = fr'.key => fr'.off \in {rule'[m].off, "NONE"}
        BY <3>2, <3>3
      <4>2. \A m \in Found(fr.key)' : fr'.off \in {rule'[m].off, "NONE"}
        BY <4>1 DEF Found
      <4> QED
        BY <2>2, <4>2 DEF AnswerInv
  <2> QED
    BY <1>1, <2>1, <2>2
<1> QED
  BY <1>3, <1>4, <1>5 DEF StoreInv

LEMMA DeleteFromChainStore ==
  ASSUME IInv, StoreInv, NEW c \in Chain, NEW here, NEW next,
         DeleteFromChain(c, here, next),
         \/ c = "INPUT" /\ here = "delin" /\ next = "delout"
         \/ c = "OUTPUT" /\ here = "delout" /\ next = "delhash"
  PROVE  StoreInv'
<1> TypeOK
  BY DEF IInv
<1>1. /\ at = here /\ at' = next /\ UNCHANGED <<mem, rule, full, hashed, fr>>
      /\ at' \in {"delout", "delhash"} /\ at \in {"delin", "delout"}
  BY DEF DeleteFromChain, Goto
<1>2. UsedInv' /\ AnswerInv'
  BY <1>1 DEF StoreInv, UsedInv, AnswerInv
<1>3. CASE chain' = chain
  BY <1>1, <1>2, <1>3 DEF StoreInv, ChainedInv, OrderInv, Between
<1>4. ASSUME NEW i \in DOMAIN chain[c], rule[chain[c][i]].key = fr.key, ChainDel(c, i)
      PROVE  StoreInv'
  <2>1. chain[c] \in Seq(Node) /\ IsInjective(chain[c])
    BY DEF TypeOK, IInv, ChainInv
  <2>2. chain'[c] = RemoveAt(chain[c], i) /\ \A d \in Chain \ {c} : chain'[d] = chain[d]
    BY <1>4 DEF ChainDel, TypeOK
  <2>3. ToSet(chain'[c]) = ToSet(chain[c]) \ {chain[c][i]}
    BY <2>1, <2>2, RemoveAtInjective
  <2>4. ChainedInv'
    BY <1>1, <1>4, <2>2, <2>3 DEF StoreInv, ChainedInv, Between
  <2>5. OrderInv'
    <3>1. \A n, m \in Node : Precedes(chain'[c], n, m) => Precedes(chain[c], n, m)
      BY <2>1, <2>2, PrecedesRemoveAt
    <3> QED
      BY <1>1, <2>2, <3>1 DEF StoreInv, OrderInv
  <2> QED
    BY <1>2, <2>4, <2>5 DEF StoreInv
<1> QED
  BY <1>3, <1>4 DEF DeleteFromChain

LEMMA DeleteFromHashStore ==
  ASSUME IInv, StoreInv, DeleteFromHash
  PROVE  StoreInv'
<1>1. /\ at = "delhash" /\ at' = "delfull"
      /\ UNCHANGED <<mem, rule, full, chain, fr>>
      /\ hashed' \subseteq hashed
  BY DEF DeleteFromHash, HashDel, Goto
<1>2. \A n \in hashed' : rule[n].key # fr.key
  <2>1. Found(fr.key)' = {}
    BY <1>1, DeleteFromHashKeeps DEF IInv, StepInv
  <2> QED
    BY <1>1, <2>1 DEF Found
<1>3. ChainedInv'
  BY <1>1, <1>2 DEF StoreInv, ChainedInv, Between
<1> QED
  BY <1>1, <1>3 DEF StoreInv, UsedInv, OrderInv, AnswerInv

LEMMA DeleteFromFullStore ==
  ASSUME IInv, StoreInv, DeleteFromFull
  PROVE  StoreInv'
<1> TypeOK
  BY DEF IInv
<1>1. PICK i \in DOMAIN full :
        rule[full[i]].key = fr.key /\ full' = RemoveAt(full, i) /\ CallRcu(full[i])
  BY DEF DeleteFromFull
<1>2. /\ at = "delfull" /\ UNCHANGED <<rule, chain, hashed, at, fr, node, caller, reply>>
      /\ full \in Seq(Node) /\ IsInjective(full) /\ full[i] \in Node
  BY DEF DeleteFromFull, handler, TypeOK, IInv, FullInv
<1>3. ToSet(full') = ToSet(full) \ {full[i]}
  BY <1>1, <1>2, RemoveAtInjective
<1>4. UsedInv'
  BY <1>1, <1>2, <1>3 DEF StoreInv, UsedInv, CallRcu, TypeOK
<1>5. OrderInv'
  <2>1. ASSUME NEW c \in Chain, NEW n \in Node, NEW m \in Node, Precedes(chain[c], n, m)
        PROVE  Precedes(full', n, m)
    <3>1. n \in ToSet(chain[c]) /\ m \in ToSet(chain[c])
      BY <2>1 DEF Precedes, ToSet
    <3>2. n # full[i] /\ m # full[i]
      BY <1>1, <1>2, <3>1 DEF IInv, StepInv, Cleared, Chain
    <3>3. Precedes(full, n, m)
      BY <2>1 DEF StoreInv, OrderInv
    <3> QED
      BY <1>1, <1>2, <3>2, <3>3, PrecedesRemoveAt
  <2> QED
    BY <1>2, <2>1 DEF OrderInv
<1> QED
  BY <1>2, <1>4, <1>5 DEF StoreInv, ChainedInv, Between, AnswerInv

LEMMA LeaveStore ==
  ASSUME IInv, StoreInv, DeleteDone \/ FlushDone
  PROVE  StoreInv'
<1>1. /\ UNCHANGED <<mem, rule, full, chain, hashed>> /\ at' = "idle"
      /\ at = "delfull" \/ (at = "flushfull" /\ full = <<>>)
  BY DEF DeleteDone, FlushDone, Leave, store, lists
<1>2. at = "flushfull" => hashed = {}
  BY <1>1 DEF StoreInv, UsedInv, IInv, TypeOK, HashInv, ToSet
<1>3. ChainedInv'
  BY <1>1, <1>2 DEF StoreInv, ChainedInv, Between
<1> QED
  BY <1>1, <1>3 DEF StoreInv, UsedInv, OrderInv, AnswerInv

LEMMA FlushChainStore ==
  ASSUME IInv, StoreInv, NEW c \in Chain, NEW here, NEW next,
         FlushChain(c, here, next),
         \/ c = "INPUT" /\ here = "flushin" /\ next = "flushout"
         \/ c = "OUTPUT" /\ here = "flushout" /\ next = "flushfull"
  PROVE  StoreInv'
<1> TypeOK
  BY DEF IInv
<1>1. /\ UNCHANGED <<mem, rule, full, hashed>> /\ at' \in {"flushin", "flushout", "flushfull"}
  BY DEF FlushChain, Goto, handler
<1>2. UsedInv' /\ ChainedInv' /\ AnswerInv'
  BY <1>1 DEF StoreInv, UsedInv, ChainedInv, Between, AnswerInv
<1>3. OrderInv'
  <2>1. CASE chain' = chain
    BY <1>1, <2>1 DEF StoreInv, OrderInv
  <2>2. CASE chain[c] # <<>> /\ ChainDel(c, 1)
    <3>1. chain[c] \in Seq(Node) /\ 1 \in DOMAIN chain[c]
      BY <2>2 DEF TypeOK
    <3>2. chain'[c] = RemoveAt(chain[c], 1) /\ \A d \in Chain \ {c} : chain'[d] = chain[d]
      BY <2>2 DEF ChainDel, TypeOK
    <3>3. \A n, m \in Node : Precedes(chain'[c], n, m) => Precedes(chain[c], n, m)
      BY <3>1, <3>2, PrecedesRemoveAt
    <3> QED
      BY <1>1, <3>2, <3>3 DEF StoreInv, OrderInv
  <2> QED
    BY <2>1, <2>2 DEF FlushChain
<1> QED
  BY <1>2, <1>3 DEF StoreInv

LEMMA FlushFullStore ==
  ASSUME IInv, StoreInv, FlushFull
  PROVE  StoreInv'
<1> TypeOK
  BY DEF IInv
<1>1. /\ at = "flushfull" /\ UNCHANGED <<rule, chain, at>> /\ hashed' \subseteq hashed
      /\ full # <<>> /\ full' = Tail(full) /\ CallRcu(full[1])
  BY DEF FlushFull, handler, HashDel
<1>2. ToSet(full') = ToSet(full) \ {full[1]} /\ full[1] \in Node
  BY <1>1, TailInjective DEF TypeOK, IInv, FullInv
<1>3. UsedInv'
  BY <1>1, <1>2 DEF StoreInv, UsedInv, CallRcu, TypeOK
<1>4. \A c \in Chain : chain'[c] = <<>>
  BY <1>1 DEF IInv, StepInv, Chain
<1>5. OrderInv'
  BY <1>4 DEF OrderInv, Precedes
<1> QED
  BY <1>1, <1>3, <1>5 DEF StoreInv, ChainedInv, Between, AnswerInv

LEMMA StoreStep == IInv /\ StoreInv /\ [Next]_vars => StoreInv'
<1> SUFFICES ASSUME IInv, StoreInv, [Next]_vars PROVE StoreInv'
  OBVIOUS
<1>1. ASSUME NEW c \in Client, NEW m \in Msg, Receive(c, m) PROVE StoreInv'
  BY <1>1, ReceiveStore
<1>2. CASE Handle
  <2>1. ASSUME NEW n \in Node, AddRule(n) PROVE StoreInv'
    BY <2>1, AddRuleStore
  <2>2. CASE DeleteFromIn
    BY <2>2, DeleteFromChainStore DEF DeleteFromIn, Chain
  <2>3. CASE DeleteFromOut
    BY <2>3, DeleteFromChainStore DEF DeleteFromOut, Chain
  <2>4. CASE FlushIn
    BY <2>4, FlushChainStore DEF FlushIn, Chain
  <2>5. CASE FlushOut
    BY <2>5, FlushChainStore DEF FlushOut, Chain
  <2> QED
    BY <1>2, <2>1, <2>2, <2>3, <2>4, <2>5, AddToChainStore, UpdateStore, DeleteFromHashStore,
      DeleteFromFullStore, LeaveStore, FlushFullStore DEF Handle
<1>3. CASE UNCHANGED <<store, handler>>
  <2>1. UNCHANGED <<mem, rule, full, chain, hashed, handler>>
    BY <1>3 DEF store, lists
  <2> QED
    BY <2>1, StoreKept
<1>4. ASSUME NEW n \in Node, FreeRule(n) PROVE StoreInv'
  <2>1. UNCHANGED <<full, chain, hashed, handler>> /\ n \notin hashed
    BY <1>4 DEF FreeRule, IInv, HashInv
  <2>2. /\ \A m \in Node : mem'[m] = "used" => mem[m] = "used"
        /\ \A m \in hashed : rule'[m] = rule[m]
    BY <1>4, <2>1 DEF FreeRule, IInv, TypeOK
  <2> QED
    BY <2>1, <2>2, StoreKept
<1>5. ASSUME NEW h \in Hook, Filter(h) PROVE UNCHANGED <<store, handler>>
  BY <1>5 DEF Filter, HookNext, HookMatch, HookSkip, HookEnd, HookDefault
<1>6. ASSUME NEW h \in Hook, NEW c \in Chain, NEW p \in Packet, HookBegin(h, c, p)
      PROVE  UNCHANGED <<store, handler>>
  BY <1>6 DEF HookBegin
<1>7. CASE SkbWrite \/ UNCHANGED vars
  BY <1>3, <1>7 DEF SkbWrite, vars
<1> QED
  BY <1>1, <1>2, <1>3, <1>4, <1>5, <1>6, <1>7 DEF Next

-----------------------------------------------------------------------------
\* Between two messages the full list, the hash table and the chain lists hold the same
\* rules, in the same order, and nothing that is in use is forgotten.
THEOREM IndexesAgree == Spec => []StoreConsistent
<1>1. IInv /\ StoreInv => StoreConsistent
  <2> SUFFICES ASSUME IInv, StoreInv, at = "idle" PROVE StoreConsistent
    BY DEF StoreConsistent
  <2>1. ToSet(full) \subseteq Node
    BY ListedAreNodes DEF IInv
  <2>2. IsInjective(full) /\ ToSet(full) = hashed
    BY <2>1 DEF IInv, TypeOK, FullInv, HashInv, StoreInv, UsedInv
  <2>3. \A n \in Node : mem[n] = "used" <=> n \in hashed
    BY <2>2 DEF IInv, HashInv, StoreInv, UsedInv
  <2>4. ASSUME NEW c \in Chain
        PROVE  IsInjective(chain[c]) /\ ToSet(chain[c]) = {n \in hashed : ChainOf[rule[n].key] = c}
    BY DEF IInv, ChainInv, StoreInv, ChainedInv, Between
  <2>5. \A c \in Chain : \A n, m \in hashed : Precedes(chain[c], n, m) => Precedes(full, n, m)
    BY DEF IInv, TypeOK, StoreInv, OrderInv
  <2> QED
    BY <2>2, <2>3, <2>4, <2>5 DEF StoreConsistent, IInv, HashInv
<1> QED
  BY <1>1, InitIInv, NextIInv, StoreInitially, StoreStep, PTL DEF Spec

LEMMA AddTellsEffect ==
  ASSUME IInv, StoreInv, AddToChain
  PROVE  EffectOfAnswer
<1> TypeOK
  BY DEF IInv
<1> DEFINE c == ChainOf[fr.key]
<1>1. /\ at = "addchain" /\ UNCHANGED <<rule, hashed, reply>>
      /\ rule[node] = fr /\ node \in hashed /\ node \in Node /\ reply[caller] = "OK"
  BY DEF AddToChain, IInv, StepInv, StoreInv, AnswerInv, TypeOK
<1>2. node \in {n \in hashed' : rule'[n].key = fr.key}
  BY <1>1
<1>3. c \in Chain => \E i \in DOMAIN chain'[c] : rule'[chain'[c][i]].key = fr.key
  <2>1. c \in Chain => chain[c] \in Seq(Node) /\ chain'[c] = Append(chain[c], node)
    BY <1>1 DEF AddToChain, TypeOK
  <2>2. c \in Chain => Len(chain[c]) + 1 \in DOMAIN chain'[c] /\ chain'[c][Len(chain[c]) + 1] = node
    BY <1>1, <2>1
  <2> QED
    BY <1>1, <2>2
<1> QED
  BY <1>1, <1>2, <1>3 DEF EffectOfAnswer, InForce, Found

LEMMA UpdateTellsEffect ==
  ASSUME IInv, StoreInv, UpdatePolicy
  PROVE  EffectOfAnswer
<1> TypeOK
  BY DEF IInv
<1>1. at = "updpolicy" /\ hashed' = hashed /\ reply'[caller] = "OK"
  BY DEF UpdatePolicy, Leave, Answer, TypeOK, lists
<1>2. PICK n \in Found(fr.key) :
        rule' = IF fr.policy # "NONE" THEN [rule EXCEPT ![n].policy = fr.policy] ELSE rule
  BY DEF UpdatePolicy
<1>3. n \in hashed /\ n \in Node /\ rule[n] \in FilterRule /\ rule[n].key = fr.key
      /\ fr.off \in {rule[n].off, "NONE"}
  BY <1>1, <1>2 DEF Found, TypeOK, StoreInv, AnswerInv
<1>4. /\ rule'[n].key = fr.key
      /\ fr.off \in {rule'[n].off, "NONE"} /\ fr.policy \in {rule'[n].policy, "NONE"}
  BY <1>2, <1>3 DEF TypeOK, FilterRule
<1>5. n \in {m \in hashed' : rule'[m].key = fr.key}
  BY <1>1, <1>3, <1>4
<1> QED
  BY <1>1, <1>4, <1>5 DEF EffectOfAnswer, Found

LEMMA DeleteTellsEffect ==
  ASSUME IInv, StoreInv, DeleteDone \/ FlushDone
  PROVE  EffectOfAnswer
<1> TypeOK
  BY DEF IInv
<1>1. /\ UNCHANGED <<mem, rule, full, chain, hashed>> /\ reply'[caller] = "OK"
      /\ at = "delfull" \/ (at = "flushfull" /\ full = <<>>)
  BY DEF DeleteDone, FlushDone, Leave, Answer, TypeOK, store, lists
<1>2. at = "delfull" => {n \in hashed' : rule'[n].key = fr.key} = {}
  BY <1>1 DEF IInv, StepInv, Found
<1>3. at = "delfull" =>
        \A c \in Chain : \A i \in DOMAIN chain'[c] : rule'[chain'[c][i]].key # fr.key
  BY <1>1 DEF IInv, StepInv, Cleared, Chain, ToSet
<1>4. at = "flushfull" => hashed' = {} /\ \A c \in Chain : chain'[c] = <<>>
  BY <1>1 DEF StoreInv, UsedInv, IInv, TypeOK, HashInv, StepInv, Chain, ToSet
<1> QED
  BY <1>1, <1>2, <1>3, <1>4 DEF EffectOfAnswer, InForce, Found

\* No other step ends a message that has entered the handler.
LEMMA OthersGoOn ==
  ASSUME at # "idle", [Next]_vars, ~(AddToChain \/ UpdatePolicy \/ DeleteDone \/ FlushDone)
  PROVE  at' # "idle"
<1>1. ASSUME NEW c \in Client, NEW m \in Msg, Receive(c, m) PROVE FALSE
  BY <1>1 DEF Receive, RcvAddPolicyRule, RcvAddExisting, RcvAddNew, RcvUpdate, RcvDelete,
    RcvMissing, RcvDeleteAll, RcvChainPolicy, EnterAndLeave, Enter
<1>2. CASE Handle
  BY <1>2 DEF Handle, AddRule, UpdateOff, DeleteFromIn, DeleteFromOut, DeleteFromChain, DeleteFromHash,
    DeleteFromFull, FlushIn, FlushOut, FlushChain, FlushFull, Goto, handler
<1>3. ASSUME NEW h \in Hook, Filter(h) PROVE at' = at
  BY <1>3 DEF Filter, HookNext, HookMatch, HookSkip, HookEnd, HookDefault, handler
<1>4. ASSUME NEW h \in Hook, NEW c \in Chain, NEW p \in Packet, HookBegin(h, c, p) PROVE at' = at
  BY <1>4 DEF HookBegin, handler
<1>5. ASSUME NEW n \in Node, FreeRule(n) PROVE at' = at
  BY <1>5 DEF FreeRule, handler
<1>6. CASE SkbWrite \/ UNCHANGED vars
  BY <1>6 DEF SkbWrite, vars, handler
<1> QED
  BY <1>1, <1>2, <1>3, <1>4, <1>5, <1>6 DEF Next

\* What the handler answers is true when its caller gets it, although send_err_ok() comes
\* before add_rule() and after the rest.
THEOREM AnswersAreTrue == Spec => AnswerTellsEffect
<1>1. IInv /\ StoreInv /\ [Next]_vars => EffectOfAnswer
  <2> SUFFICES ASSUME IInv, StoreInv, [Next]_vars PROVE EffectOfAnswer
    OBVIOUS
  <2>1. CASE ~(AddToChain \/ UpdatePolicy \/ DeleteDone \/ FlushDone)
    BY <2>1, OthersGoOn DEF EffectOfAnswer
  <2> QED
    BY <2>1, AddTellsEffect, UpdateTellsEffect, DeleteTellsEffect
<1>2. IInv /\ StoreInv /\ [Next]_vars => [EffectOfAnswer]_vars
  BY <1>1
<1> QED
  BY <1>2, InitIInv, NextIInv, StoreInitially, StoreStep, PTL DEF Spec, AnswerTellsEffect

-----------------------------------------------------------------------------
(* BfKernel implements BfTable: whatever rules are added and deleted under *)
(* a walk of hook_func, and however many, its packet gets the verdict of a *)
(* table of that time.                                                     *)

\* Updates in place are outside the promise.
NoUpdates == \A m \in Msg : m.type # "UPDATE_RULE"

\* What HNext adds to Next.
Remember ==
  /\ could' = [h \in Hook |->
       IF ~Asking(h)' THEN {} ELSE could[h] \cup {Verdicts'[h]}]
  /\ late' = [h \in Hook |->
       IF ~(Asking(h) /\ Asking(h)') THEN {}
       ELSE LET c == hook[h].chain IN
            IF chainPolicy'[c] # chainPolicy[c] THEN late[h] \cup {chainPolicy'[c]} ELSE late[h]]

Hit(n, p) == rule[n].key \in Matches[p] /\ rule[n].off = "NO"

\* The rules of a chain before its i-th do not match, or those up to it.
NoneBefore(c, i, p) == \A j \in DOMAIN chain[c] : j < i => ~Hit(chain[c][j], p)

\* Where walk h may come next and be told the truth: its head, if the policy is a verdict it
\* may get; a rule of the chain, if none before it matches; or a rule that has left
\* under it, if its own verdict is one h may get, and it leads to such a place.
GoodAt(h, good, x) ==
  LET c == hook[h].chain
      p == hook[h].packet
  IN \/ x = HeadOf(c) /\ chainPolicy[c] \in could[h] \cup late[h]
     \/ \E i \in DOMAIN chain[c] : chain[c][i] = x /\ NoneBefore(c, i, p)
     \/ /\ x \in Node /\ h \in sees[x]
        /\ left[x] \in good
        /\ Hit(x, p) => ApplyPolicy(rule[x].policy) \in could[h]

\* The walk stands on such a place, or on one that it has found not to match.
Stands(h, good) ==
  LET c == hook[h].chain
      x == hook[h].cur
  IN /\ hook[h].at = "compare" => x \in good /\ x \in Node /\ hook[h].policy = rule[x].policy
     /\ hook[h].at = "next" =>
          \/ x = HeadOf(c)
          \/ \E i \in DOMAIN chain[c] : chain[c][i] = x /\ NoneBefore(c, i + 1, hook[h].packet)
          \/ x \in Node /\ h \in sees[x] /\ left[x] \in good

WalkKnown(h) ==
  /\ Asking(h) => Verdicts[h] \in could[h]
  /\ ~Asking(h) => could[h] = {} /\ late[h] = {}
  /\ hook[h].at = "default" => chainPolicy[hook[h].chain] \in could[h] \cup late[h]
  /\ Walking(h) => \E good \in SUBSET Cell :
       (\A x \in good : GoodAt(h, good, x)) /\ Stands(h, good)

AddedInv == at \notin {"updoff", "updpolicy"} /\ (at \in {"add", "addchain"} => fr \in {m.fr : m \in Msg})

TableInv == AddedInv /\ \A h \in Hook : WalkKnown(h)

-----------------------------------------------------------------------------
(* The decision of a table.                                                  *)

\* A sequence with one more element, as a function.
LEMMA AppendElements ==
  ASSUME NEW T, NEW r \in Seq(T), NEW x \in T, NEW n \in Nat, Len(r) = n
  PROVE  Append(r, x) = [j \in 1 .. n + 1 |-> IF j = n + 1 THEN x ELSE r[j]]
PROOF
  <1>1. Append(r, x) \in Seq(T) /\ Len(Append(r, x)) = n + 1 OBVIOUS
  <1>2. \A j \in 1 .. n : Append(r, x)[j] = r[j] OBVIOUS
  <1>3. Append(r, x)[n + 1] = x OBVIOUS
  <1>4. Append(r, x) = [j \in 1 .. n + 1 |-> Append(r, x)[j]]
    <2>1. PICK y : y = Append(r, x) OBVIOUS
    <2>2. y \in [1 .. n + 1 -> T]
      <3>1. y \in Seq(T) /\ Len(y) = n + 1 BY <1>1, <2>1
      <3>2. y \in [1 .. Len(y) -> T] BY <3>1
      <3> QED BY <3>1, <3>2
    <2>3. y = [j \in 1 .. n + 1 |-> y[j]] BY <2>2
    <2> QED BY <2>1, <2>3
  <1> QED BY <1>2, <1>3, <1>4

\* The first rule that matches decides.
LEMMA FirstDecides ==
  ASSUME NEW t, NEW pol, NEW c, NEW p, NEW i \in DOMAIN t[c], DOMAIN t[c] \subseteq Nat,
         t[c][i].key \in Matches[p], t[c][i].off = "NO",
         \A j \in DOMAIN t[c] : j < i => ~(t[c][j].key \in Matches[p] /\ t[c][j].off = "NO")
  PROVE  Table!Decision(t, pol, c, p) = ApplyPolicy(t[c][i].policy)
PROOF
  <1> DEFINE hits == {j \in DOMAIN t[c] : t[c][j].key \in Matches[p] /\ t[c][j].off = "NO"}
  <1>1. i \in hits /\ hits \subseteq Nat /\ \A j \in hits : i <= j
    OBVIOUS
  <1>2. Table!Min(hits) = i
    <2> HIDE DEF hits
    <2>1. \A j \in hits : (\A k \in hits : j <= k) => j = i BY <1>1
    <2> QED BY <1>1, <2>1 DEF Table!Min
  <1>3. Table!Decision(t, pol, c, p) =
          IF hits = {} THEN pol[c]
          ELSE IF t[c][Table!Min(hits)].policy = "ACCEPT" THEN "ACCEPT" ELSE "DROP"
    BY DEF Table!Decision
  <1> HIDE DEF hits
  <1> QED BY <1>1, <1>2, <1>3 DEF ApplyPolicy

\* When none does, the policy of the chain decides.
LEMMA PolicyDecides ==
  ASSUME NEW t, NEW pol, NEW c, NEW p,
         \A j \in DOMAIN t[c] : ~(t[c][j].key \in Matches[p] /\ t[c][j].off = "NO")
  PROVE  Table!Decision(t, pol, c, p) = pol[c]
PROOF
  <1>1. {j \in DOMAIN t[c] : t[c][j].key \in Matches[p] /\ t[c][j].off = "NO"} = {} OBVIOUS
  <1> QED BY <1>1 DEF Table!Decision

-----------------------------------------------------------------------------
(* Steps that change no chain.                                               *)

\* The table is read off the chains, and rules on them are hashed.
LEMMA RulesKept ==
  ASSUME IInv, chain' = chain, \A n \in hashed : rule'[n] = rule[n]
  PROVE  Rules' = Rules
PROOF
  <1>1. \A c \in Chain : \A i \in DOMAIN chain[c] : chain[c][i] \in hashed
    BY DEF IInv, ChainInv, ToSet
  <1> QED BY <1>1 DEF Rules

\* A walk that does not move, over rules that do not change.
LEMMA KnownKept ==
  ASSUME IInv, NEW h \in Hook, WalkKnown(h), Remember,
         hook'[h] = hook[h], chain' = chain, chainPolicy' = chainPolicy,
         \A n \in hashed : rule'[n] = rule[n],
         \A n \in Node : /\ h \in sees'[n] <=> h \in sees[n]
                         /\ h \in sees[n] => rule'[n] = rule[n] /\ left'[n] = left[n]
  PROVE  could'[h] = could[h] /\ late'[h] = late[h] /\ WalkKnown(h)'
PROOF
  <1>1. Rules' = Rules BY RulesKept
  <1>2. Asking(h)' <=> Asking(h) BY DEF Asking
  <1>3. Verdicts'[h] = Verdicts[h] BY <1>1 DEF Verdicts
  <1>4. could'[h] = could[h] /\ late'[h] = late[h]
    BY <1>2, <1>3 DEF Remember, WalkKnown
  <1>5. Walking(h)' <=> Walking(h) BY DEF Walking
  <1>6. hook[h].chain \in Chain BY DEF IInv, TypeOK
  <1>7. \A i \in DOMAIN chain[hook[h].chain] : chain[hook[h].chain][i] \in hashed
    BY <1>6 DEF IInv, ChainInv, ToSet
  <1>8. \A p : \A n \in hashed : Hit(n, p)' <=> Hit(n, p) BY DEF Hit
  <1>9. \A i, p : NoneBefore(hook[h].chain, i, p)' <=> NoneBefore(hook[h].chain, i, p)
    BY <1>7, <1>8 DEF NoneBefore
  <1>10. Walking(h)' => (\E good \in SUBSET Cell :
                           (\A x \in good : GoodAt(h, good, x)) /\ Stands(h, good))'
    <2> HAVE Walking(h)'
    <2>1. PICK good \in SUBSET Cell : (\A x \in good : GoodAt(h, good, x)) /\ Stands(h, good)
      BY <1>5 DEF WalkKnown
    <2>2. \A x \in good : GoodAt(h, good, x)'
      <3> TAKE x \in good
      <3>1. GoodAt(h, good, x) BY <2>1
      <3>2. CASE x = HeadOf(hook[h].chain) /\ chainPolicy[hook[h].chain] \in could[h] \cup late[h]
        BY <1>4, <3>2 DEF GoodAt, HeadOf
      <3>3. CASE \E i \in DOMAIN chain[hook[h].chain] :
                   chain[hook[h].chain][i] = x /\ NoneBefore(hook[h].chain, i, hook[h].packet)
        BY <1>9, <3>3 DEF GoodAt
      <3>4. CASE /\ x \in Node /\ h \in sees[x] /\ left[x] \in good
                 /\ Hit(x, hook[h].packet) => ApplyPolicy(rule[x].policy) \in could[h]
        BY <1>4, <3>4 DEF GoodAt, Hit
      <3> QED BY <3>1, <3>2, <3>3, <3>4 DEF GoodAt
    <2>3. Stands(h, good)'
      <3>1. hook[h].at = "compare" => rule'[hook[h].cur] = rule[hook[h].cur]
        <4> HAVE hook[h].at = "compare"
        <4>1. hook[h].cur \in good /\ hook[h].cur \in Node BY <2>1 DEF Stands
        <4>2. OnPath(hook[h].chain, hook[h].cur, h) BY DEF IInv, WalkInv, Walking
        <4>3. hook[h].cur # HeadOf(hook[h].chain) BY <4>1, CellAssumption DEF HeadOf
        <4>4. hook[h].cur \in hashed \/ h \in sees[hook[h].cur]
          BY <4>2, <4>3, <1>6 DEF OnPath, IInv, ChainInv
        <4> QED BY <4>1, <4>4
      <3> QED BY <2>1, <3>1, <1>9 DEF Stands, HeadOf
    <2> QED BY <2>2, <2>3
  <1> QED BY <1>1, <1>2, <1>3, <1>4, <1>10 DEF WalkKnown


-----------------------------------------------------------------------------
(* A rule leaves its chain.                                                  *)

\* Only the chain itself counts.
LEMMA DecisionSame ==
  ASSUME NEW t, NEW u, NEW pol, NEW c, NEW p, t[c] = u[c]
  PROVE  Table!Decision(t, pol, c, p) = Table!Decision(u, pol, c, p)
PROOF
  BY DEF Table!Decision

\* What is read off a list, rule by rule; ...
Read(f, s) == [j \in DOMAIN s |-> f[s[j]]]

\* ... when an element leaves it.
LEMMA ReadRemoved ==
  ASSUME NEW S, NEW f, NEW s \in Seq(S), NEW i \in DOMAIN s
  PROVE  Read(f, RemoveAt(s, i)) = RemoveAt(Read(f, s), i)
PROOF
  <1> DEFINE T == {f[s[j]] : j \in DOMAIN s}
             t == [j \in DOMAIN s |-> f[s[j]]]
             a == RemoveAt(s, i)
             b == RemoveAt(t, i)
  <1>1. t \in Seq(T) /\ Len(t) = Len(s) /\ DOMAIN t = DOMAIN s /\ Len(s) \in Nat
    OBVIOUS
  <1>2. a \in Seq(S) /\ Len(a) = Len(s) - 1 /\ \A j \in DOMAIN a : a[j] = IF j < i THEN s[j] ELSE s[j + 1]
    BY RemoveAtElements
  <1>3. \A j \in DOMAIN s : t[j] = f[s[j]] OBVIOUS
  <1> HIDE DEF t, T
  <1>4. b \in Seq(T) /\ Len(b) = Len(s) - 1 /\ \A j \in DOMAIN b : b[j] = IF j < i THEN t[j] ELSE t[j + 1]
    <2>1. PICK T1, t1 : T1 = T /\ t1 = t OBVIOUS
    <2>2. t1 \in Seq(T1) /\ i \in DOMAIN t1 /\ Len(t1) = Len(s) BY <1>1, <2>1
    <2>3. /\ RemoveAt(t1, i) \in Seq(T1) /\ Len(RemoveAt(t1, i)) = Len(t1) - 1
          /\ \A j \in DOMAIN RemoveAt(t1, i) :
               RemoveAt(t1, i)[j] = IF j < i THEN t1[j] ELSE t1[j + 1]
      BY <2>2, RemoveAtElements
    <2> QED BY <2>1, <2>2, <2>3
  <1> HIDE DEF a, b
  <1>5. DOMAIN a = 1 .. Len(s) - 1 /\ DOMAIN b = 1 .. Len(s) - 1 /\ DOMAIN s = 1 .. Len(s)
    BY <1>1, <1>2, <1>4
  <1>6. \A j \in 1 .. Len(s) - 1 : b[j] = f[a[j]]
    <2> TAKE j \in 1 .. Len(s) - 1
    <2>1. j \in DOMAIN s /\ j + 1 \in DOMAIN s BY <1>1, <1>5
    <2> QED BY <2>1, <1>2, <1>3, <1>4, <1>5
  <1>7. b = [j \in DOMAIN b |-> b[j]] BY <1>4
  <1> QED BY <1>5, <1>6, <1>7 DEF a, b, t, Read

LEMMA RulesRemoved ==
  ASSUME IInv, NEW c \in Chain, NEW i \in DOMAIN chain[c], ChainDel(c, i), rule' = rule
  PROVE  Rules' = [Rules EXCEPT ![c] = RemoveAt(Rules[c], i)]
PROOF
  <1>1. chain \in [Chain -> Seq(Node)] /\ rule \in [Node -> FilterRule] BY DEF IInv, TypeOK
  <1>2. chain' = [chain EXCEPT ![c] = RemoveAt(chain[c], i)] BY DEF ChainDel
  <1>3. Rules[c] = [j \in DOMAIN chain[c] |-> rule[chain[c][j]]] BY DEF Rules
  <1>4. [j \in DOMAIN RemoveAt(chain[c], i) |-> rule[RemoveAt(chain[c], i)[j]]] = RemoveAt(Rules[c], i)
    <2>1. PICK s, f : s = chain[c] /\ f = rule OBVIOUS
    <2>2. s \in Seq(Node) /\ f \in [Node -> FilterRule] /\ i \in DOMAIN s BY <1>1, <2>1
    <2>3. Read(f, RemoveAt(s, i)) = RemoveAt(Read(f, s), i)
      BY <2>2, ReadRemoved
    <2> QED BY <1>3, <2>1, <2>3 DEF Read
  <1>5. Rules' = [d \in Chain |-> [j \in DOMAIN chain'[d] |-> rule[chain'[d][j]]]] BY DEF Rules
  <1>6. \A d \in Chain \ {c} : chain'[d] = chain[d] BY <1>1, <1>2
  <1>7. chain'[c] = RemoveAt(chain[c], i) BY <1>1, <1>2
  <1>8. Rules'[c] = RemoveAt(Rules[c], i) BY <1>4, <1>5, <1>7
  <1>9. \A d \in Chain \ {c} : Rules'[d] = Rules[d] BY <1>5, <1>6 DEF Rules
  <1> QED BY <1>8, <1>9 DEF Rules

\* The verdict of the first rule of the chain that matches, while it is there.
LEMMA FirstIsVerdict ==
  ASSUME IInv, NEW h \in Hook, NEW i \in DOMAIN chain[hook[h].chain],
         Hit(chain[hook[h].chain][i], hook[h].packet),
         NoneBefore(hook[h].chain, i, hook[h].packet)
  PROVE  Verdicts[h] = ApplyPolicy(rule[chain[hook[h].chain][i]].policy)
PROOF
  <1> DEFINE c == hook[h].chain
  <1>1. c \in Chain /\ chain[c] \in Seq(Node) BY DEF IInv, TypeOK
  <1>2. DOMAIN Rules[c] = DOMAIN chain[c] /\ \A j \in DOMAIN chain[c] : Rules[c][j] = rule[chain[c][j]]
    BY <1>1 DEF Rules
  <1>3. DOMAIN Rules[c] \subseteq Nat BY <1>1, <1>2
  <1>4. Table!Decision(Rules, chainPolicy, c, hook[h].packet) = ApplyPolicy(Rules[c][i].policy)
    <2>1. PICK t, p : t = Rules /\ p = hook[h].packet
      OBVIOUS
    <2>2. t[c][i].key \in Matches[p] /\ t[c][i].off = "NO"
      BY <1>2, <2>1 DEF Hit
    <2>3. \A j \in DOMAIN t[c] : j < i => ~(t[c][j].key \in Matches[p] /\ t[c][j].off = "NO")
      BY <1>2, <2>1 DEF Hit, NoneBefore
    <2>4. i \in DOMAIN t[c] /\ DOMAIN t[c] \subseteq Nat
      BY <1>2, <1>3, <2>1
    <2> HIDE DEF c
    <2> QED
      BY <2>1, <2>2, <2>3, <2>4, FirstDecides
  <1> QED BY <1>2, <1>4 DEF Verdicts

LEMMA ChainDelKnown ==
  ASSUME IInv, NEW c \in Chain, NEW i \in DOMAIN chain[c], ChainDel(c, i),
         UNCHANGED <<rule, hook, chainPolicy>>, Remember,
         NEW h \in Hook, WalkKnown(h)
  PROVE  WalkKnown(h)'
PROOF
  <1>n. PICK n : n = chain[c][i] OBVIOUS
  <1>d. PICK d, p : d = hook[h].chain /\ p = hook[h].packet OBVIOUS
  <1>y. PICK y : y = NextOf(c, n) OBVIOUS
  <1> USE <1>n, <1>d, <1>y
  <1>1. /\ chain \in [Chain -> Seq(Node)] /\ n \in Node /\ n \in ToSet(chain[c]) /\ d \in Chain
        /\ IsInjective(chain[c]) /\ left \in [Node -> Cell] /\ sees \in [Node -> SUBSET Hook]
    BY <1>n, <1>d DEF IInv, TypeOK, ChainInv, ToSet
  <1>2. /\ chain'[c] = RemoveAt(chain[c], i) /\ \A e \in Chain \ {c} : chain'[e] = chain[e]
        /\ left'[n] = y /\ \A m \in Node \ {n} : left'[m] = left[m] /\ sees'[m] = sees[m]
        /\ sees'[n] = {g \in Hook : Walking(g)}
    BY <1>1, <1>n, <1>y DEF ChainDel
  <1>3. /\ Asking(h)' <=> Asking(h)
        /\ Walking(h)' <=> Walking(h)
    BY DEF Asking, Walking
  <1>4. /\ Asking(h) => could'[h] = could[h] \cup {Verdicts'[h]} /\ late'[h] = late[h]
        /\ ~Asking(h) => could'[h] = {} /\ late'[h] = {}
    BY <1>1, <1>3 DEF Remember
  <1>5. /\ Asking(h)' => Verdicts'[h] \in could'[h]
        /\ ~Asking(h)' => could'[h] = {} /\ late'[h] = {}
        /\ hook'[h].at = "default" => chainPolicy'[hook'[h].chain] \in could'[h] \cup late'[h]
    BY <1>3, <1>4 DEF WalkKnown, Asking
  <1>6. ASSUME Walking(h) PROVE \E good \in SUBSET Cell :
                                  (\A x \in good : GoodAt(h, good, x)') /\ Stands(h, good)'
    <2>1. could[h] \subseteq could'[h] /\ late'[h] = late[h] /\ Asking(h) /\ Verdicts'[h] \in could'[h]
      BY <1>3, <1>4, <1>5, <1>6 DEF Asking, Walking
    <2>2. PICK good \in SUBSET Cell : (\A x \in good : GoodAt(h, good, x)) /\ Stands(h, good)
      BY <1>6 DEF WalkKnown
    <2>3. h \notin sees[n] /\ n # HeadOf(d)
      BY <1>1, CellAssumption DEF IInv, SeesInv, HeadOf
    <2>4. \A m, q : Hit(m, q)' <=> Hit(m, q) BY DEF Hit
    <2>5. \A x \in Node : h \in sees[x] => x # n /\ h \in sees'[x] /\ left'[x] = left[x]
      BY <1>1, <1>2, <2>3
    <2>6. CASE d # c
      <3>1. chain'[d] = chain[d] BY <1>1, <1>2, <2>6
      <3>2. \A j : NoneBefore(d, j, p)' <=> NoneBefore(d, j, p) BY <3>1, <2>4 DEF NoneBefore
      <3>3. \A x \in good : GoodAt(h, good, x)'
        BY <2>1, <2>2, <2>4, <2>5, <3>1, <3>2 DEF GoodAt, HeadOf
      <3>4. Stands(h, good)' BY <2>2, <2>5, <3>1, <3>2 DEF Stands, HeadOf
      <3> QED BY <3>3, <3>4
    <2>7. CASE d = c
      <3>t. PICK s, t : s = chain[c] /\ t = chain'[c] OBVIOUS
      <3> USE <3>t, <2>7
      <3>1. /\ s \in Seq(Node) /\ Len(s) \in Nat /\ DOMAIN s = 1 .. Len(s) /\ i \in 1 .. Len(s)
            /\ t \in Seq(Node) /\ DOMAIN t = 1 .. Len(s) - 1
            /\ \A j \in 1 .. Len(s) - 1 : t[j] = IF j < i THEN s[j] ELSE s[j + 1]
        BY <1>1, <1>2, RemoveAtElements
      <3>2. ASSUME NEW k \in DOMAIN s, k # i
            PROVE  \E m \in DOMAIN t :
                     /\ t[m] = s[k]
                     /\ NoneBefore(c, k, p) => NoneBefore(c, m, p)'
                     /\ NoneBefore(c, k + 1, p) => NoneBefore(c, m + 1, p)'
        <4>1. CASE k < i
          <5>1. k \in DOMAIN t /\ t[k] = s[k] BY <3>1, <4>1
          <5>2. \A j \in DOMAIN t : j < k + 1 => j \in DOMAIN s /\ t[j] = s[j]
            <6> SUFFICES ASSUME NEW j \in DOMAIN t, j < k + 1 PROVE j \in DOMAIN s /\ t[j] = s[j] OBVIOUS
            <6>1. k \in Nat /\ j \in 1 .. Len(s) - 1 /\ i \in Nat BY <3>1
            <6>2. j < i BY <6>1, <4>1
            <6>3. t[j] = s[j] BY <3>1, <6>1, <6>2
            <6> QED BY <3>1, <6>1, <6>3
          <5>3. \A j \in DOMAIN t : j < k => j < k + 1 BY <3>1
          <5>4. NoneBefore(c, k, p) => NoneBefore(c, k, p)' BY <5>2, <5>3, <2>4 DEF NoneBefore
          <5>5. NoneBefore(c, k + 1, p) => NoneBefore(c, k + 1, p)' BY <5>2, <2>4 DEF NoneBefore
          <5> QED BY <5>1, <5>4, <5>5
        <4>2. CASE k > i
          <5>1. k - 1 \in DOMAIN t /\ t[k - 1] = s[k] /\ (k - 1) + 1 = k BY <3>1, <4>2
          <5>2. \A j \in DOMAIN t :
                  j < k => \E l \in DOMAIN s : l < k + 1 /\ t[j] = s[l] /\ (j < k - 1 => l < k)
            <6> SUFFICES ASSUME NEW j \in DOMAIN t, j < k
                         PROVE  \E l \in DOMAIN s : l < k + 1 /\ t[j] = s[l] /\ (j < k - 1 => l < k)
              OBVIOUS
            <6>1. k \in Nat /\ j \in 1 .. Len(s) - 1 /\ i \in Nat BY <3>1
            <6>2. t[j] = IF j < i THEN s[j] ELSE s[j + 1] BY <3>1, <6>1
            <6>3. CASE j < i
              <7>1. j \in DOMAIN s /\ j < k + 1 /\ t[j] = s[j] BY <3>1, <6>1, <6>2, <6>3
              <7> QED BY <7>1
            <6>4. CASE ~(j < i)
              <7>1. j + 1 \in DOMAIN s /\ j + 1 < k + 1 /\ t[j] = s[j + 1] /\ (j < k - 1 => j + 1 < k)
                BY <3>1, <6>1, <6>2, <6>4
              <7> QED BY <7>1
            <6> QED BY <6>3, <6>4
          <5>3. \A j \in DOMAIN t : j < k - 1 => j < k BY <3>1
          <5>4. NoneBefore(c, k, p) => NoneBefore(c, k - 1, p)' BY <5>2, <5>3, <2>4 DEF NoneBefore
          <5>5. NoneBefore(c, k + 1, p) => NoneBefore(c, k, p)' BY <5>2, <2>4 DEF NoneBefore
          <5> QED BY <5>1, <5>4, <5>5
        <4> QED BY <3>1, <3>2, <4>1, <4>2
      <3>3. ASSUME NoneBefore(c, i, p) PROVE GoodAt(h, good \cup {y}, y)' /\ y \in Cell
        <4>1. \A j \in DOMAIN t : j < i => ~Hit(t[j], p)
          BY <3>1, <3>3 DEF NoneBefore
        <4>2. n = s[i] /\ \A j \in DOMAIN s : s[j] = n => j = i
          BY <1>1, <3>1 DEF IsInjective
        <4>3. n # HeadOf(c) BY <2>3, <2>7
        <4>4. y = IF i = Len(s) THEN HeadOf(c) ELSE s[i + 1]
          <5>1. (CHOOSE j \in DOMAIN chain[c] : chain[c][j] = n) = i BY <4>2, <3>1
          <5>2. NextOf(c, n) = IF i = Len(chain[c]) THEN HeadOf(c) ELSE chain[c][i + 1]
            BY <1>1, <4>3, <5>1 DEF NextOf
          <5> QED BY <5>2
        <4>5. CASE i = Len(s)
          <5>1. DOMAIN Rules'[c] = DOMAIN t /\ \A j \in DOMAIN t : Rules'[c][j] = rule[t[j]]
            BY DEF Rules
          <5>2. \A j \in DOMAIN t : j < i BY <3>1, <4>5
          <5>3. Table!Decision(Rules', chainPolicy, c, p) = chainPolicy[c]
            BY <4>1, <5>1, <5>2, PolicyDecides DEF Hit
          <5>4. Verdicts'[h] = chainPolicy[c] BY <5>3, <2>7 DEF Verdicts
          <5>5. y = HeadOf(c) BY <4>4, <4>5
          <5> QED BY <2>1, <2>7, <5>4, <5>5 DEF GoodAt, HeadOf, Cell
        <4>6. CASE i # Len(s)
          <5>1. i \in DOMAIN t /\ t[i] = s[i + 1] /\ s[i + 1] \in Node BY <3>1, <4>6
          <5>2. y = t[i] /\ NoneBefore(c, i, p)' BY <4>1, <4>4, <4>6, <5>1, <2>4 DEF NoneBefore
          <5> QED BY <2>7, <5>1, <5>2 DEF GoodAt, Cell
        <4> QED BY <4>5, <4>6
      <3>m. PICK more : more = IF NoneBefore(c, i, p) THEN good \cup {y} ELSE good OBVIOUS
      <3> USE <3>m
      <3>4. NoneBefore(c, i + 1, p) => NoneBefore(c, i, p)
        BY <3>1 DEF NoneBefore
      <3>5. good \subseteq more /\ more \in SUBSET Cell BY <3>3
      <3>6. \A x \in good : GoodAt(h, more, x)'
        <4> TAKE x \in good
        <4>1. CASE x = HeadOf(c) /\ chainPolicy[c] \in could[h] \cup late[h]
          BY <2>1, <2>7, <4>1 DEF GoodAt, HeadOf
        <4>2. CASE \E k \in DOMAIN s : s[k] = x /\ NoneBefore(c, k, p)
          <5>1. PICK k \in DOMAIN s : s[k] = x /\ NoneBefore(c, k, p) BY <4>2
          <5>2. CASE k # i
            <6>1. \E m \in DOMAIN t : t[m] = x /\ NoneBefore(c, m, p)' BY <5>1, <5>2, <3>2
            <6> QED BY <6>1, <2>7 DEF GoodAt
          <5>3. CASE k = i
            <6>1. x = n /\ y \in more BY <5>1, <5>3
            <6>2. h \in sees'[n] /\ left'[n] = y BY <1>2, <1>6
            <6>3. Hit(n, p) => Verdicts[h] = ApplyPolicy(rule[n].policy)
              <7>1. /\ i \in DOMAIN chain[hook[h].chain] /\ chain[hook[h].chain][i] = n
                    /\ NoneBefore(hook[h].chain, i, hook[h].packet)
                BY <5>1, <5>3
              <7> QED BY <7>1, FirstIsVerdict
            <6>4. Hit(n, p) => ApplyPolicy(rule[n].policy) \in could'[h]
              BY <6>3, <2>1 DEF WalkKnown
            <6> QED BY <1>1, <6>1, <6>2, <6>4, <2>4 DEF GoodAt
          <5> QED BY <5>2, <5>3
        <4>3. CASE /\ x \in Node /\ h \in sees[x] /\ left[x] \in good
                   /\ Hit(x, p) => ApplyPolicy(rule[x].policy) \in could[h]
          BY <2>1, <2>4, <2>5, <3>5, <4>3 DEF GoodAt
        <4> QED BY <2>2, <2>7, <4>1, <4>2, <4>3 DEF GoodAt
      <3>7. \A x \in more : GoodAt(h, more, x)' BY <3>3, <3>6
      <3>8. Stands(h, more)'
        <4>1. hook[h].at = "compare" =>
                hook[h].cur \in more /\ hook[h].cur \in Node /\ hook[h].policy = rule[hook[h].cur].policy
          BY <2>2, <3>5 DEF Stands
        <4>2. ASSUME hook[h].at = "next"
              PROVE  \/ hook[h].cur = HeadOf(c)
                     \/ \E k \in DOMAIN t : t[k] = hook[h].cur /\ NoneBefore(c, k + 1, p)'
                     \/ hook[h].cur \in Node /\ h \in sees'[hook[h].cur] /\ left'[hook[h].cur] \in more
          <5>1. CASE hook[h].cur = HeadOf(c) BY <5>1
          <5>2. CASE \E k \in DOMAIN s : s[k] = hook[h].cur /\ NoneBefore(c, k + 1, p)
            <6>1. PICK k \in DOMAIN s : s[k] = hook[h].cur /\ NoneBefore(c, k + 1, p) BY <5>2
            <6>2. CASE k # i BY <6>1, <6>2, <3>2
            <6>3. CASE k = i
              <7>1. hook[h].cur = n /\ y \in more BY <6>1, <6>3, <3>4
              <7> QED BY <7>1, <1>1, <1>2, <1>6
            <6> QED BY <6>2, <6>3
          <5>3. CASE hook[h].cur \in Node /\ h \in sees[hook[h].cur] /\ left[hook[h].cur] \in good
            BY <5>3, <2>5, <3>5
          <5> QED BY <2>2, <2>7, <4>2, <5>1, <5>2, <5>3 DEF Stands
        <4> QED BY <4>1, <4>2, <2>7 DEF Stands, HeadOf
      <3> QED BY <3>5, <3>7, <3>8
    <2> QED BY <2>6, <2>7
  <1> QED BY <1>3, <1>5, <1>6 DEF WalkKnown

-----------------------------------------------------------------------------
(* The table and its packets, as BfTable sees them.                          *)

AskOf(h) ==
  [open |-> Asking(h), chain |-> hook[h].chain, packet |-> hook[h].packet,
   could |-> could[h], late |-> late[h],
   verdict |-> IF Asking(h) THEN "ACCEPT" ELSE hook[h].verdict]

\* A step that BfTable does not see.
LEMMA StepHidden ==
  ASSUME Rules' = Rules, chainPolicy' = chainPolicy, filterOn' = filterOn,
         \A h \in Hook : AskOf(h)' = AskOf(h)
  PROVE  UNCHANGED Table!vars
PROOF
  BY DEF Table!vars, AskOf

\* What the history variables gain is what BfTable asks for.
LEMMA WitnessHolds ==
  ASSUME hook' = hook, Remember, \A h \in Hook : WalkKnown(h)
  PROVE  Table!Witness
PROOF
  <1>1. ASSUME NEW h \in Hook
        PROVE  /\ Asking(h)' <=> Asking(h)
               /\ ~Asking(h) => could'[h] = could[h] /\ late'[h] = late[h]
               /\ Asking(h) =>
                    /\ could'[h] = could[h] \cup
                         {Table!Decision(Rules', chainPolicy', hook[h].chain, hook[h].packet)}
                    /\ late'[h] = IF chainPolicy'[hook[h].chain] # chainPolicy[hook[h].chain]
                                  THEN late[h] \cup {chainPolicy'[hook[h].chain]} ELSE late[h]
    <2>1. Asking(h)' <=> Asking(h) BY DEF Asking
    <2>2. Verdicts'[h] = Table!Decision(Rules', chainPolicy', hook[h].chain, hook[h].packet)
      BY DEF Verdicts
    <2> QED BY <2>1, <2>2 DEF Remember, WalkKnown
  <1> DEFINE New(h) ==
        Table!Open(hook[h].chain, hook[h].packet,
             could[h] \cup {Table!Decision(Rules', chainPolicy', hook[h].chain, hook[h].packet)},
             IF chainPolicy'[hook[h].chain] # chainPolicy[hook[h].chain]
             THEN late[h] \cup {chainPolicy'[hook[h].chain]} ELSE late[h])
  <1>2. \A h \in Hook : AskOf(h)' = IF ~Asking(h) THEN AskOf(h) ELSE New(h)
    <2> TAKE h \in Hook
    <2>0. (Asking(h)' <=> Asking(h)) /\ (Asking(h))' \in BOOLEAN /\ Asking(h) \in BOOLEAN
      BY <1>1 DEF Asking
    <2>1. CASE Asking(h) BY <1>1, <2>0, <2>1 DEF AskOf, Table!Open
    <2>2. CASE ~Asking(h) BY <1>1, <2>0, <2>2 DEF AskOf
    <2> QED BY <2>1, <2>2
  <1>3. [h \in Hook |-> AskOf(h)'] = [h \in Hook |-> IF ~Asking(h) THEN AskOf(h) ELSE New(h)]
    BY <1>2
  <1> QED BY <1>3 DEF Table!Witness, AskOf

-----------------------------------------------------------------------------
(* The steps of the handler, and what is left to RCU.                        *)

\* A step that leaves the chains, the policies and the walks alone.
LEMMA QuietStep ==
  ASSUME IInv, TableInv, Remember,
         hook' = hook, chain' = chain, chainPolicy' = chainPolicy,
         \A n \in hashed : rule'[n] = rule[n],
         \A n \in Node : /\ sees'[n] = sees[n]
                         /\ sees[n] # {} => rule'[n] = rule[n] /\ left'[n] = left[n]
  PROVE  /\ \A h \in Hook : WalkKnown(h)' /\ AskOf(h)' = AskOf(h)
         /\ Rules' = Rules
PROOF
  <1>1. \A h \in Hook : could'[h] = could[h] /\ late'[h] = late[h] /\ WalkKnown(h)'
    <2> TAKE h \in Hook
    <2>1. WalkKnown(h) BY DEF TableInv
    <2> QED BY <2>1, KnownKept
  <1>2. \A h \in Hook : Asking(h)' = Asking(h) BY DEF Asking
  <1>3. Rules' = Rules BY RulesKept
  <1> QED BY <1>1, <1>2, <1>3 DEF AskOf

\* Everything the handler does but link, unlink and set a policy.
LEMMA HandlerQuiet ==
  ASSUME IInv, TableInv, Remember, filterOn' = filterOn,
         \/ UNCHANGED <<store, chainPolicy, filterOn, hook, sees>>
         \/ \E n \in Node : AddRule(n)
         \/ DeleteFromHash \/ DeleteFromFull \/ FlushFull
         \/ \E n \in Node : FreeRule(n)
  PROVE  (\A h \in Hook : WalkKnown(h)') /\ UNCHANGED Table!vars
PROOF
  <1>0. rule \in [Node -> FilterRule] /\ left \in [Node -> Cell] /\ hashed \subseteq Node
    BY DEF IInv, TypeOK
  <1>1. CASE UNCHANGED <<store, chainPolicy, filterOn, hook, sees>>
    BY <1>1, QuietStep, StepHidden DEF store, lists
  <1>2. ASSUME NEW n \in Node, AddRule(n) PROVE (\A h \in Hook : WalkKnown(h)') /\ UNCHANGED Table!vars
    <2>1. n \notin hashed /\ sees[n] = {}
      BY <1>2 DEF AddRule, IInv, HashInv, SeesInv
    <2>2. /\ hook' = hook /\ chain' = chain /\ chainPolicy' = chainPolicy /\ left' = left /\ sees' = sees
          /\ \A m \in Node \ {n} : rule'[m] = rule[m]
      BY <1>0, <1>2 DEF AddRule
    <2> QED BY <1>0, <2>1, <2>2, QuietStep, StepHidden
  <1>3. CASE DeleteFromHash
    BY <1>3, QuietStep, StepHidden DEF DeleteFromHash
  <1>4. CASE DeleteFromFull
    BY <1>4, QuietStep, StepHidden DEF DeleteFromFull
  <1>5. CASE FlushFull
    BY <1>5, QuietStep, StepHidden DEF FlushFull
  <1>6. ASSUME NEW n \in Node, FreeRule(n) PROVE (\A h \in Hook : WalkKnown(h)') /\ UNCHANGED Table!vars
    <2>1. n \notin hashed /\ sees[n] = {}
      BY <1>6 DEF FreeRule, IInv, HashInv, SeesInv
    <2>2. /\ hook' = hook /\ chain' = chain /\ chainPolicy' = chainPolicy /\ sees' = sees
          /\ \A m \in Node \ {n} : rule'[m] = rule[m] /\ left'[m] = left[m]
      BY <1>0, <1>6 DEF FreeRule
    <2> QED BY <1>0, <2>1, <2>2, QuietStep, StepHidden
  <1> QED BY <1>1, <1>2, <1>3, <1>4, <1>5, <1>6

\* skb_write() is the table's switch.
LEMMA SwitchStep ==
  ASSUME IInv, TableInv, Remember, SkbWrite
  PROVE  (\A h \in Hook : WalkKnown(h)') /\ Table!SwitchFilter
PROOF
  <1>1. (\A h \in Hook : WalkKnown(h)' /\ AskOf(h)' = AskOf(h)) /\ Rules' = Rules
    BY QuietStep DEF SkbWrite, store, lists
  <1> QED BY <1>1 DEF Table!SwitchFilter, SkbWrite, AskOf

\* list_del_rcu() is a removal from the table.
LEMMA RemoveStep ==
  ASSUME IInv, TableInv, Remember, NEW c \in Chain, NEW i \in DOMAIN chain[c], ChainDel(c, i),
         UNCHANGED <<rule, hook, chainPolicy, filterOn>>
  PROVE  (\A h \in Hook : WalkKnown(h)') /\ Table!RemoveRule(c, i) /\ i \in DOMAIN Rules[c]
PROOF
  <1>1. \A h \in Hook : WalkKnown(h)'
    <2> TAKE h \in Hook
    <2>1. WalkKnown(h) BY DEF TableInv
    <2> QED BY <2>1, ChainDelKnown
  <1>2. Rules' = [Rules EXCEPT ![c] = RemoveAt(Rules[c], i)] BY RulesRemoved
  <1>3. Table!Witness BY WitnessHolds DEF TableInv
  <1>4. i \in DOMAIN Rules[c] BY DEF Rules
  <1>5. RemoveAt(Rules[c], i) = Table!RemoveAt(Rules[c], i) BY DEF RemoveAt, Table!RemoveAt
  <1> QED BY <1>1, <1>2, <1>3, <1>4, <1>5 DEF Table!RemoveRule

\* The history variables of a walk that stays where it is.
LEMMA HistoryGrows ==
  ASSUME Remember, hook' = hook, NEW h \in Hook, WalkKnown(h), hook[h].chain \in Chain
  PROVE  /\ could[h] \subseteq could'[h] /\ late[h] \subseteq late'[h]
         /\ Asking(h) => Verdicts'[h] \in could'[h]
         /\ Asking(h) /\ chainPolicy[hook[h].chain] \in could[h] \cup late[h] =>
              chainPolicy'[hook[h].chain] \in could'[h] \cup late'[h]
         /\ (WalkKnown(h)' <=>
              (Walking(h) => (\E good \in SUBSET Cell :
                                (\A x \in good : GoodAt(h, good, x)) /\ Stands(h, good))'))
PROOF
  <1>1. (Asking(h)' <=> Asking(h)) /\ (Walking(h)' <=> Walking(h)) BY DEF Asking, Walking
  <1>2. /\ Asking(h) => could'[h] = could[h] \cup {Verdicts'[h]}
        /\ Asking(h) => late'[h] = IF chainPolicy'[hook[h].chain] # chainPolicy[hook[h].chain]
                                   THEN late[h] \cup {chainPolicy'[hook[h].chain]} ELSE late[h]
        /\ ~Asking(h) => could'[h] = {} /\ late'[h] = {}
    BY <1>1 DEF Remember
  <1>3. ~Asking(h) => could[h] = {} /\ late[h] = {} BY DEF WalkKnown
  <1>4. hook[h].at = "default" => chainPolicy[hook[h].chain] \in could[h] \cup late[h] /\ Asking(h)
    BY DEF WalkKnown, Asking
  <1>5. /\ could[h] \subseteq could'[h] /\ late[h] \subseteq late'[h]
        /\ Asking(h) => Verdicts'[h] \in could'[h]
        /\ Asking(h) /\ chainPolicy[hook[h].chain] \in could[h] \cup late[h] =>
              chainPolicy'[hook[h].chain] \in could'[h] \cup late'[h]
    BY <1>2, <1>3
  <1>6. /\ (Asking(h))' => (Verdicts[h] \in could[h])'
        /\ ~(Asking(h))' => could'[h] = {} /\ late'[h] = {}
        /\ hook'[h].at = "default" => chainPolicy'[hook'[h].chain] \in could'[h] \cup late'[h]
    BY <1>1, <1>2, <1>4, <1>5
  <1> QED BY <1>1, <1>5, <1>6 DEF WalkKnown

\* list_add_tail_rcu() is an addition at the end of the table's chain.
LEMMA AddStep ==
  ASSUME IInv, TableInv, Remember, AddToChain, ChainOf[fr.key] \in Chain
  PROVE  (\A h \in Hook : WalkKnown(h)') /\ Table!AddRule(fr)
PROOF
  <1>c. PICK c : c = ChainOf[fr.key] OBVIOUS
  <1>s. PICK s : s = chain[c] OBVIOUS
  <1> USE <1>c, <1>s
  <1>0. /\ c \in Chain /\ s \in Seq(Node) /\ Len(s) \in Nat /\ DOMAIN s = 1 .. Len(s)
        /\ chain \in [Chain -> Seq(Node)] /\ node \in hashed /\ hashed \subseteq Node
        /\ rule[node] = fr /\ node \notin ToSet(s) /\ ToSet(s) \subseteq hashed
    BY DEF AddToChain, IInv, TypeOK, StepInv, ChainInv
  <1>1. /\ chain'[c] = Append(s, node) /\ \A d \in Chain \ {c} : chain'[d] = chain[d]
        /\ UNCHANGED <<rule, left, chainPolicy, filterOn, hook, sees, hashed>>
    BY <1>0 DEF AddToChain
  <1>t. PICK t : t = chain'[c] OBVIOUS
  <1> USE <1>t
  <1>2. DOMAIN t = 1 .. Len(s) + 1 /\ t[Len(s) + 1] = node /\ \A j \in DOMAIN s : t[j] = s[j]
    BY <1>0, <1>1
  <1>3. \A n, q : Hit(n, q)' <=> Hit(n, q) BY <1>1 DEF Hit
  <1>4. ASSUME NEW h \in Hook PROVE WalkKnown(h)'
    <2>1. WalkKnown(h) /\ hook[h].chain \in Chain BY DEF TableInv, IInv, TypeOK
    <2>d. PICK d, p : d = hook[h].chain /\ p = hook[h].packet OBVIOUS
    <2> USE <2>d
    <2>2. \A i \in DOMAIN chain[d] : /\ i \in DOMAIN chain'[d] /\ chain'[d][i] = chain[d][i]
                                     /\ NoneBefore(d, i, p) => NoneBefore(d, i, p)'
                                     /\ NoneBefore(d, i + 1, p) => NoneBefore(d, i + 1, p)'
      <3>1. CASE d = c
        <4> TAKE i \in DOMAIN chain[d]
        <4>1. i \in 1 .. Len(s) /\ i \in DOMAIN t /\ t[i] = s[i] BY <1>0, <1>2, <3>1
        <4>2. \A j \in DOMAIN t : j < i + 1 => j \in DOMAIN s /\ t[j] = s[j]
          BY <1>0, <1>2, <4>1
        <4>3. \A j \in DOMAIN t : j < i => j < i + 1 BY <1>2, <4>1
        <4> QED BY <3>1, <4>1, <4>2, <4>3, <1>3 DEF NoneBefore
      <3>2. CASE d # c
        <4>1. chain'[d] = chain[d] BY <2>1, <1>1, <3>2
        <4> QED BY <4>1, <1>3 DEF NoneBefore
      <3> QED BY <3>1, <3>2
    <2>3. ASSUME Walking(h) PROVE (\E good \in SUBSET Cell :
                                (\A x \in good : GoodAt(h, good, x)) /\ Stands(h, good))'
      <3>1. PICK good \in SUBSET Cell : (\A x \in good : GoodAt(h, good, x)) /\ Stands(h, good)
        BY <2>1, <2>3 DEF WalkKnown
      <3>2. could[h] \subseteq could'[h] /\ late[h] \subseteq late'[h]
        BY <1>1, <2>1, HistoryGrows
      <3>3. \A x \in good : GoodAt(h, good, x)'
        BY <1>1, <1>3, <2>2, <3>1, <3>2, SMTT(30) DEF GoodAt, HeadOf
      <3>4. Stands(h, good)' BY <1>1, <2>2, <3>1, SMTT(30) DEF Stands, HeadOf
      <3> QED BY <3>3, <3>4
    <2> QED BY <1>1, <2>1, <2>3, HistoryGrows
  <1>5. Rules[c] = [j \in DOMAIN s |-> rule[s[j]]] /\ Rules'[c] = [j \in DOMAIN t |-> rule[t[j]]]
    BY <1>0, <1>1 DEF Rules
  <1>6. \A d \in Chain \ {c} : Rules'[d] = Rules[d] BY <1>1 DEF Rules
  <1>7. Rules'[c] = Append(Rules[c], fr)
    <2>r. PICK r : r = [j \in DOMAIN s |-> rule[s[j]]] OBVIOUS
    <2>1. r \in Seq({rule[s[j]] : j \in DOMAIN s}) /\ Len(r) = Len(s) BY <1>0, <2>r, SMTT(30)
    <2>2. Append(r, fr) = [j \in 1 .. Len(s) + 1 |-> IF j = Len(s) + 1 THEN fr ELSE rule[s[j]]]
      <3>1. PICK n \in Nat : n = Len(s) BY <1>0
      <3>2. PICK T : r \in Seq(T) /\ fr \in T
        <4> DEFINE T == {rule[s[j]] : j \in DOMAIN s} \cup {fr}
        <4>1. r \in Seq(T) BY <2>1
        <4>2. fr \in T OBVIOUS
        <4> HIDE DEF T
        <4> QED BY <4>1, <4>2
      <3>3. Len(r) = n BY <2>1, <3>1
      <3>4. Append(r, fr) = [j \in 1 .. n + 1 |-> IF j = n + 1 THEN fr ELSE r[j]]
        BY <3>1, <3>2, <3>3, AppendElements
      <3>5. \A j \in 1 .. n : r[j] = rule[s[j]] BY <1>0, <2>r, <3>1
      <3> QED BY <3>1, <3>4, <3>5
    <2>3. [j \in DOMAIN t |-> rule[t[j]]] =
            [j \in 1 .. Len(s) + 1 |-> IF j = Len(s) + 1 THEN fr ELSE rule[s[j]]]
      BY <1>0, <1>2
    <2> QED BY <1>5, <2>r, <2>2, <2>3
  <1>8. Rules' = [Rules EXCEPT ![c] = Append(Rules[c], fr)] BY <1>0, <1>6, <1>7 DEF Rules
  <1>9. \A i \in DOMAIN Rules[c] : Rules[c][i].key # fr.key
    <2> TAKE i \in DOMAIN Rules[c]
    <2>1. i \in DOMAIN s /\ Rules[c][i] = rule[s[i]] BY <1>5
    <2>2. s[i] \in hashed /\ s[i] # node BY <1>0, <2>1 DEF ToSet
    <2> QED BY <1>0, <2>1, <2>2 DEF IInv, HashInv
  <1>10. Table!Witness BY <1>1, WitnessHolds DEF TableInv
  <1>11. Table!Chain = Chain BY DEF Table!Chain, Chain
  <1> QED BY <1>0, <1>1, <1>4, <1>8, <1>9, <1>10, <1>11 DEF Table!AddRule

\* set_chain_policy().
LEMMA PolicyStep ==
  ASSUME IInv, TableInv, Remember, NEW c \in Client, NEW m \in Msg, RcvChainPolicy(c, m)
  PROVE  (\A h \in Hook : WalkKnown(h)') /\ Table!SetPolicy(chainPolicy')
PROOF
  <1>1. UNCHANGED <<rule, chain, left, hashed, filterOn, hook, sees>>
    BY DEF RcvChainPolicy, store, lists
  <1>2. \A n, q : Hit(n, q)' <=> Hit(n, q) BY <1>1 DEF Hit
  <1>3. ASSUME NEW h \in Hook PROVE WalkKnown(h)'
    <2>1. WalkKnown(h) /\ hook[h].chain \in Chain BY DEF TableInv, IInv, TypeOK
    <2>2. \A i : NoneBefore(hook[h].chain, i, hook[h].packet)' <=> NoneBefore(hook[h].chain, i, hook[h].packet)
      BY <1>1, <1>2 DEF NoneBefore
    <2>3. ASSUME Walking(h) PROVE (\E good \in SUBSET Cell :
                                (\A x \in good : GoodAt(h, good, x)) /\ Stands(h, good))'
      <3>1. PICK good \in SUBSET Cell : (\A x \in good : GoodAt(h, good, x)) /\ Stands(h, good)
        BY <2>1, <2>3 DEF WalkKnown
      <3>2. Asking(h) BY <2>3 DEF Walking, Asking
      <3>3. /\ could[h] \subseteq could'[h] /\ late[h] \subseteq late'[h]
            /\ chainPolicy[hook[h].chain] \in could[h] \cup late[h] =>
                 chainPolicy'[hook[h].chain] \in could'[h] \cup late'[h]
        BY <1>1, <2>1, <3>2, HistoryGrows
      <3>4. \A x \in good : GoodAt(h, good, x)'
        BY <1>1, <1>2, <2>2, <3>1, <3>3 DEF GoodAt, HeadOf
      <3>5. Stands(h, good)' BY <1>1, <2>2, <3>1 DEF Stands, HeadOf
      <3> QED BY <3>4, <3>5
    <2> QED BY <1>1, <2>1, <2>3, HistoryGrows
  <1>4. Rules' = Rules BY <1>1 DEF Rules
  <1>5. Table!Witness BY <1>1, WitnessHolds DEF TableInv
  <1> QED BY <1>1, <1>3, <1>4, <1>5 DEF Table!SetPolicy

-----------------------------------------------------------------------------
(* The steps of a walk.                                                      *)

\* The other walks, while h makes a step.
LEMMA OthersKept ==
  ASSUME IInv, TableInv, Remember, NEW h \in Hook, UNCHANGED <<store, chainPolicy>>,
         \A g \in Hook \ {h} : hook'[g] = hook[g] /\ \A n \in Node : g \in sees'[n] <=> g \in sees[n]
  PROVE  Rules' = Rules /\ \A g \in Hook \ {h} : WalkKnown(g)' /\ AskOf(g)' = AskOf(g)
PROOF
  <1>1. UNCHANGED <<rule, chain, left>> BY DEF store, lists
  <1>2. Rules' = Rules BY <1>1, RulesKept
  <1>3. ASSUME NEW g \in Hook \ {h} PROVE WalkKnown(g)' /\ AskOf(g)' = AskOf(g)
    <2>1. WalkKnown(g) BY DEF TableInv
    <2>2. could'[g] = could[g] /\ late'[g] = late[g] /\ WalkKnown(g)'
      BY <1>1, <2>1, KnownKept
    <2>3. Asking(g)' = Asking(g) BY DEF Asking
    <2> QED BY <2>2, <2>3 DEF AskOf
  <1> QED BY <1>2, <1>3

\* Where ->next leads a walk that has not been told a lie.
LEMMA NextPlace ==
  ASSUME IInv, NEW h \in Hook, hook[h].at = "next", NEW good, Stands(h, good),
         NEW n, n = NextOf(hook[h].chain, hook[h].cur)
  PROVE  \/ n \in good
         \/ /\ n = HeadOf(hook[h].chain)
            /\ \A j \in DOMAIN chain[hook[h].chain] : ~Hit(chain[hook[h].chain][j], hook[h].packet)
         \/ \E i \in DOMAIN chain[hook[h].chain] :
              chain[hook[h].chain][i] = n /\ NoneBefore(hook[h].chain, i, hook[h].packet)
PROOF
  <1>d. PICK c, p, x, s : c = hook[h].chain /\ p = hook[h].packet /\ x = hook[h].cur /\ s = chain[c]
    OBVIOUS
  <1> USE <1>d
  <1>1. /\ c \in Chain /\ s \in Seq(Node) /\ Len(s) \in Nat /\ DOMAIN s = 1 .. Len(s) /\ IsInjective(s)
    BY DEF IInv, TypeOK, ChainInv
  <1>2. CASE x = HeadOf(c)
    <2>1. CASE s = <<>>
      <3>1. n = HeadOf(c) BY <1>2, <2>1 DEF NextOf
      <3> QED BY <2>1, <3>1
    <2>2. CASE s # <<>>
      <3>1. n = chain[c][1] BY <1>2, <2>2 DEF NextOf
      <3>2. 1 \in DOMAIN s /\ \A j \in DOMAIN s : ~(j < 1) BY <1>1, <2>2
      <3> QED BY <3>1, <3>2 DEF NoneBefore
    <2> QED BY <2>1, <2>2
  <1>3. CASE \E i \in DOMAIN s : s[i] = x /\ NoneBefore(c, i + 1, p)
    <2>1. PICK i \in DOMAIN s : s[i] = x /\ NoneBefore(c, i + 1, p) BY <1>3
    <2>2. x \in Node /\ x # HeadOf(c) /\ x \in ToSet(chain[c])
      BY <1>1, <2>1, CellAssumption DEF HeadOf, ToSet
    <2>3. (CHOOSE j \in DOMAIN chain[c] : chain[c][j] = x) = i
      BY <1>1, <2>1 DEF IsInjective
    <2>4. n = IF i = Len(chain[c]) THEN HeadOf(c) ELSE chain[c][i + 1]
      <3>1. NextOf(c, x) = IF (CHOOSE j \in DOMAIN chain[c] : chain[c][j] = x) = Len(chain[c]) THEN HeadOf(c)
                           ELSE chain[c][(CHOOSE j \in DOMAIN chain[c] : chain[c][j] = x) + 1]
        BY <2>2 DEF NextOf
      <3> QED BY <2>3, <3>1
    <2>5. CASE i = Len(s)
      <3>1. \A j \in DOMAIN s : j < i + 1 BY <1>1, <2>5
      <3> QED BY <2>1, <2>4, <2>5, <3>1 DEF NoneBefore
    <2>6. CASE i # Len(s)
      <3>1. i + 1 \in DOMAIN s BY <1>1, <2>6
      <3> QED BY <2>1, <2>4, <2>6, <3>1
    <2> QED BY <2>5, <2>6
  <1>4. CASE x \in Node /\ h \in sees[x] /\ left[x] \in good
    <2>1. x # HeadOf(c) /\ x \notin ToSet(chain[c])
      BY <1>1, <1>4, CellAssumption DEF HeadOf, IInv, SeesInv
    <2>2. n = left[x] BY <2>1 DEF NextOf
    <2> QED BY <1>4, <2>2
  <1> QED BY <1>2, <1>3, <1>4 DEF Stands

\* While a walk goes on, what is good for it stays good.
LEMMA GoodKept ==
  ASSUME NEW h \in Hook, UNCHANGED <<store, chainPolicy, sees>>,
         could'[h] = could[h], late'[h] = late[h],
         hook'[h].chain = hook[h].chain, hook'[h].packet = hook[h].packet,
         NEW good, NEW more, good \subseteq more, NEW x, GoodAt(h, good, x)
  PROVE  GoodAt(h, more, x)'
PROOF
  <1>1. UNCHANGED <<rule, chain, left>> BY DEF store, lists
  <1>2. \A m, q : Hit(m, q)' <=> Hit(m, q) BY <1>1 DEF Hit
  <1>3. \A c, i, q : NoneBefore(c, i, q)' <=> NoneBefore(c, i, q) BY <1>1, <1>2 DEF NoneBefore
  <1> QED BY <1>1, <1>2, <1>3 DEF GoodAt, HeadOf

\* A walk that goes on is still being asked the same.
LEMMA AskKept ==
  ASSUME TableInv, Remember, Rules' = Rules, chainPolicy' = chainPolicy, NEW h \in Hook,
         Asking(h), Asking(h)',
         hook'[h].chain = hook[h].chain, hook'[h].packet = hook[h].packet
  PROVE  could'[h] = could[h] /\ late'[h] = late[h] /\ Verdicts'[h] = Verdicts[h] /\ AskOf(h)' = AskOf(h)
PROOF
  <1>1. Verdicts'[h] = Verdicts[h] BY DEF Verdicts
  <1>2. Verdicts[h] \in could[h] BY DEF TableInv, WalkKnown
  <1>3. could'[h] = could[h] /\ late'[h] = late[h] BY <1>1, <1>2 DEF Remember
  <1>4. Asking(h)' = Asking(h) BY DEF Asking
  <1> QED BY <1>1, <1>3, <1>4 DEF AskOf

LEMMA HookNextStep ==
  ASSUME IInv, TableInv, Remember, NEW h \in Hook, HookNext(h)
  PROVE  (\A g \in Hook : WalkKnown(g)') /\ UNCHANGED Table!vars
PROOF
  <1>d. PICK c, p, n : c = hook[h].chain /\ p = hook[h].packet /\ n = NextOf(c, hook[h].cur) OBVIOUS
  <1> USE <1>d
  <1>1. /\ hook[h].at = "next" /\ n # HeadOf(c)
        /\ hook' = [hook EXCEPT ![h].at = "compare", ![h].cur = n, ![h].policy = rule[n].policy]
        /\ UNCHANGED <<store, chainPolicy, filterOn, sees>>
    BY DEF HookNext
  <1>2. hook \in [Hook -> [at : {"idle", "next", "compare", "default", "done"},
                        chain : Chain, packet : Packet, cur : Cell,
                        policy : Policy, verdict : Verdict]]
    BY DEF IInv, TypeOK
  <1>3. /\ hook'[h].at = "compare" /\ hook'[h].cur = n /\ hook'[h].policy = rule[n].policy
        /\ hook'[h].chain = c /\ hook'[h].packet = p
        /\ \A g \in Hook \ {h} : hook'[g] = hook[g]
    BY <1>1, <1>2
  <1>4. Asking(h) /\ Asking(h)' /\ Walking(h) /\ Walking(h)' /\ WalkKnown(h)
    BY <1>1, <1>3 DEF Asking, Walking, TableInv
  <1>5. Rules' = Rules /\ \A g \in Hook \ {h} : WalkKnown(g)' /\ AskOf(g)' = AskOf(g)
    BY <1>1, <1>3, OthersKept
  <1>6. could'[h] = could[h] /\ late'[h] = late[h] /\ Verdicts'[h] = Verdicts[h] /\ AskOf(h)' = AskOf(h)
    BY <1>1, <1>3, <1>4, <1>5, AskKept
  <1>7. PICK good \in SUBSET Cell : (\A x \in good : GoodAt(h, good, x)) /\ Stands(h, good)
    BY <1>4 DEF WalkKnown
  <1>8. n \in Node
    <2>1. OnPath(c, hook[h].cur, h) /\ c \in Chain BY <1>2, <1>4 DEF IInv, WalkInv
    <2>2. OnPath(c, n, h) BY <2>1, NextOnPath
    <2> QED BY <1>1, <2>2 DEF OnPath
  <1>m. PICK more : more = good \cup {n} OBVIOUS
  <1>9. GoodAt(h, more, n)
    <2>1. CASE n \in good
      <3>1. more = good BY <1>m, <2>1
      <3> QED BY <1>7, <2>1, <3>1
    <2>2. CASE \E i \in DOMAIN chain[c] : chain[c][i] = n /\ NoneBefore(c, i, p)
      BY <2>2 DEF GoodAt
    <2> QED BY <1>1, <1>7, <2>1, <2>2, NextPlace
  <1>10. \A x \in more : GoodAt(h, more, x)'
    <2>1. \A x \in good : GoodAt(h, more, x)'
      BY <1>1, <1>3, <1>6, <1>7, <1>m, GoodKept
    <2>2. GoodAt(h, more, n)' BY <1>1, <1>3, <1>6, <1>9, GoodKept
    <2> QED BY <1>m, <2>1, <2>2
  <1>11. Stands(h, more)'
    <2>1. rule' = rule BY <1>1 DEF store
    <2> QED BY <1>3, <1>8, <1>m, <2>1 DEF Stands
  <1>12. WalkKnown(h)'
    <2>1. more \in SUBSET Cell BY <1>8, <1>m DEF Cell
    <2>2. hook'[h].at # "default" BY <1>3
    <2>3. Verdicts[h] \in could[h] BY <1>4 DEF WalkKnown
    <2> QED BY <1>4, <1>6, <1>10, <1>11, <2>1, <2>2, <2>3 DEF WalkKnown
  <1> QED BY <1>1, <1>5, <1>6, <1>12, StepHidden

LEMMA HookSkipStep ==
  ASSUME IInv, TableInv, Remember, NEW h \in Hook, HookSkip(h)
  PROVE  (\A g \in Hook : WalkKnown(g)') /\ UNCHANGED Table!vars
PROOF
  <1>d. PICK c, p, x : c = hook[h].chain /\ p = hook[h].packet /\ x = hook[h].cur OBVIOUS
  <1> USE <1>d
  <1>1. /\ hook[h].at = "compare" /\ ~Hit(x, p)
        /\ hook' = [hook EXCEPT ![h].at = "next"]
        /\ UNCHANGED <<store, chainPolicy, filterOn, sees>>
    BY DEF HookSkip, Hits, Hit
  <1>2. hook \in [Hook -> [at : {"idle", "next", "compare", "default", "done"},
                        chain : Chain, packet : Packet, cur : Cell,
                        policy : Policy, verdict : Verdict]]
    BY DEF IInv, TypeOK
  <1>3. /\ hook'[h].at = "next" /\ hook'[h].cur = x /\ hook'[h].chain = c /\ hook'[h].packet = p
        /\ \A g \in Hook \ {h} : hook'[g] = hook[g]
    BY <1>1, <1>2
  <1>4. Asking(h) /\ Asking(h)' /\ Walking(h) /\ Walking(h)' /\ WalkKnown(h)
    BY <1>1, <1>3 DEF Asking, Walking, TableInv
  <1>5. Rules' = Rules /\ \A g \in Hook \ {h} : WalkKnown(g)' /\ AskOf(g)' = AskOf(g)
    BY <1>1, <1>3, OthersKept
  <1>6. could'[h] = could[h] /\ late'[h] = late[h] /\ Verdicts'[h] = Verdicts[h] /\ AskOf(h)' = AskOf(h)
    BY <1>1, <1>3, <1>4, <1>5, AskKept
  <1>7. PICK good \in SUBSET Cell : (\A y \in good : GoodAt(h, good, y)) /\ Stands(h, good)
    BY <1>4 DEF WalkKnown
  <1>8. \A y \in good : GoodAt(h, good, y)' BY <1>1, <1>3, <1>6, <1>7, GoodKept
  <1>9. Stands(h, good)'
    <2>1. UNCHANGED <<rule, chain, left>> BY <1>1 DEF store, lists
    <2>2. \A m, q : Hit(m, q)' <=> Hit(m, q) BY <2>1 DEF Hit
    <2>3. x \in Node /\ x # HeadOf(c) /\ GoodAt(h, good, x)
      BY <1>1, <1>7, CellAssumption DEF Stands, HeadOf
    <2>4. CASE \E i \in DOMAIN chain[c] : chain[c][i] = x /\ NoneBefore(c, i, p)
      <3>1. PICK i \in DOMAIN chain[c] : chain[c][i] = x /\ NoneBefore(c, i, p) BY <2>4
      <3>2. \A j \in DOMAIN chain[c] : j < i + 1 => j < i \/ j = i
        <4>1. chain[c] \in Seq(Node) BY <1>2 DEF IInv, TypeOK
        <4> QED BY <3>1, <4>1
      <3>3. NoneBefore(c, i + 1, p) BY <1>1, <3>1, <3>2 DEF NoneBefore
      <3>4. NoneBefore(c, i + 1, p)' BY <2>1, <2>2, <3>3 DEF NoneBefore
      <3> QED BY <1>3, <2>1, <3>1, <3>4 DEF Stands
    <2>5. CASE x \in Node /\ h \in sees[x] /\ left[x] \in good
      BY <1>1, <1>3, <2>1, <2>5 DEF Stands
    <2> QED BY <2>3, <2>4, <2>5 DEF GoodAt
  <1>10. WalkKnown(h)'
    <2>1. hook'[h].at # "default" BY <1>3
    <2>2. Verdicts[h] \in could[h] BY <1>4 DEF WalkKnown
    <2> QED BY <1>4, <1>6, <1>8, <1>9, <2>1, <2>2 DEF WalkKnown
  <1> QED BY <1>1, <1>5, <1>6, <1>10, StepHidden

\* The walk is over, and the chain's policy is one it may get.
LEMMA HookEndStep ==
  ASSUME IInv, TableInv, Remember, NEW h \in Hook, HookEnd(h)
  PROVE  (\A g \in Hook : WalkKnown(g)') /\ UNCHANGED Table!vars
PROOF
  <1>d. PICK c, p, n : c = hook[h].chain /\ p = hook[h].packet /\ n = HeadOf(c) OBVIOUS
  <1> USE <1>d
  <1>1. /\ hook[h].at = "next" /\ n = NextOf(c, hook[h].cur)
        /\ hook' = [hook EXCEPT ![h].at = "default", ![h].cur = n]
        /\ UNCHANGED <<store, chainPolicy, filterOn>>
        /\ sees' = [m \in Node |-> sees[m] \ {h}]
    BY DEF HookEnd, SectionEnds
  <1>2. hook \in [Hook -> [at : {"idle", "next", "compare", "default", "done"},
                        chain : Chain, packet : Packet, cur : Cell,
                        policy : Policy, verdict : Verdict]] /\ sees \in [Node -> SUBSET Hook]
    BY DEF IInv, TypeOK
  <1>3. /\ hook'[h].at = "default" /\ hook'[h].chain = c /\ hook'[h].packet = p
        /\ \A g \in Hook \ {h} : hook'[g] = hook[g] /\ \A m \in Node : g \in sees'[m] <=> g \in sees[m]
    BY <1>1, <1>2
  <1>4. Asking(h) /\ Asking(h)' /\ Walking(h) /\ ~Walking(h)' /\ WalkKnown(h)
    BY <1>1, <1>3 DEF Asking, Walking, TableInv
  <1>5. Rules' = Rules /\ \A g \in Hook \ {h} : WalkKnown(g)' /\ AskOf(g)' = AskOf(g)
    BY <1>1, <1>3, OthersKept
  <1>6. could'[h] = could[h] /\ late'[h] = late[h] /\ Verdicts'[h] = Verdicts[h] /\ AskOf(h)' = AskOf(h)
    BY <1>1, <1>3, <1>4, <1>5, AskKept
  <1>7. PICK good \in SUBSET Cell : (\A y \in good : GoodAt(h, good, y)) /\ Stands(h, good)
    BY <1>4 DEF WalkKnown
  <1>8. Verdicts[h] \in could[h] BY <1>4 DEF WalkKnown
  <1>9. c \in Chain /\ chain[c] \in Seq(Node) BY <1>2 DEF IInv, TypeOK
  <1>10. \A i \in DOMAIN chain[c] : chain[c][i] # n
    BY <1>9, CellAssumption DEF HeadOf
  <1>11. chainPolicy[c] \in could[h] \cup late[h]
    <2>1. CASE n \in good
      <3>1. GoodAt(h, good, n) /\ n \notin Node BY <1>7, <2>1, CellAssumption DEF HeadOf
      <3> QED BY <1>10, <3>1 DEF GoodAt
    <2>2. CASE \A j \in DOMAIN chain[c] : ~Hit(chain[c][j], p)
      <3>1. DOMAIN Rules[c] = DOMAIN chain[c] /\ \A j \in DOMAIN chain[c] : Rules[c][j] = rule[chain[c][j]]
        BY <1>9 DEF Rules
      <3>2. Table!Decision(Rules, chainPolicy, c, p) = chainPolicy[c]
        BY <2>2, <3>1, PolicyDecides DEF Hit
      <3> QED BY <1>8, <3>2 DEF Verdicts
    <2>3. \/ n \in good
          \/ \A j \in DOMAIN chain[c] : ~Hit(chain[c][j], p)
          \/ \E i \in DOMAIN chain[c] : chain[c][i] = n
      BY <1>1, <1>7, NextPlace
    <2> QED BY <1>10, <2>1, <2>2, <2>3
  <1>12. WalkKnown(h)'
    BY <1>1, <1>3, <1>4, <1>6, <1>8, <1>11 DEF WalkKnown
  <1> QED BY <1>1, <1>5, <1>6, <1>12, StepHidden

\* A walk that ends with a verdict it may give.
LEMMA DecideStep ==
  ASSUME Rules' = Rules, chainPolicy' = chainPolicy, filterOn' = filterOn, Remember,
         NEW h \in Hook, Asking(h), ~(Asking(h))', NEW v, v \in could[h] \cup late[h],
         hook'[h].chain = hook[h].chain, hook'[h].packet = hook[h].packet, hook'[h].verdict = v,
         \A g \in Hook \ {h} : AskOf(g)' = AskOf(g)
  PROVE  Table!Decide(h, v) /\ could'[h] = {} /\ late'[h] = {}
PROOF
  <1>1. could'[h] = {} /\ late'[h] = {} BY DEF Remember
  <1>2. (Asking(h))' = FALSE BY DEF Asking
  <1>3. AskOf(h)' = Table!Quiet(hook[h].chain, hook[h].packet, v)
    BY <1>1, <1>2 DEF AskOf, Table!Quiet
  <1>4. [g \in Hook |-> AskOf(g)'] =
          [[g \in Hook |-> AskOf(g)] EXCEPT ![h] = Table!Quiet(hook[h].chain, hook[h].packet, v)]
    BY <1>3
  <1>5. AskOf(h).chain = hook[h].chain /\ AskOf(h).packet = hook[h].packet
    BY DEF AskOf
  <1> QED BY <1>1, <1>4, <1>5 DEF Table!Decide, AskOf

LEMMA HookMatchStep ==
  ASSUME IInv, TableInv, Remember, NEW h \in Hook, HookMatch(h)
  PROVE  (\A g \in Hook : WalkKnown(g)') /\ \E v \in Verdict : Table!Decide(h, v)
PROOF
  <1>d. PICK c, p, x : c = hook[h].chain /\ p = hook[h].packet /\ x = hook[h].cur OBVIOUS
  <1> USE <1>d
  <1>1. /\ hook[h].at = "compare" /\ Hit(x, p)
        /\ hook' = [hook EXCEPT ![h].at = "done", ![h].cur = HeadOf(hook[h].chain),
                                ![h].verdict = ApplyPolicy(hook[h].policy)]
        /\ UNCHANGED <<store, chainPolicy, filterOn>>
        /\ sees' = [m \in Node |-> sees[m] \ {h}]
    BY DEF HookMatch, Hits, Hit, SectionEnds
  <1>2. hook \in [Hook -> [at : {"idle", "next", "compare", "default", "done"},
                        chain : Chain, packet : Packet, cur : Cell,
                        policy : Policy, verdict : Verdict]] /\ sees \in [Node -> SUBSET Hook]
    BY DEF IInv, TypeOK
  <1>3. /\ hook'[h].at = "done" /\ hook'[h].chain = c /\ hook'[h].packet = p
        /\ hook'[h].verdict = ApplyPolicy(hook[h].policy)
        /\ \A g \in Hook \ {h} : hook'[g] = hook[g] /\ \A m \in Node : g \in sees'[m] <=> g \in sees[m]
    BY <1>1, <1>2
  <1>4. Asking(h) /\ ~(Asking(h))' /\ Walking(h) /\ ~Walking(h)' /\ WalkKnown(h)
    BY <1>1, <1>3 DEF Asking, Walking, TableInv
  <1>5. Rules' = Rules /\ \A g \in Hook \ {h} : WalkKnown(g)' /\ AskOf(g)' = AskOf(g)
    BY <1>1, <1>3, OthersKept
  <1>6. PICK good \in SUBSET Cell : (\A y \in good : GoodAt(h, good, y)) /\ Stands(h, good)
    BY <1>4 DEF WalkKnown
  <1>7. x \in Node /\ x # HeadOf(c) /\ GoodAt(h, good, x) /\ hook[h].policy = rule[x].policy
    BY <1>1, <1>6, CellAssumption DEF Stands, HeadOf
  <1>8. ApplyPolicy(rule[x].policy) \in could[h]
    <2>1. CASE \E i \in DOMAIN chain[c] : chain[c][i] = x /\ NoneBefore(c, i, p)
      <3>1. PICK i \in DOMAIN chain[c] : chain[c][i] = x /\ NoneBefore(c, i, p) BY <2>1
      <3>2. Verdicts[h] = ApplyPolicy(rule[x].policy)
        <4>1. /\ i \in DOMAIN chain[hook[h].chain] /\ chain[hook[h].chain][i] = x
              /\ Hit(chain[hook[h].chain][i], hook[h].packet)
              /\ NoneBefore(hook[h].chain, i, hook[h].packet)
          BY <1>1, <3>1
        <4> QED BY <4>1, FirstIsVerdict
      <3> QED BY <1>4, <3>2 DEF WalkKnown
    <2> QED BY <1>1, <1>7, <2>1 DEF GoodAt
  <1>9. (\E v \in Verdict : Table!Decide(h, v)) /\ could'[h] = {} /\ late'[h] = {}
    <2>1. PICK v : v = hook'[h].verdict OBVIOUS
    <2>2. v \in could[h] \cup late[h] /\ v \in Verdict
      BY <1>3, <1>7, <1>8, <2>1 DEF ApplyPolicy, Verdict
    <2>3. Table!Decide(h, v) /\ could'[h] = {} /\ late'[h] = {}
      BY <1>1, <1>3, <1>4, <1>5, <2>1, <2>2, DecideStep
    <2> QED BY <2>2, <2>3
  <1>10. WalkKnown(h)' BY <1>3, <1>4, <1>9 DEF WalkKnown
  <1> QED BY <1>5, <1>9, <1>10

LEMMA HookDefaultStep ==
  ASSUME IInv, TableInv, Remember, NEW h \in Hook, HookDefault(h)
  PROVE  (\A g \in Hook : WalkKnown(g)') /\ \E v \in Verdict : Table!Decide(h, v)
PROOF
  <1>1. /\ hook[h].at = "default"
        /\ hook' = [hook EXCEPT ![h].at = "done", ![h].verdict = chainPolicy[hook[h].chain]]
        /\ UNCHANGED <<store, chainPolicy, filterOn, sees>>
    BY DEF HookDefault
  <1>2. hook \in [Hook -> [at : {"idle", "next", "compare", "default", "done"},
                        chain : Chain, packet : Packet, cur : Cell,
                        policy : Policy, verdict : Verdict]]
    BY DEF IInv, TypeOK
  <1>3. /\ hook'[h].at = "done" /\ hook'[h].chain = hook[h].chain /\ hook'[h].packet = hook[h].packet
        /\ hook'[h].verdict = chainPolicy[hook[h].chain]
        /\ \A g \in Hook \ {h} : hook'[g] = hook[g]
    BY <1>1, <1>2
  <1>4. Asking(h) /\ ~(Asking(h))' /\ ~Walking(h)' /\ WalkKnown(h)
    BY <1>1, <1>3 DEF Asking, Walking, TableInv
  <1>5. Rules' = Rules /\ \A g \in Hook \ {h} : WalkKnown(g)' /\ AskOf(g)' = AskOf(g)
    BY <1>1, <1>3, OthersKept
  <1>6. chainPolicy[hook[h].chain] \in could[h] \cup late[h] BY <1>1, <1>4 DEF WalkKnown
  <1>7. (\E v \in Verdict : Table!Decide(h, v)) /\ could'[h] = {} /\ late'[h] = {}
    <2>1. PICK v : v = hook'[h].verdict OBVIOUS
    <2>2. v \in could[h] \cup late[h] /\ v \in Verdict
      BY <1>2, <1>3, <1>6, <2>1 DEF IInv, TypeOK
    <2>3. Table!Decide(h, v) /\ could'[h] = {} /\ late'[h] = {}
      BY <1>1, <1>3, <1>4, <1>5, <2>1, <2>2, DecideStep
    <2> QED BY <2>2, <2>3
  <1>8. WalkKnown(h)' BY <1>3, <1>4, <1>7 DEF WalkKnown
  <1> QED BY <1>5, <1>7, <1>8

\* A packet comes: with the filter on, what the table says now is its first witness.
LEMMA HookBeginStep ==
  ASSUME IInv, TableInv, Remember, NEW h \in Hook, NEW c \in Chain, NEW p \in Packet, HookBegin(h, c, p)
  PROVE  (\A g \in Hook : WalkKnown(g)') /\ Table!Ask(h, c, p)
PROOF
  <1>1. /\ hook[h].at \in {"idle", "done"}
        /\ hook' = [hook EXCEPT ![h] =
             [at |-> IF filterOn THEN "next" ELSE "done", chain |-> c, packet |-> p,
              cur |-> HeadOf(c), policy |-> "NONE", verdict |-> "ACCEPT"]]
        /\ UNCHANGED <<store, chainPolicy, filterOn, sees>>
    BY DEF HookBegin
  <1>2. hook \in [Hook -> [at : {"idle", "next", "compare", "default", "done"},
                        chain : Chain, packet : Packet, cur : Cell,
                        policy : Policy, verdict : Verdict]]
    BY DEF IInv, TypeOK
  <1>3. /\ hook'[h] = [at |-> IF filterOn THEN "next" ELSE "done", chain |-> c, packet |-> p,
                        cur |-> HeadOf(c), policy |-> "NONE", verdict |-> "ACCEPT"]
        /\ \A g \in Hook \ {h} : hook'[g] = hook[g]
    BY <1>1, <1>2
  <1>4. Rules' = Rules /\ \A g \in Hook \ {h} : WalkKnown(g)' /\ AskOf(g)' = AskOf(g)
    BY <1>1, <1>3, OthersKept
  <1>5. Asking(h) = FALSE BY <1>1 DEF Asking
  <1>6. /\ hook'[h].chain = c /\ hook'[h].packet = p /\ hook'[h].cur = HeadOf(c)
        /\ hook'[h].verdict = "ACCEPT"
        /\ filterOn => hook'[h].at = "next"
        /\ ~filterOn => hook'[h].at = "done"
    BY <1>3
  <1>7. Verdicts'[h] = Table!Decision(Rules, chainPolicy, c, p)
    BY <1>1, <1>4, <1>6 DEF Verdicts
  <1>8. could[h] = {} /\ late[h] = {} BY <1>5 DEF TableInv, WalkKnown
  <1>9. CASE filterOn
    <2>1. (Asking(h))' = TRUE BY <1>6, <1>9 DEF Asking
    <2>2. could'[h] = {Verdicts'[h]} /\ late'[h] = {}
      BY <1>5, <1>8, <2>1 DEF Remember
    <2>3. AskOf(h)' = Table!Open(c, p, {Table!Decision(Rules, chainPolicy, c, p)}, {})
      BY <1>6, <1>7, <2>1, <2>2 DEF AskOf, Table!Open
    <2>4. Stands(h, {})' BY <1>6, <1>9 DEF Stands
    <2>5. WalkKnown(h)'
      <3>1. {} \in SUBSET Cell /\ (\A x \in {} : GoodAt(h, {}, x))' OBVIOUS
      <3> QED BY <1>6, <1>9, <2>1, <2>2, <2>4, <3>1 DEF WalkKnown
    <2>6. [g \in Hook |-> AskOf(g)'] =
            [[g \in Hook |-> AskOf(g)] EXCEPT
               ![h] = IF filterOn THEN Table!Open(c, p, {Table!Decision(Rules, chainPolicy, c, p)}, {})
                                  ELSE Table!Quiet(c, p, "ACCEPT")]
      BY <1>4, <1>9, <2>3
    <2> QED BY <1>1, <1>4, <1>5, <2>5, <2>6 DEF Table!Ask, AskOf
  <1>10. CASE ~filterOn
    <2>1. (Asking(h))' = FALSE BY <1>6, <1>10 DEF Asking
    <2>2. could'[h] = {} /\ late'[h] = {} BY <2>1 DEF Remember
    <2>3. AskOf(h)' = Table!Quiet(c, p, "ACCEPT")
      BY <1>6, <2>1, <2>2 DEF AskOf, Table!Quiet
    <2>4. WalkKnown(h)'
      <3>1. ~Walking(h)' BY <1>6, <1>10 DEF Walking
      <3> QED BY <1>6, <1>10, <2>1, <2>2, <3>1 DEF WalkKnown
    <2>5. [g \in Hook |-> AskOf(g)'] =
            [[g \in Hook |-> AskOf(g)] EXCEPT
               ![h] = IF filterOn THEN Table!Open(c, p, {Table!Decision(Rules, chainPolicy, c, p)}, {})
                                  ELSE Table!Quiet(c, p, "ACCEPT")]
      BY <1>4, <1>10, <2>3
    <2> QED BY <1>1, <1>4, <1>5, <2>4, <2>5 DEF Table!Ask, AskOf
  <1> QED BY <1>9, <1>10

-----------------------------------------------------------------------------
(* The refinement.                                                           *)

\* The handler works on a rule that somebody sent, and not on an update.
LEMMA AddedStep ==
  ASSUME NoUpdates, IInv, AddedInv, Next
  PROVE  AddedInv'
PROOF
  <1>1. ASSUME NEW c \in Client, NEW m \in Msg, Receive(c, m) PROVE AddedInv'
    <2>1. m.type # "UPDATE_RULE" BY DEF NoUpdates
    <2>2. CASE RcvAddNew(c, m) BY <2>2 DEF RcvAddNew, Enter, AddedInv
    <2>3. CASE RcvDelete(c, m) BY <2>3 DEF RcvDelete, Enter, AddedInv
    <2>4. CASE RcvDeleteAll(c, m) BY <2>4 DEF RcvDeleteAll, Enter, AddedInv
    <2>5. CASE RcvAddPolicyRule(c, m) \/ RcvAddExisting(c, m) \/ RcvMissing(c, m) \/ RcvChainPolicy(c, m)
      BY <2>5 DEF RcvAddPolicyRule, RcvAddExisting, RcvMissing, RcvChainPolicy, EnterAndLeave, AddedInv
    <2> QED BY <1>1, <2>1, <2>2, <2>3, <2>4, <2>5 DEF Receive, RcvUpdate
  <1>2. ASSUME Handle PROVE AddedInv'
    <2>1. CASE \E n \in Node : AddRule(n) BY <2>1 DEF AddRule, AddedInv
    <2>2. CASE AddToChain BY <2>2 DEF AddToChain, Forget, AddedInv
    <2>3. CASE UpdateOff \/ UpdatePolicy BY <2>3 DEF UpdateOff, UpdatePolicy, AddedInv
    <2>4. CASE DeleteFromIn \/ DeleteFromOut \/ DeleteFromHash
      BY <2>4 DEF DeleteFromIn, DeleteFromOut, DeleteFromHash, DeleteFromChain, Goto, AddedInv
    <2>5. CASE DeleteFromFull \/ FlushFull
      BY <2>5 DEF DeleteFromFull, FlushFull, handler, AddedInv
    <2>6. CASE FlushIn \/ FlushOut
      BY <2>6 DEF FlushIn, FlushOut, FlushChain, Goto, handler, AddedInv
    <2>7. CASE DeleteDone \/ FlushDone
      BY <2>7 DEF DeleteDone, FlushDone, Leave, Forget, AddedInv
    <2> QED BY <1>2, <2>1, <2>2, <2>3, <2>4, <2>5, <2>6, <2>7 DEF Handle
  <1>3. CASE UNCHANGED handler BY <1>3 DEF handler, AddedInv
  <1>4. CASE \/ \E h \in Hook : Filter(h)
             \/ \E h \in Hook, c \in Chain, p \in Packet : HookBegin(h, c, p)
             \/ \E n \in Node : FreeRule(n)
             \/ SkbWrite
    BY <1>3, <1>4 DEF Filter, HookNext, HookMatch, HookSkip, HookEnd, HookDefault, HookBegin,
                      FreeRule, SkbWrite
  <1> QED BY <1>1, <1>2, <1>4 DEF Next

\* Every step of the handler is one of the table, or hidden from it.
LEMMA HandleStep ==
  ASSUME IInv, TableInv, Remember, Handle
  PROVE  (\A h \in Hook : WalkKnown(h)') /\ (Table!Next \/ UNCHANGED Table!vars)
PROOF
  <1>0. Table!Chain = Chain BY DEF Table!Chain, Chain
  <1>1. CASE (\E n \in Node : AddRule(n)) \/ DeleteFromHash \/ DeleteFromFull \/ FlushFull
    <2>1. filterOn' = filterOn BY <1>1 DEF AddRule, DeleteFromHash, DeleteFromFull, FlushFull
    <2> QED BY <1>1, <2>1, HandlerQuiet
  <1>2. CASE DeleteDone \/ FlushDone
    <2>1. UNCHANGED <<store, chainPolicy, filterOn, hook, sees>> BY <1>2 DEF DeleteDone, FlushDone
    <2> QED BY <2>1, HandlerQuiet
  <1>3. CASE AddToChain
    <2>1. CASE ChainOf[fr.key] \in Chain
      <3>1. fr \in {m.fr : m \in Msg} BY <1>3 DEF AddToChain, TableInv, AddedInv
      <3>2. (\A h \in Hook : WalkKnown(h)') /\ Table!AddRule(fr) BY <1>3, <2>1, AddStep
      <3> QED BY <3>1, <3>2 DEF Table!Next
    <2>2. CASE ChainOf[fr.key] \notin Chain
      <3>1. UNCHANGED <<store, chainPolicy, filterOn, hook, sees>>
        BY <1>3, <2>2 DEF AddToChain, store, lists
      <3> QED BY <3>1, HandlerQuiet
    <2> QED BY <2>1, <2>2
  <1>4. CASE UpdateOff \/ UpdatePolicy
    BY <1>4 DEF UpdateOff, UpdatePolicy, TableInv, AddedInv
  <1>5. ASSUME NEW c \in Chain, NEW i \in DOMAIN chain[c], ChainDel(c, i),
               UNCHANGED <<rule, hook, chainPolicy, filterOn>>
        PROVE  (\A h \in Hook : WalkKnown(h)') /\ (Table!Next \/ UNCHANGED Table!vars)
    BY <1>0, <1>5, RemoveStep DEF Table!Next
  <1>6. ASSUME NEW c \in Chain, NEW here, NEW next, DeleteFromChain(c, here, next)
        PROVE  (\A h \in Hook : WalkKnown(h)') /\ (Table!Next \/ UNCHANGED Table!vars)
    <2>1. CASE UNCHANGED <<chain, left, sees>>
      <3>1. UNCHANGED <<store, chainPolicy, filterOn, hook, sees>>
        BY <1>6, <2>1 DEF DeleteFromChain, store, lists
      <3> QED BY <3>1, HandlerQuiet
    <2>2. CASE \E i \in DOMAIN chain[c] : ChainDel(c, i)
      <3>1. UNCHANGED <<rule, hook, chainPolicy, filterOn>> BY <1>6 DEF DeleteFromChain
      <3> QED BY <1>5, <2>2, <3>1
    <2> QED BY <1>6, <2>1, <2>2 DEF DeleteFromChain
  <1>7. ASSUME NEW c \in Chain, NEW here, NEW next, FlushChain(c, here, next)
        PROVE  (\A h \in Hook : WalkKnown(h)') /\ (Table!Next \/ UNCHANGED Table!vars)
    <2>1. CASE chain[c] = <<>>
      <3>1. UNCHANGED <<store, chainPolicy, filterOn, hook, sees>>
        BY <1>7, <2>1 DEF FlushChain, store, lists
      <3> QED BY <3>1, HandlerQuiet
    <2>2. CASE chain[c] # <<>>
      <3>1. ChainDel(c, 1) /\ UNCHANGED <<rule, hook, chainPolicy, filterOn>>
        BY <1>7, <2>2 DEF FlushChain
      <3>2. 1 \in DOMAIN chain[c]
        <4>1. chain[c] \in Seq(Node) BY DEF IInv, TypeOK
        <4> QED BY <2>2, <4>1
      <3> QED BY <1>5, <3>1, <3>2
    <2> QED BY <2>1, <2>2
  <1>8. "INPUT" \in Chain /\ "OUTPUT" \in Chain BY DEF Chain
  <1>9. CASE DeleteFromIn \/ DeleteFromOut
    BY <1>6, <1>8, <1>9 DEF DeleteFromIn, DeleteFromOut
  <1>10. CASE FlushIn \/ FlushOut
    BY <1>7, <1>8, <1>10 DEF FlushIn, FlushOut
  <1> QED BY <1>1, <1>2, <1>3, <1>4, <1>9, <1>10 DEF Handle

\* And so is every message that comes in.
LEMMA ReceiveStep ==
  ASSUME IInv, TableInv, Remember, NEW c \in Client, NEW m \in Msg, Receive(c, m)
  PROVE  (\A h \in Hook : WalkKnown(h)') /\ (Table!Next \/ UNCHANGED Table!vars)
PROOF
  <1>1. CASE RcvChainPolicy(c, m)
    <2>1. (\A h \in Hook : WalkKnown(h)') /\ Table!SetPolicy(chainPolicy')
      BY <1>1, PolicyStep
    <2>2. chainPolicy' \in [Chain -> Verdict]
      BY <1>1 DEF RcvChainPolicy, ApplyPolicy, Verdict, IInv, TypeOK
    <2>3. Table!Chain = Chain /\ Table!Verdict = Verdict
      BY DEF Table!Chain, Chain, Table!Verdict, Verdict
    <2>4. \E pol \in [Table!Chain -> Table!Verdict] : Table!SetPolicy(pol)
      BY <2>1, <2>2, <2>3
    <2> QED BY <2>1, <2>4 DEF Table!Next
  <1>2. CASE ~RcvChainPolicy(c, m)
    <2>1. UNCHANGED <<store, chainPolicy, filterOn, hook, sees>>
      BY <1>2 DEF Receive, RcvAddPolicyRule, RcvAddExisting, RcvAddNew, RcvUpdate, RcvDelete, RcvMissing,
                  RcvDeleteAll
    <2> QED BY <2>1, HandlerQuiet
  <1> QED BY <1>1, <1>2

LEMMA TableStep ==
  ASSUME NoUpdates, IInv, TableInv, HNext
  PROVE  TableInv' /\ (Table!Next \/ UNCHANGED Table!vars)
PROOF
  <1>1. Next /\ Remember BY DEF HNext, Remember
  <1>2. AddedInv' BY <1>1, AddedStep DEF TableInv
  <1>3. Table!Chain = Chain /\ Table!Verdict = Verdict
    BY DEF Table!Chain, Chain, Table!Verdict, Verdict
  <1>4. (\A h \in Hook : WalkKnown(h)') /\ (Table!Next \/ UNCHANGED Table!vars)
    <2>1. ASSUME NEW c \in Client, NEW m \in Msg, Receive(c, m)
          PROVE  (\A h \in Hook : WalkKnown(h)') /\ (Table!Next \/ UNCHANGED Table!vars)
      BY <1>1, <2>1, ReceiveStep
    <2>2. CASE Handle BY <1>1, <2>2, HandleStep
    <2>3. ASSUME NEW h \in Hook, Filter(h)
          PROVE  (\A g \in Hook : WalkKnown(g)') /\ (Table!Next \/ UNCHANGED Table!vars)
      <3>1. CASE HookNext(h) BY <1>1, <3>1, HookNextStep
      <3>2. CASE HookSkip(h) BY <1>1, <3>2, HookSkipStep
      <3>3. CASE HookEnd(h) BY <1>1, <3>3, HookEndStep
      <3>4. CASE HookMatch(h)
        <4>1. (\A g \in Hook : WalkKnown(g)') /\ \E v \in Verdict : Table!Decide(h, v)
          BY <1>1, <3>4, HookMatchStep
        <4> QED BY <1>3, <4>1 DEF Table!Next
      <3>5. CASE HookDefault(h)
        <4>1. (\A g \in Hook : WalkKnown(g)') /\ \E v \in Verdict : Table!Decide(h, v)
          BY <1>1, <3>5, HookDefaultStep
        <4> QED BY <1>3, <4>1 DEF Table!Next
      <3> QED BY <2>3, <3>1, <3>2, <3>3, <3>4, <3>5 DEF Filter
    <2>4. ASSUME NEW h \in Hook, NEW c \in Chain, NEW p \in Packet, HookBegin(h, c, p)
          PROVE  (\A g \in Hook : WalkKnown(g)') /\ (Table!Next \/ UNCHANGED Table!vars)
      <3>1. (\A g \in Hook : WalkKnown(g)') /\ Table!Ask(h, c, p) BY <1>1, <2>4, HookBeginStep
      <3> QED BY <1>3, <3>1 DEF Table!Next
    <2>5. ASSUME NEW n \in Node, FreeRule(n)
          PROVE  (\A h \in Hook : WalkKnown(h)') /\ (Table!Next \/ UNCHANGED Table!vars)
      <3>1. filterOn' = filterOn BY <2>5 DEF FreeRule
      <3> QED BY <1>1, <2>5, <3>1, HandlerQuiet
    <2>6. CASE SkbWrite
      <3>1. (\A h \in Hook : WalkKnown(h)') /\ Table!SwitchFilter BY <1>1, <2>6, SwitchStep
      <3> QED BY <3>1 DEF Table!Next
    <2> QED BY <1>1, <2>1, <2>2, <2>3, <2>4, <2>5, <2>6 DEF Next
  <1> QED BY <1>2, <1>4 DEF TableInv

LEMMA TableStutter ==
  ASSUME IInv, TableInv, UNCHANGED hvars
  PROVE  TableInv' /\ UNCHANGED Table!vars
PROOF
  <1>1. UNCHANGED <<chain, rule, left, chainPolicy, filterOn, at, fr, hook, sees, could, late>>
    BY DEF hvars, vars, store, lists, handler
  <1>2. Rules' = Rules BY <1>1 DEF Rules
  <1>3. Verdicts' = Verdicts BY <1>1, <1>2 DEF Verdicts
  <1>4. \A h \in Hook : AskOf(h)' = AskOf(h) BY <1>1 DEF AskOf, Asking
  <1>5. AddedInv' BY <1>1 DEF AddedInv, TableInv
  <1>6. ASSUME NEW h \in Hook PROVE WalkKnown(h)'
    <2>1. WalkKnown(h) BY DEF TableInv
    <2>2. \A m, q : Hit(m, q)' <=> Hit(m, q) BY <1>1 DEF Hit
    <2>3. \A c, i, q : NoneBefore(c, i, q)' <=> NoneBefore(c, i, q) BY <1>1, <2>2 DEF NoneBefore
    <2>4. \A good, x : GoodAt(h, good, x)' <=> GoodAt(h, good, x)
      BY <1>1, <2>2, <2>3 DEF GoodAt, HeadOf
    <2>5. \A good : Stands(h, good)' <=> Stands(h, good) BY <1>1, <2>3 DEF Stands, HeadOf
    <2>6. (Asking(h)' <=> Asking(h)) /\ (Walking(h)' <=> Walking(h)) BY <1>1 DEF Asking, Walking
    <2> QED BY <1>1, <1>3, <2>1, <2>4, <2>5, <2>6 DEF WalkKnown
  <1> QED BY <1>1, <1>2, <1>4, <1>5, <1>6, StepHidden DEF TableInv

LEMMA TableBegins ==
  ASSUME HInit
  PROVE  TableInv /\ Table!Init
PROOF
  <1>1. /\ chain = [c \in Chain |-> <<>>] /\ chainPolicy = [c \in Chain |-> "ACCEPT"] /\ filterOn = TRUE
        /\ at = "idle"
        /\ hook = [h \in Hook |->
             [at |-> "idle", chain |-> "INPUT", packet |-> CHOOSE p \in Packet : TRUE,
              cur |-> InHead, policy |-> "NONE", verdict |-> "ACCEPT"]]
        /\ could = [h \in Hook |-> {}] /\ late = [h \in Hook |-> {}]
    BY DEF HInit, Init
  <1>2. \A h \in Hook : hook[h].at = "idle" /\ could[h] = {} /\ late[h] = {} BY <1>1
  <1>3. \A h \in Hook : WalkKnown(h) BY <1>2 DEF WalkKnown, Asking, Walking
  <1>4. TableInv BY <1>1, <1>3 DEF TableInv, AddedInv
  <1>5. (CHOOSE p \in Packet : TRUE) \in Packet BY SomeAssumption
  <1>6. Rules = [c \in Chain |-> <<>>]
    <2>1. \A c \in Chain : [i \in DOMAIN chain[c] |-> rule[chain[c][i]]] = <<>> BY <1>1
    <2> QED BY <2>1 DEF Rules
  <1>7. \A h \in Hook : AskOf(h) = Table!Quiet("INPUT", CHOOSE p \in Packet : TRUE, "ACCEPT")
    <2> TAKE h \in Hook
    <2>1. Asking(h) = FALSE BY <1>2 DEF Asking
    <2>2. hook[h].chain = "INPUT" /\ hook[h].packet = (CHOOSE p \in Packet : TRUE) /\ hook[h].verdict = "ACCEPT"
      BY <1>1
    <2> QED BY <1>2, <2>1, <2>2 DEF AskOf, Table!Quiet
  <1>8. Table!Chain = Chain /\ "INPUT" \in Chain BY DEF Table!Chain, Chain
  <1>9. [h \in Hook |-> AskOf(h)] \in [Hook -> {Table!Quiet(c, p, "ACCEPT") : c \in Chain, p \in Packet}]
    BY <1>5, <1>7, <1>8
  <1>10. /\ Rules = [c \in Table!Chain |-> <<>>] /\ chainPolicy = [c \in Table!Chain |-> "ACCEPT"]
         /\ filterOn = TRUE
    BY <1>1, <1>6, <1>8
  <1>11. [h \in Hook |-> AskOf(h)] \in [Hook -> {Table!Quiet(c, p, "ACCEPT") : c \in Table!Chain, p \in Packet}]
    BY <1>8, <1>9
  <1>12. Table!Init <=>
          /\ Rules = [c \in Table!Chain |-> <<>>] /\ chainPolicy = [c \in Table!Chain |-> "ACCEPT"]
          /\ filterOn = TRUE
          /\ [h \in Hook |-> AskOf(h)] \in
               [Hook -> {Table!Quiet(c, p, "ACCEPT") : c \in Table!Chain, p \in Packet}]
    BY DEF Table!Init, AskOf
  <1> QED BY <1>4, <1>10, <1>11, <1>12

\* TableSpec, for every number of rules, processors, clients and packets: as long
\* as no rule is updated in place, hook_func gives each packet the verdict of a
\* table that was in force while it was being decided, whatever is added to the
\* chains and deleted from them under its walk.
THEOREM KernelImplementsTable ==
  ASSUME NoUpdates
  PROVE  HSpec => TableSpec
PROOF
  <1>1. HInit => IInv /\ TableInv /\ Table!Init
    BY InitIInv, TableBegins DEF HInit
  <1>2. IInv /\ TableInv /\ [HNext]_hvars => IInv' /\ TableInv' /\ [Table!Next]_(Table!vars)
    <2> SUFFICES ASSUME IInv, TableInv, [HNext]_hvars
                 PROVE  IInv' /\ TableInv' /\ (Table!Next \/ UNCHANGED Table!vars)
      OBVIOUS
    <2>1. [Next]_vars BY DEF HNext, hvars
    <2>2. IInv' BY <2>1, NextIInv
    <2>3. CASE HNext BY <2>2, <2>3, TableStep
    <2>4. CASE UNCHANGED hvars BY <2>2, <2>4, TableStutter
    <2> QED BY <2>3, <2>4
  <1> QED BY <1>1, <1>2, PTL DEF HSpec, TableSpec, Table!Spec

=============================================================================
