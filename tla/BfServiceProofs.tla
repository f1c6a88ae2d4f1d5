---------------------------- MODULE BfServiceProofs ----------------------------
(***************************************************************************)
(* Theorems about BfService: what an orderly stop left is found again, and *)
(* the input rules that were saved are in force after every start.         *)
(***************************************************************************)
EXTENDS BfService, WellFoundedInduction, SequenceTheorems, TLAPS

-----------------------------------------------------------------------------
(* Induction, over sets instead of predicates.                             *)

(* A set of naturals has a least element. *)
LEMMA LeastNatural ==
  ASSUME NEW T, T \subseteq Nat, T # {}
  PROVE  \E x \in T : \A y \in T : x <= y
<1> DEFINE R == {p \in Nat \X Nat : p[1] < p[2]}
<1>1. IsWellFoundedOn(R, Nat)
  BY NatLessThanWellFounded DEF OpToRel
<1>2. \E x \in T : \A y \in T : ~ (<<y, x>> \in R)
  <2> HIDE DEF R
  <2> QED BY <1>1, WFMin
<1>3. \A x \in Nat, y \in Nat : y < x => <<y, x>> \in R
  OBVIOUS
<1>4. PICK x \in T : \A y \in T : ~ (<<y, x>> \in R)
  BY <1>2
<1> HIDE DEF R
<1>5. \A y \in T : ~(y < x)
  BY <1>3, <1>4
<1>6. \A y \in T : x <= y
  BY <1>5, x \in Nat
<1> QED BY <1>6

LEMMA NatBySets ==
  ASSUME NEW T, 0 \in T, \A n \in Nat : n \in T => n + 1 \in T
  PROVE  \A n \in Nat : n \in T
<1> DEFINE U == {n \in Nat : n \notin T}
<1>1. SUFFICES ASSUME U # {}
               PROVE  FALSE
  OBVIOUS
<1>2. U \subseteq Nat
  OBVIOUS
<1>3. PICK x \in U : \A y \in U : x <= y
  <2> HIDE DEF U
  <2> QED BY <1>1, <1>2, LeastNatural
<1>4. x \in Nat /\ x \notin T /\ x # 0
  OBVIOUS
<1>5. x - 1 \in Nat /\ x - 1 \notin U
  <2>1. x - 1 \in Nat /\ ~(x <= x - 1)
    BY <1>4
  <2> HIDE DEF U
  <2> QED BY <1>3, <2>1
<1>6. x - 1 \in T
  BY <1>5
<1>7. (x - 1) + 1 = x
  BY <1>4
<1> QED BY <1>4, <1>5, <1>6, <1>7

LEMMA SeqBySets ==
  ASSUME NEW S, NEW Q, << >> \in Q,
         \A s \in Seq(S), e \in S : s \in Q => Append(s, e) \in Q
  PROVE  \A s \in Seq(S) : s \in Q
<1> DEFINE T == {n \in Nat : \A s \in Seq(S) : Len(s) = n => s \in Q}
<1>1. 0 \in T
  <2>1. \A s \in Seq(S) : Len(s) = 0 => s = << >>
    OBVIOUS
  <2> QED BY <2>1
<1>2. \A n \in Nat : n \in T => n + 1 \in T
  <2>1. SUFFICES ASSUME NEW n \in Nat, n \in T, NEW s \in Seq(S), Len(s) = n + 1
                 PROVE  s \in Q
    OBVIOUS
  <2>2. SubSeq(s, 1, n) \in Seq(S) /\ Len(SubSeq(s, 1, n)) = n
    BY <2>1
  <2>3. SubSeq(s, 1, n) \in Q
    BY <2>1, <2>2
  <2>4. s[n + 1] \in S
    BY <2>1
  <2>5. s = Append(SubSeq(s, 1, n), s[n + 1])
    BY <2>1, <2>2, <2>4
  <2>6. Append(SubSeq(s, 1, n), s[n + 1]) \in Q
    BY <2>2, <2>3, <2>4
  <2> QED BY <2>5, <2>6
<1>3. \A n \in Nat : n \in T
  <2> HIDE DEF T
  <2> QED BY <1>1, <1>2, NatBySets
<1> QED BY <1>3

-----------------------------------------------------------------------------
(* What Select does to sequences.                                          *)

\* f is the function that Select computes, on 0..n.
Keeps(f, n, entries, wanted) ==
  \A i \in 0..n :
    f[i] = IF i = 0 THEN << >>
           ELSE IF entries[i] \in wanted THEN Append(f[i - 1], entries[i]) ELSE f[i - 1]

LEMMA KeepsExists ==
  ASSUME NEW S, NEW s \in Seq(S), NEW P
  PROVE  \A n \in 0..Len(s) : \E f \in [0..n -> Seq(S)] : Keeps(f, n, s, P)
<1> DEFINE T == {n \in Nat : n <= Len(s) => \E f \in [0..n -> Seq(S)] : Keeps(f, n, s, P)}
<1>1. 0 \in T
  <2>1. [i \in 0..0 |-> << >>] \in [0..0 -> Seq(S)]
    OBVIOUS
  <2>2. Keeps([i \in 0..0 |-> << >>], 0, s, P)
    BY DEF Keeps
  <2> QED BY <2>1, <2>2
<1>2. \A n \in Nat : n \in T => n + 1 \in T
  <2>1. SUFFICES ASSUME NEW n \in Nat, n \in T, n + 1 <= Len(s)
                 PROVE  \E f \in [0..(n + 1) -> Seq(S)] : Keeps(f, n + 1, s, P)
    OBVIOUS
  <2>2. PICK f \in [0..n -> Seq(S)] : Keeps(f, n, s, P)
    BY <2>1
  <2>3. s[n + 1] \in S /\ f[n] \in Seq(S)
    BY <2>1
  <2>4. PICK last \in Seq(S) : last = IF s[n + 1] \in P THEN Append(f[n], s[n + 1]) ELSE f[n]
    BY <2>3
  <2> DEFINE g == [i \in 0..(n + 1) |-> IF i = n + 1 THEN last ELSE f[i]]
  <2>5. g \in [0..(n + 1) -> Seq(S)]
    BY <2>1, <2>4
  <2>6. \A i \in 0..n : g[i] = f[i]
    BY <2>1
  <2>7. g[n + 1] = last
    BY <2>1
  <2>8. Keeps(g, n + 1, s, P)
    <3> HIDE DEF g
    <3>1. SUFFICES ASSUME NEW i \in 0..(n + 1)
                   PROVE  g[i] = IF i = 0 THEN << >>
                                 ELSE IF s[i] \in P THEN Append(g[i - 1], s[i]) ELSE g[i - 1]
      BY DEF Keeps
    <3>2. CASE i = n + 1
      BY <2>1, <2>4, <2>6, <2>7, <3>2
    <3>3. CASE i \in 0..n
      <4>1. i # 0 => i - 1 \in 0..n
        BY <3>3
      <4> QED BY <2>2, <2>6, <3>3, <4>1 DEF Keeps
    <3> QED BY <2>1, <3>1, <3>2, <3>3
  <2> QED BY <2>5, <2>8
<1>3. \A n \in Nat : n \in T
  <2> HIDE DEF T
  <2> QED BY <1>1, <1>2, NatBySets
<1> QED BY <1>3

\* There is one such function only.
LEMMA KeepsAgree ==
  ASSUME NEW s, NEW t, NEW P, NEW N \in Nat, NEW f, NEW g,
         Keeps(f, N, s, P), Keeps(g, N, t, P), \A i \in 1..N : s[i] = t[i]
  PROVE  f[N] = g[N]
<1> DEFINE T == {n \in Nat : n <= N => f[n] = g[n]}
<1>1. 0 \in T
  BY DEF Keeps
<1>2. \A n \in Nat : n \in T => n + 1 \in T
  <2>1. SUFFICES ASSUME NEW n \in Nat, n + 1 <= N, f[n] = g[n]
                 PROVE  f[n + 1] = g[n + 1]
    OBVIOUS
  <2>2. n + 1 \in 0..N /\ n + 1 # 0 /\ n + 1 - 1 = n /\ s[n + 1] = t[n + 1]
    BY <2>1
  <2> QED BY <2>1, <2>2 DEF Keeps
<1>3. \A n \in Nat : n \in T
  <2> HIDE DEF T
  <2> QED BY <1>1, <1>2, NatBySets
<1> QED BY <1>3

LEMMA SelectIs ==
  ASSUME NEW S, NEW s \in Seq(S), NEW P, NEW f, Keeps(f, Len(s), s, P)
  PROVE  Select(s, P) = f[Len(s)]
<1> DEFINE body(k) == [i \in 0..Len(s) |->
             IF i = 0 THEN << >> ELSE IF s[i] \in P THEN Append(k[i - 1], s[i]) ELSE k[i - 1]]
           kept == CHOOSE k : k = body(k)
<1>1. PICK g \in [0..Len(s) -> Seq(S)] : Keeps(g, Len(s), s, P)
  <2>1. Len(s) \in 0..Len(s)
    OBVIOUS
  <2>2. \A n \in 0..Len(s) : \E g \in [0..n -> Seq(S)] : Keeps(g, n, s, P)
    BY KeepsExists
  <2> QED BY <2>1, <2>2
<1>2. g = body(g)
  BY <1>1 DEF Keeps
<1>3. kept = body(kept)
  <2> HIDE DEF body
  <2> QED BY <1>2
<1>4. Keeps(kept, Len(s), s, P)
  <2> HIDE DEF kept
  <2> QED BY <1>3 DEF Keeps
<1>5. Select(s, P) = kept[Len(s)]
  BY DEF Select
<1> HIDE DEF kept
<1>6. kept[Len(s)] = f[Len(s)]
  BY <1>4, KeepsAgree
<1> QED BY <1>5, <1>6

LEMMA KeepsStep ==
  ASSUME NEW f, NEW s, NEW P, NEW n \in Nat, Keeps(f, n + 1, s, P)
  PROVE  f[n + 1] = IF s[n + 1] \in P THEN Append(f[n], s[n + 1]) ELSE f[n]
<1>1. n + 1 \in 0..(n + 1) /\ n + 1 # 0 /\ (n + 1) - 1 = n
  OBVIOUS
<1>2. \A i \in 0..(n + 1) :
        i # 0 => f[i] = IF s[i] \in P THEN Append(f[i - 1], s[i]) ELSE f[i - 1]
  BY DEF Keeps
<1>3. f[n + 1] = IF s[n + 1] \in P THEN Append(f[(n + 1) - 1], s[n + 1]) ELSE f[(n + 1) - 1]
  BY <1>1, <1>2, Zenon
<1> QED BY <1>1, <1>3

LEMMA SelectEmpty ==
  ASSUME NEW P
  PROVE  Select(<< >>, P) = << >>
<1>1. Keeps([i \in 0..0 |-> << >>], Len(<< >>), << >>, P)
  BY DEF Keeps
<1>2. << >> \in Seq({})
  OBVIOUS
<1> QED BY <1>1, <1>2, SelectIs

LEMMA SelectStep ==
  ASSUME NEW S, NEW s \in Seq(S), NEW e \in S, NEW P
  PROVE  /\ Select(s, P) \in Seq(S)
         /\ Select(Append(s, e), P) = IF e \in P THEN Append(Select(s, P), e) ELSE Select(s, P)
<1>1. PICK n \in Nat : n = Len(s)
  OBVIOUS
<1>2. PICK a \in Seq(S) : a = Append(s, e)
  <2>1. Append(s, e) \in Seq(S)
    OBVIOUS
  <2> QED BY <2>1
<1>3. Len(a) = n + 1 /\ a[n + 1] = e /\ \A i \in 1..n : a[i] = s[i]
  BY <1>1, <1>2
<1>4. PICK g \in [0..(n + 1) -> Seq(S)] : Keeps(g, n + 1, a, P)
  <2>1. n + 1 \in 0..Len(a)
    BY <1>3
  <2>2. \A m \in 0..Len(a) : \E g \in [0..m -> Seq(S)] : Keeps(g, m, a, P)
    BY KeepsExists
  <2> QED BY <2>1, <2>2
<1>5. Keeps(g, n, s, P)
  <2>1. \A i \in 0..n : i \in 0..(n + 1) /\ (i # 0 => a[i] = s[i])
    BY <1>3
  <2> QED BY <1>4, <2>1 DEF Keeps
<1>6. Select(s, P) = g[n]
  BY <1>1, <1>5, SelectIs
<1>7. Select(a, P) = g[n + 1]
  BY <1>3, <1>4, SelectIs
<1>8. g[n + 1] = IF e \in P THEN Append(g[n], e) ELSE g[n]
  <2>1. g[n + 1] = IF a[n + 1] \in P THEN Append(g[n], a[n + 1]) ELSE g[n]
    BY <1>4, KeepsStep
  <2> QED BY <1>3, <2>1
<1>9. g[n] \in Seq(S)
  BY <1>4
<1> QED BY <1>2, <1>6, <1>7, <1>8, <1>9

LEMMA SelectAppend ==
  ASSUME NEW S, NEW s \in Seq(S), NEW e \in S, NEW P
  PROVE  Select(Append(s, e), P) = IF e \in P THEN Append(Select(s, P), e) ELSE Select(s, P)
BY SelectStep

LEMMA SelectType ==
  ASSUME NEW S, NEW s \in Seq(S), NEW P
  PROVE  Select(s, P) \in Seq(S \cap P)
<1> DEFINE Q == {t \in Seq(S) : Select(t, P) \in Seq(S \cap P)}
<1>1. << >> \in Q
  <2>1. << >> \in Seq(S) /\ << >> \in Seq(S \cap P)
    OBVIOUS
  <2>2. Select(<< >>, P) = << >>
    BY SelectEmpty
  <2> QED BY <2>1, <2>2
<1>2. \A t \in Seq(S), e \in S : t \in Q => Append(t, e) \in Q
  <2>1. SUFFICES ASSUME NEW t \in Seq(S), NEW e \in S, Select(t, P) \in Seq(S \cap P)
                 PROVE  Select(Append(t, e), P) \in Seq(S \cap P)
    OBVIOUS
  <2>2. Select(Append(t, e), P) = IF e \in P THEN Append(Select(t, P), e) ELSE Select(t, P)
    BY SelectAppend
  <2>3. e \in P => Append(Select(t, P), e) \in Seq(S \cap P)
    BY <2>1
  <2> QED BY <2>1, <2>2, <2>3
<1>3. \A t \in Seq(S) : t \in Q
  <2> HIDE DEF Q
  <2> QED BY <1>1, <1>2, SeqBySets
<1> QED BY <1>3

LEMMA SelectKeepsType ==
  ASSUME NEW S, NEW s \in Seq(S), NEW P
  PROVE  Select(s, P) \in Seq(S)
<1>1. Select(s, P) \in Seq(S \cap P)
  BY SelectType
<1> QED BY <1>1, SeqMonotonic, S \cap P \subseteq S

(* Two sequences put together, element by element.                         *)
LEMMA ConcatElements ==
  ASSUME NEW S, NEW a \in Seq(S), NEW b \in Seq(S), NEW c, c = a \o b
  PROVE  /\ c \in Seq(S)
         /\ Len(c) = Len(a) + Len(b)
         /\ \A j \in 1..Len(a) : c[j] = a[j]
         /\ \A j \in 1..Len(b) : c[Len(a) + j] = b[j]
<1>1. c \in Seq(S) /\ Len(c) = Len(a) + Len(b) /\ Len(a) \in Nat /\ Len(b) \in Nat
  OBVIOUS
<1>2. \A j \in 1..Len(a) : c[j] = a[j]
  BY <1>1
<1>3. \A j \in 1..Len(b) : c[Len(a) + j] = b[j]
  <2> SUFFICES ASSUME NEW j \in 1..Len(b)
               PROVE  c[Len(a) + j] = b[j]
    OBVIOUS
  <2>1. Len(a) + j \in 1..(Len(a) + Len(b)) /\ ~(Len(a) + j <= Len(a)) /\ (Len(a) + j) - Len(a) = j
    BY <1>1
  <2> QED  BY <1>1, <2>1
<1> QED  BY <1>1, <1>2, <1>3

\* A name for what is put together, which the provers do not look into.
Together(s, t) == s \o t

LEMMA TogetherIs ==
  ASSUME NEW S, NEW s \in Seq(S), NEW t \in Seq(S)
  PROVE  /\ Together(s, t) \in Seq(S)
         /\ Together(s, << >>) = s /\ Together(<< >>, s) = s
<1>1. s \o t \in Seq(S)
  OBVIOUS
<1>2. s \o << >> = s
  OBVIOUS
<1>3. << >> \o s = s
  OBVIOUS
<1> QED BY <1>1, <1>2, <1>3 DEF Together

LEMMA AppendPast ==
  ASSUME NEW S, NEW x \in Seq(S), NEW y \in Seq(S), NEW e \in S
  PROVE  Together(x, Append(y, e)) = Append(Together(x, y), e)
<1>0. PICK v, w, z : v = x \o y /\ w = Append(y, e) /\ z = x \o w
  OBVIOUS
<1>1. /\ v \in Seq(S) /\ Len(v) = Len(x) + Len(y)
      /\ \A j \in 1..Len(x) : v[j] = x[j]
      /\ \A j \in 1..Len(y) : v[Len(x) + j] = y[j]
  BY <1>0, ConcatElements
<1>2. /\ w \in Seq(S) /\ Len(w) = Len(y) + 1 /\ Len(x) \in Nat /\ Len(y) \in Nat
      /\ \A j \in 1..Len(y) : w[j] = y[j]
      /\ w[Len(y) + 1] = e
  BY <1>0
<1>3. /\ z \in Seq(S) /\ Len(z) = Len(x) + Len(w)
      /\ \A j \in 1..Len(x) : z[j] = x[j]
      /\ \A j \in 1..Len(w) : z[Len(x) + j] = w[j]
  BY <1>0, <1>2, ConcatElements
<1>4. PICK q : q = Append(v, e)
  OBVIOUS
<1>5. /\ q \in Seq(S) /\ Len(q) = Len(v) + 1
      /\ \A j \in 1..Len(v) : q[j] = v[j]
      /\ q[Len(v) + 1] = e
  <2>1. v \in Seq(S)
    BY <1>1
  <2> QED BY <1>4, <2>1
<1>6. Len(z) = Len(q) /\ Len(q) = Len(x) + Len(y) + 1
  BY <1>1, <1>2, <1>3, <1>5
<1>7. ASSUME NEW j \in 1..Len(q)
      PROVE  z[j] = q[j]
  <2>1. CASE j \in 1..Len(x)
    <3>1. j \in 1..Len(v)
      BY <1>1, <1>2, <2>1
    <3> QED BY <1>1, <1>3, <1>5, <2>1, <3>1
  <2>2. CASE j \notin 1..Len(x)
    <3>1. PICK k \in 1..Len(w) : j = Len(x) + k
      <4>1. j - Len(x) \in 1..Len(w) /\ j = Len(x) + (j - Len(x))
        BY <1>2, <1>6, <2>2
      <4> QED BY <4>1
    <3>2. z[j] = w[k]
      BY <1>3, <3>1
    <3>3. CASE k \in 1..Len(y)
      <4>1. j \in 1..Len(v)
        BY <1>1, <1>2, <3>1, <3>3
      <4>2. q[j] = v[j]
        BY <1>5, <4>1
      <4>3. v[j] = y[k]
        BY <1>1, <3>1, <3>3
      <4> QED BY <1>2, <3>2, <3>3, <4>2, <4>3
    <3>4. CASE k \notin 1..Len(y)
      <4>1. k = Len(y) + 1
        <5>1. Len(w) = Len(y) + 1 /\ Len(y) \in Nat
          BY <1>2
        <5> QED BY <3>4, <5>1
      <4>2. Len(v) = Len(x) + Len(y) /\ Len(x) \in Nat /\ Len(y) \in Nat
        BY <1>1, <1>2
      <4>3. j = Len(v) + 1
        BY <3>1, <4>1, <4>2
      <4>4. w[k] = e
        BY <1>2, <4>1
      <4>5. q[j] = e
        BY <1>5, <4>3
      <4> QED BY <3>2, <4>4, <4>5
    <3> QED BY <3>3, <3>4
  <2> QED BY <2>1, <2>2
<1>8. z = q
  BY <1>3, <1>5, <1>6, <1>7, SeqEqual
<1>9. Together(x, Append(y, e)) = z /\ Together(x, y) = v
  BY <1>0 DEF Together
<1> QED BY <1>4, <1>8, <1>9

LEMMA SelectTogether ==
  ASSUME NEW S, NEW s \in Seq(S), NEW t \in Seq(S), NEW P
  PROVE  Select(Together(s, t), P) = Together(Select(s, P), Select(t, P))
<1> DEFINE Q == {u \in Seq(S) : Select(Together(s, u), P) = Together(Select(s, P), Select(u, P))}
<1>0. Select(s, P) \in Seq(S)
  BY SelectKeepsType
<1>1. << >> \in Q
  <2>1. << >> \in Seq(S)
    OBVIOUS
  <2>2. Together(s, << >>) = s /\ Together(Select(s, P), << >>) = Select(s, P)
    BY <1>0, TogetherIs
  <2> QED BY <2>1, <2>2, SelectEmpty
<1>2. ASSUME NEW u \in Seq(S), NEW e \in S, u \in Q
      PROVE  Append(u, e) \in Q
  <2>1. PICK v \in Seq(S) : v = Together(s, u)
    BY TogetherIs
  <2>2. PICK x \in Seq(S), y \in Seq(S) : x = Select(s, P) /\ y = Select(u, P)
    BY <1>0, SelectKeepsType
  <2>3. PICK w \in Seq(S) : w = Append(u, e)
    <3>1. Append(u, e) \in Seq(S)
      OBVIOUS
    <3> QED BY <3>1
  <2>4. Select(v, P) = Together(x, y)
    BY <1>2, <2>1, <2>2
  <2>5. Together(s, w) = Append(v, e)
    <3>1. Together(s, Append(u, e)) = Append(Together(s, u), e)
      BY AppendPast
    <3> QED BY <2>1, <2>3, <3>1
  <2>6. Select(Append(v, e), P) = IF e \in P THEN Append(Select(v, P), e) ELSE Select(v, P)
    BY SelectAppend
  <2>7. Select(w, P) = IF e \in P THEN Append(y, e) ELSE y
    <3>1. Select(Append(u, e), P) = IF e \in P THEN Append(Select(u, P), e) ELSE Select(u, P)
      BY SelectAppend
    <3> HIDE DEF Q
    <3> QED BY <2>2, <2>3, <3>1
  <2>8. Together(x, Append(y, e)) = Append(Together(x, y), e)
    BY AppendPast
  <2>9. Select(Together(s, w), P) = Together(x, Select(w, P))
    <3> HIDE DEF Q
    <3>1. CASE e \in P
      BY <2>4, <2>5, <2>6, <2>7, <2>8, <3>1
    <3>2. CASE e \notin P
      BY <2>4, <2>5, <2>6, <2>7, <3>2
    <3> QED BY <3>1, <3>2
  <2>10. Select(Together(s, w), P) = Together(Select(s, P), Select(w, P))
    BY <2>2, <2>9
  <2> QED BY <2>3, <2>10
<1>3. \A u \in Seq(S) : u \in Q
  <2> HIDE DEF Q
  <2>1. \A u \in Seq(S), e \in S : u \in Q => Append(u, e) \in Q
    BY <1>2
  <2> QED BY <1>1, <2>1, SeqBySets
<1> QED BY <1>3

LEMMA SelectAll ==
  ASSUME NEW S, NEW s \in Seq(S), NEW P, S \subseteq P
  PROVE  Select(s, P) = s
<1> DEFINE Q == {t \in Seq(S) : Select(t, P) = t}
<1>1. << >> \in Q
  BY SelectEmpty
<1>2. \A t \in Seq(S), e \in S : t \in Q => Append(t, e) \in Q
  <2>1. SUFFICES ASSUME NEW t \in Seq(S), NEW e \in S, Select(t, P) = t
                 PROVE  Select(Append(t, e), P) = Append(t, e)
    OBVIOUS
  <2>2. Select(Append(t, e), P) = IF e \in P THEN Append(Select(t, P), e) ELSE Select(t, P)
    BY SelectAppend
  <2> QED BY <2>1, <2>2
<1>3. \A t \in Seq(S) : t \in Q
  <2> HIDE DEF Q
  <2> QED BY <1>1, <1>2, SeqBySets
<1> QED BY <1>3

LEMMA SelectNone ==
  ASSUME NEW S, NEW s \in Seq(S), NEW P, S \cap P = {}
  PROVE  Select(s, P) = << >>
<1>1. Select(s, P) \in Seq({})
  BY SelectType
<1> QED BY <1>1

LEMMA SelectSelect ==
  ASSUME NEW S, NEW s \in Seq(S), NEW P, NEW R, R \subseteq P
  PROVE  Select(Select(s, P), R) = Select(s, R)
<1> DEFINE Q == {t \in Seq(S) : Select(Select(t, P), R) = Select(t, R)}
<1>1. << >> \in Q
  BY SelectEmpty
<1>2. \A t \in Seq(S), e \in S : t \in Q => Append(t, e) \in Q
  <2>1. SUFFICES ASSUME NEW t \in Seq(S), NEW e \in S, Select(Select(t, P), R) = Select(t, R)
                 PROVE  Select(Select(Append(t, e), P), R) = Select(Append(t, e), R)
    OBVIOUS
  <2>2. /\ Select(t, P) \in Seq(S)
        /\ Select(Append(t, e), P) = IF e \in P THEN Append(Select(t, P), e) ELSE Select(t, P)
    BY SelectStep
  <2>3. Select(Append(t, e), R) = IF e \in R THEN Append(Select(t, R), e) ELSE Select(t, R)
    BY SelectAppend
  <2>4. PICK u \in Seq(S) : u = Select(t, P)
    BY <2>2
  <2>5. Select(Append(u, e), R) = IF e \in R THEN Append(Select(u, R), e) ELSE Select(u, R)
    BY SelectAppend
  <2> QED BY <2>1, <2>2, <2>3, <2>4, <2>5
<1>3. \A t \in Seq(S) : t \in Q
  <2> HIDE DEF Q
  <2> QED BY <1>1, <1>2, SeqBySets
<1> QED BY <1>3

LEMMA AppendElements ==
  ASSUME NEW S, NEW s \in Seq(S), NEW e \in S
  PROVE  /\ ToSet(Append(s, e)) = ToSet(s) \cup {e}
         /\ IsInjective(Append(s, e)) <=> IsInjective(s) /\ e \notin ToSet(s)
<1>1. PICK n \in Nat : n = Len(s)
  OBVIOUS
<1>2. PICK a : a = Append(s, e)
  OBVIOUS
<1>3. DOMAIN s = 1..n /\ DOMAIN a = 1..(n + 1) /\ a[n + 1] = e /\ \A i \in 1..n : a[i] = s[i]
  BY <1>1, <1>2
<1>4. DOMAIN a = DOMAIN s \cup {n + 1} /\ n + 1 \notin DOMAIN s
  BY <1>3
<1>5. \A i \in DOMAIN s : a[i] = s[i]
  BY <1>3
<1>6. ToSet(a) = ToSet(s) \cup {e}
  BY <1>3, <1>4, <1>5 DEF ToSet
<1>7. IsInjective(a) <=> IsInjective(s) /\ e \notin ToSet(s)
  BY <1>3, <1>4, <1>5 DEF ToSet, IsInjective
<1> QED BY <1>2, <1>6, <1>7

LEMMA SelectElements ==
  ASSUME NEW S, NEW s \in Seq(S), NEW P
  PROVE  /\ ToSet(Select(s, P)) = ToSet(s) \cap P
         /\ IsInjective(s) => IsInjective(Select(s, P))
<1> DEFINE Q == {t \in Seq(S) : /\ ToSet(Select(t, P)) = ToSet(t) \cap P
                                /\ IsInjective(t) => IsInjective(Select(t, P))}
<1>1. << >> \in Q
  BY SelectEmpty DEF ToSet, IsInjective
<1>2. \A t \in Seq(S), e \in S : t \in Q => Append(t, e) \in Q
  <2>1. SUFFICES ASSUME NEW t \in Seq(S), NEW e \in S,
                        ToSet(Select(t, P)) = ToSet(t) \cap P,
                        IsInjective(t) => IsInjective(Select(t, P))
                 PROVE  /\ ToSet(Select(Append(t, e), P)) = ToSet(Append(t, e)) \cap P
                        /\ IsInjective(Append(t, e)) => IsInjective(Select(Append(t, e), P))
    OBVIOUS
  <2>2. /\ Select(t, P) \in Seq(S)
        /\ Select(Append(t, e), P) = IF e \in P THEN Append(Select(t, P), e) ELSE Select(t, P)
    BY SelectStep
  <2>3. /\ ToSet(Append(t, e)) = ToSet(t) \cup {e}
        /\ IsInjective(Append(t, e)) <=> IsInjective(t) /\ e \notin ToSet(t)
    BY AppendElements
  <2>4. /\ ToSet(Append(Select(t, P), e)) = ToSet(Select(t, P)) \cup {e}
        /\ IsInjective(Append(Select(t, P), e)) <=> IsInjective(Select(t, P)) /\ e \notin ToSet(Select(t, P))
    BY <2>2, AppendElements
  <2> QED BY <2>1, <2>2, <2>3, <2>4
<1>3. \A t \in Seq(S) : t \in Q
  <2> HIDE DEF Q
  <2> QED BY <1>1, <1>2, SeqBySets
<1> QED BY <1>3

\* The first of the entries is sent, or written, before the rest.
LEMMA HeadAndTail ==
  ASSUME NEW S, NEW t \in Seq(S), t # << >>
  PROVE  /\ Head(t) \in S /\ Tail(t) \in Seq(S)
         /\ \E one \in Seq(S) : one = <<Head(t)>> /\ t = one \o Tail(t)
<1>1. Head(t) \in S /\ Tail(t) \in Seq(S)
  OBVIOUS
<1>2. PICK one \in Seq(S) : one = <<Head(t)>>
  <2>1. <<Head(t)>> \in Seq(S)
    BY <1>1
  <2> QED BY <2>1
<1>3. t = one \o Tail(t)
  BY <1>2, HeadTailAppend
<1> QED BY <1>1, <1>2, <1>3

LEMMA MoveOne ==
  ASSUME NEW S, NEW k \in Seq(S), NEW t \in Seq(S), t # << >>
  PROVE  /\ Append(k, Head(t)) \in Seq(S) /\ Tail(t) \in Seq(S)
         /\ Together(Append(k, Head(t)), Tail(t)) = Together(k, t)
<1>1. PICK e \in S, r \in Seq(S) : e = Head(t) /\ r = Tail(t)
  BY HeadAndTail
<1>2. PICK one \in Seq(S) : one = <<e>> /\ t = one \o r
  BY <1>1, HeadAndTail
<1>3. Append(k, e) = k \o one
  BY <1>2, AppendIsConcat
<1>4. (k \o one) \o r = k \o (one \o r)
  BY ConcatAssociative
<1>5. Append(k, e) \in Seq(S)
  OBVIOUS
<1>6. Append(k, e) \o r = k \o t
  BY <1>2, <1>3, <1>4
<1>7. Together(Append(k, e), r) = Together(k, t)
  BY <1>6 DEF Together
<1> QED BY <1>1, <1>5, <1>7

LEMMA SelectMoved ==
  ASSUME NEW S, NEW t \in Seq(S), t # << >>, NEW P
  PROVE  /\ Head(t) \in P => /\ Select(t, P) # << >> /\ Head(Select(t, P)) = Head(t)
                              /\ Tail(Select(t, P)) = Select(Tail(t), P)
         /\ Head(t) \notin P => Select(t, P) = Select(Tail(t), P)
<1>1. PICK e \in S, r \in Seq(S) : e = Head(t) /\ r = Tail(t)
  BY HeadAndTail
<1>2. PICK one \in Seq(S) : one = <<e>> /\ t = one \o r
  BY <1>1, HeadAndTail
<1>3. Select(t, P) = Select(one, P) \o Select(r, P)
  <2>1. t = Together(one, r)
    BY <1>2 DEF Together
  <2>2. Select(t, P) = Together(Select(one, P), Select(r, P))
    BY <2>1, SelectTogether
  <2> QED BY <2>2 DEF Together
<1>4. Select(one, P) = IF e \in P THEN <<e>> ELSE << >>
  <2>1. PICK none \in Seq(S) : none = << >>
    <3>1. << >> \in Seq(S)
      OBVIOUS
    <3> QED BY <3>1
  <2>2. Append(none, e) = one
    BY <1>2, <2>1
  <2>3. Select(Append(none, e), P) = IF e \in P THEN Append(Select(none, P), e) ELSE Select(none, P)
    BY SelectAppend
  <2>4. Select(none, P) = none
    BY <2>1, SelectEmpty
  <2> QED BY <1>2, <2>1, <2>2, <2>3, <2>4
<1>5. PICK q \in Seq(S) : q = Select(r, P)
  BY SelectStep
<1>6. CASE e \in P
  <2>1. Select(t, P) = <<e>> \o q
    BY <1>3, <1>4, <1>5, <1>6
  <2>2. <<e>> \o q # << >> /\ Head(<<e>> \o q) = e /\ Tail(<<e>> \o q) = q
    OBVIOUS
  <2> QED BY <1>1, <1>5, <1>6, <2>1, <2>2
<1>7. CASE e \notin P
  <2>1. Select(t, P) = << >> \o q
    BY <1>3, <1>4, <1>5, <1>7
  <2>2. << >> \o q = q
    OBVIOUS
  <2> QED BY <1>1, <1>5, <1>7, <2>1, <2>2
<1> QED BY <1>6, <1>7

\* Nothing that is still to come has come.
LEMMA NotYet ==
  ASSUME NEW S, NEW k \in Seq(S), NEW q \in Seq(S), q # << >>, IsInjective(Together(k, q))
  PROVE  Head(q) \notin ToSet(k)
<1>1. PICK c : c = k \o q
  OBVIOUS
<1>0. IsInjective(c)
  BY <1>1 DEF Together
<1>2. /\ c \in Seq(S) /\ Len(c) = Len(k) + Len(q)
      /\ \A j \in 1..Len(k) : c[j] = k[j]
      /\ \A j \in 1..Len(q) : c[Len(k) + j] = q[j]
  BY <1>1, ConcatElements
<1>3. Len(k) \in Nat /\ Len(q) \in Nat /\ 1 \in 1..Len(q) /\ Head(q) = q[1] /\ DOMAIN k = 1..Len(k)
  OBVIOUS
<1>4. SUFFICES ASSUME NEW i \in 1..Len(k), k[i] = q[1]
               PROVE  FALSE
  BY <1>3 DEF ToSet
<1>5. c[Len(k) + 1] = q[1] /\ c[i] = k[i]
  BY <1>2, <1>3
<1>6. i \in DOMAIN c /\ Len(k) + 1 \in DOMAIN c /\ i # Len(k) + 1
  BY <1>2, <1>3
<1> QED BY <1>0, <1>4, <1>5, <1>6 DEF IsInjective

LEMMA ConcatSet ==
  ASSUME NEW S, NEW s \in Seq(S), NEW t \in Seq(S)
  PROVE  ToSet(Together(s, t)) = ToSet(s) \cup ToSet(t)
<1>1. PICK c : c = s \o t
  OBVIOUS
<1>2. /\ c \in Seq(S) /\ Len(c) = Len(s) + Len(t)
      /\ \A j \in 1..Len(s) : c[j] = s[j]
      /\ \A j \in 1..Len(t) : c[Len(s) + j] = t[j]
  BY <1>1, ConcatElements
<1>3. /\ Len(s) \in Nat /\ Len(t) \in Nat
      /\ DOMAIN s = 1..Len(s) /\ DOMAIN t = 1..Len(t) /\ DOMAIN c = 1..(Len(s) + Len(t))
  BY <1>2
<1>4. \A j \in 1..Len(s) : j \in DOMAIN c
  BY <1>3
<1>5. \A j \in 1..Len(t) : Len(s) + j \in DOMAIN c
  BY <1>3
<1>6. \A j \in DOMAIN c : j \notin 1..Len(s) => j - Len(s) \in 1..Len(t) /\ c[j] = t[j - Len(s)]
  <2>1. SUFFICES ASSUME NEW j \in DOMAIN c, j \notin 1..Len(s)
                 PROVE  j - Len(s) \in 1..Len(t) /\ c[j] = t[j - Len(s)]
    OBVIOUS
  <2>2. PICK k \in 1..Len(t) : j = Len(s) + k
    <3>1. j - Len(s) \in 1..Len(t) /\ j = Len(s) + (j - Len(s))
      BY <1>3, <2>1
    <3> QED BY <3>1
  <2>3. c[j] = t[k] /\ j - Len(s) = k
    BY <1>2, <1>3, <2>2
  <2> QED BY <2>2, <2>3
<1>7. ToSet(c) \subseteq ToSet(s) \cup ToSet(t)
  BY <1>2, <1>3, <1>6 DEF ToSet
<1>8. ToSet(s) \subseteq ToSet(c)
  BY <1>2, <1>3, <1>4 DEF ToSet
<1>9. ToSet(t) \subseteq ToSet(c)
  BY <1>2, <1>3, <1>5 DEF ToSet
<1>10. Together(s, t) = c
  BY <1>1 DEF Together
<1> QED BY <1>7, <1>8, <1>9, <1>10

-----------------------------------------------------------------------------
(* The rules of a chain among the entries of a file or a list.             *)

OfChain(c) == {r \in Rule : ChainOf[r] = c}
Ordered(s, c) == s \in Seq(OfChain(c)) /\ IsInjective(s)

LEMMA Sets ==
  /\ Rule \subseteq Entry /\ Policies \in Seq(Entry) /\ << >> \in Seq(Entry)
  /\ \A e \in Entry : ChainOf[e] \in Chain
  /\ \A c \in Chain : /\ OfChain(c) \subseteq Rule
                      /\ \A s \in Seq(OfChain(c)) : s \in Seq(Rule) /\ s \in Seq(Entry)
                      /\ Ordered(<< >>, c)
<1>1. Rule \subseteq Entry /\ \A c \in Chain : OfChain(c) \subseteq Rule
  BY DEF Entry, OfChain
<1>2. \A c \in Chain : \A s \in Seq(OfChain(c)) : s \in Seq(Rule) /\ s \in Seq(Entry)
  <2>1. SUFFICES ASSUME NEW c \in Chain, NEW s \in Seq(OfChain(c))
                 PROVE  s \in Seq(Rule) /\ s \in Seq(Entry)
    OBVIOUS
  <2>2. OfChain(c) \subseteq Rule /\ OfChain(c) \subseteq Entry
    BY <1>1
  <2> QED BY <2>2, SeqMonotonic
<1>3. \A c \in Chain : Ordered(<< >>, c)
  BY DEF Ordered, IsInjective
<1>4. << >> \in Seq(Entry)
  OBVIOUS
<1> QED BY <1>1, <1>2, <1>3, <1>4, ServiceAssumption

LEMMA RulesOfType ==
  ASSUME NEW s \in Seq(Entry), NEW c \in Chain
  PROVE  /\ RulesOf(s, c) \in Seq(OfChain(c))
         /\ ToSet(RulesOf(s, c)) = ToSet(s) \cap OfChain(c)
<1>1. RulesOf(s, c) = Select(s, OfChain(c))
  BY DEF RulesOf, OfChain
<1>2. Select(s, OfChain(c)) \in Seq(Entry \cap OfChain(c))
  BY SelectType
<1>3. Entry \cap OfChain(c) = OfChain(c)
  BY Sets
<1>4. ToSet(Select(s, OfChain(c))) = ToSet(s) \cap OfChain(c)
  BY SelectElements
<1> QED BY <1>1, <1>2, <1>3, <1>4

LEMMA RulesTogether ==
  ASSUME NEW s \in Seq(Entry), NEW t \in Seq(Entry), NEW c \in Chain
  PROVE  RulesOf(Together(s, t), c) = Together(RulesOf(s, c), RulesOf(t, c))
BY SelectTogether DEF RulesOf

LEMMA RulesEmpty ==
  ASSUME NEW c \in Chain
  PROVE  RulesOf(<< >>, c) = << >>
BY SelectEmpty DEF RulesOf

\* The kernel passes over the policies, and so does Received.
LEMMA RulesOfPolicies ==
  ASSUME NEW c \in Chain
  PROVE  RulesOf(Policies, c) = << >>
<1>1. Policies \in Seq(ToSet(Policies))
  BY ServiceAssumption DEF ToSet
<1>2. ToSet(Policies) \cap OfChain(c) = {}
  BY ServiceAssumption DEF OfChain
<1>3. Select(Policies, OfChain(c)) = << >>
  BY <1>1, <1>2, SelectNone
<1> QED BY <1>3 DEF RulesOf, OfChain

LEMMA OwnRules ==
  ASSUME NEW c \in Chain, NEW s \in Seq(OfChain(c)), NEW d \in Chain
  PROVE  RulesOf(s, d) = IF d = c THEN s ELSE << >>
<1>1. CASE d = c
  <2>1. Select(s, OfChain(c)) = s
    BY SelectAll
  <2> QED BY <1>1, <2>1 DEF RulesOf, OfChain
<1>2. CASE d # c
  <2>1. OfChain(c) \cap OfChain(d) = {}
    BY <1>2 DEF OfChain
  <2>2. Select(s, OfChain(d)) = << >>
    BY <2>1, SelectNone
  <2> QED BY <1>2, <2>2 DEF RulesOf, OfChain
<1> QED BY <1>1, <1>2

LEMMA RulesMoved ==
  ASSUME NEW t \in Seq(Entry), t # << >>, NEW c \in Chain
  PROVE  /\ Head(t) \in OfChain(c) =>
              /\ RulesOf(t, c) # << >> /\ Head(RulesOf(t, c)) = Head(t)
              /\ Tail(RulesOf(t, c)) = RulesOf(Tail(t), c)
         /\ Head(t) \notin OfChain(c) => RulesOf(t, c) = RulesOf(Tail(t), c)
<1>1. RulesOf(t, c) = Select(t, OfChain(c)) /\ RulesOf(Tail(t), c) = Select(Tail(t), OfChain(c))
  BY DEF RulesOf, OfChain
<1> QED BY <1>1, SelectMoved

\* started() sends what is in the file, chain by chain.
LEMMA ToSendRules ==
  ASSUME file \in Seq(Entry)
  PROVE  ToSend \in Seq(Entry) /\ \A c \in Chain : RulesOf(ToSend, c) = RulesOf(file, c)
<1> DEFINE W(c) == {e \in Entry : ChainOf[e] = c}
<1>1. \A c \in Chain : GetByPattern(file, c) = Select(file, W(c)) /\ OfChain(c) \subseteq W(c)
  BY Sets DEF GetByPattern, OfChain
<1>2. PICK x \in Seq(Entry), y \in Seq(Entry) :
        x = GetByPattern(file, "INPUT") /\ y = GetByPattern(file, "OUTPUT")
  <2>1. Select(file, W("INPUT")) \in Seq(Entry) /\ Select(file, W("OUTPUT")) \in Seq(Entry)
    BY SelectKeepsType
  <2> QED BY <1>1, <2>1 DEF Chain
<1>3. ToSend = Together(x, y)
  BY <1>2 DEF ToSend, Together
<1>4. \A c \in Chain, d \in Chain :
        RulesOf(GetByPattern(file, c), d) = IF d = c THEN RulesOf(file, c) ELSE << >>
  <2>1. SUFFICES ASSUME NEW c \in Chain, NEW d \in Chain
                 PROVE  RulesOf(GetByPattern(file, c), d) = IF d = c THEN RulesOf(file, c) ELSE << >>
    OBVIOUS
  <2>2. RulesOf(GetByPattern(file, c), d) = Select(Select(file, W(c)), OfChain(d))
    BY <1>1 DEF RulesOf, OfChain
  <2>3. CASE d = c
    <3>1. Select(Select(file, W(c)), OfChain(c)) = Select(file, OfChain(c))
      BY <1>1, SelectSelect
    <3> QED BY <2>2, <2>3, <3>1 DEF RulesOf, OfChain
  <2>4. CASE d # c
    <3>1. Select(file, W(c)) \in Seq(Entry \cap W(c))
      BY SelectType
    <3>2. (Entry \cap W(c)) \cap OfChain(d) = {}
      BY <2>4 DEF OfChain
    <3>3. Select(Select(file, W(c)), OfChain(d)) = << >>
      BY <3>1, <3>2, SelectNone
    <3> QED BY <2>2, <2>4, <3>3
  <2> QED BY <2>3, <2>4
<1>5. ASSUME NEW c \in Chain
      PROVE  RulesOf(ToSend, c) = RulesOf(file, c)
  <2>1. RulesOf(ToSend, c) = Together(RulesOf(x, c), RulesOf(y, c))
    BY <1>3, RulesTogether
  <2>2. RulesOf(x, c) = IF c = "INPUT" THEN RulesOf(file, c) ELSE << >>
    BY <1>2, <1>4 DEF Chain
  <2>3. RulesOf(y, c) = IF c = "OUTPUT" THEN RulesOf(file, c) ELSE << >>
    BY <1>2, <1>4 DEF Chain
  <2>4. PICK f \in Seq(OfChain(c)) : f = RulesOf(file, c)
    BY RulesOfType
  <2>5. Together(f, << >>) = f /\ Together(<< >>, f) = f
    BY TogetherIs
  <2>6. CASE c = "INPUT"
    BY <2>1, <2>2, <2>3, <2>4, <2>5, <2>6
  <2>7. CASE c = "OUTPUT"
    BY <2>1, <2>2, <2>3, <2>4, <2>5, <2>7
  <2> QED BY <2>6, <2>7 DEF Chain
<1>6. ToSend \in Seq(Entry)
  BY <1>3, TogetherIs
<1> QED BY <1>5, <1>6

-----------------------------------------------------------------------------
(* The invariant.                                                          *)

\* Nobody changes rules while the service lists them.
QuietListing == "listing" \notin UsersAt

\* Nor while it comes up, and nobody kills it while it writes the file.
QuietStart == UsersAt \subseteq {"off", "running"} /\ "saving" \notin CrashAt \cup LossAt

TypeOK ==
  /\ kernel \in [Chain -> Seq(Rule)] /\ saved \in [Chain -> Seq(Rule)]
  /\ promised \in [Chain -> Seq(Rule)]
  /\ file \in Seq(Entry) /\ cache \in Seq(Entry) /\ todo \in Seq(Entry) /\ list \in Seq(Entry)
  /\ at \in Step /\ stopping \in BOOLEAN /\ linked \in BOOLEAN
  /\ part \in {"policies", "input", "output", "done"}
  /\ changes \in Nat /\ starts \in Nat
  /\ fresh \in BOOLEAN /\ orderly \in BOOLEAN

\* A rule is in its own chain, and once.
ChainsInv ==
  \A c \in Chain : Ordered(kernel[c], c) /\ Ordered(saved[c], c) /\ Ordered(promised[c], c)

\* What has been listed of a chain: all of it, or nothing yet.
Listed(c) ==
  IF (c = "INPUT" /\ part \in {"output", "done"}) \/ (c = "OUTPUT" /\ part = "done" /\ stopping)
  THEN kernel[c] ELSE << >>
ListInv == at = "listing" => \A c \in Chain : RulesOf(list, c) = Listed(c)

\* What is written and what is still to be written make up the list.
WriteInv == at = "saving" => Together(file, todo) = list

ServiceInv == TypeOK /\ ChainsInv /\ ListInv /\ WriteInv

LEMMA ServiceInit == Init => ServiceInv
<1> SUFFICES ASSUME Init
             PROVE  ServiceInv
  OBVIOUS
<1>1. << >> \in Seq(Entry) /\ << >> \in Seq(Rule)
  OBVIOUS
<1>2. TypeOK
  BY <1>1 DEF Init, TypeOK, Step
<1>3. ChainsInv
  BY Sets DEF Init, ChainsInv
<1>4. ListInv /\ WriteInv
  BY DEF Init, ListInv, WriteInv
<1> QED BY <1>2, <1>3, <1>4 DEF ServiceInv

\* A rule in force is in its own chain.
LEMMA InItsChain ==
  ASSUME TypeOK, ChainsInv, NEW r \in Rule
  PROVE  /\ ChainOf[r] \in Chain /\ r \in OfChain(ChainOf[r])
         /\ InForce(r) <=> r \in ToSet(kernel[ChainOf[r]])
<1>1. ChainOf[r] \in Chain /\ r \in OfChain(ChainOf[r])
  BY Sets DEF OfChain
<1>2. ASSUME NEW c \in Chain, r \in ToSet(kernel[c])
      PROVE  c = ChainOf[r]
  <2>1. kernel[c] \in Seq(OfChain(c))
    BY DEF ChainsInv, Ordered
  <2>2. PICK i \in DOMAIN kernel[c] : kernel[c][i] = r
    BY <1>2 DEF ToSet
  <2>3. r \in OfChain(c)
    BY <2>1, <2>2
  <2> QED BY <2>3 DEF OfChain
<1> QED BY <1>1, <1>2 DEF InForce

\* What a step makes of the chains of the kernel.
LEMMA Appended ==
  ASSUME TypeOK, ChainsInv, NEW r \in Rule, ~InForce(r),
         kernel' = [kernel EXCEPT ![ChainOf[r]] = Append(@, r)]
  PROVE  /\ kernel' \in [Chain -> Seq(Rule)] /\ \A c \in Chain : Ordered(kernel'[c], c)
         /\ kernel'[ChainOf[r]] = Append(kernel[ChainOf[r]], r)
         /\ \A c \in Chain : c # ChainOf[r] => kernel'[c] = kernel[c]
<1>1. PICK d \in Chain : d = ChainOf[r] /\ r \in OfChain(d) /\ r \notin ToSet(kernel[d])
  BY InItsChain
<1>2. Ordered(kernel[d], d)
  BY DEF ChainsInv
<1>3. Append(kernel[d], r) \in Seq(OfChain(d)) /\ IsInjective(Append(kernel[d], r))
  BY <1>1, <1>2, AppendElements DEF Ordered
<1>4. kernel' = [kernel EXCEPT ![d] = Append(kernel[d], r)]
  BY <1>1
<1>5. Append(kernel[d], r) \in Seq(Rule)
  BY <1>3, Sets
<1>6. kernel' \in [Chain -> Seq(Rule)] /\ kernel'[d] = Append(kernel[d], r)
      /\ \A c \in Chain : c # d => kernel'[c] = kernel[c]
  <2> PICK s \in Seq(Rule) : s = Append(kernel[d], r)
    BY <1>5
  <2> QED BY <1>4 DEF TypeOK
<1>7. \A c \in Chain : Ordered(kernel'[c], c)
  <2>1. SUFFICES ASSUME NEW c \in Chain
                 PROVE  Ordered(kernel'[c], c)
    OBVIOUS
  <2>2. CASE c = d
    BY <1>3, <1>6, <2>2 DEF Ordered
  <2>3. CASE c # d
    BY <1>6, <2>3 DEF ChainsInv
  <2> QED BY <2>2, <2>3
<1> QED BY <1>1, <1>6, <1>7

LEMMA Removed ==
  ASSUME TypeOK, ChainsInv, NEW r \in Rule,
         kernel' = [kernel EXCEPT ![ChainOf[r]] = Select(@, Rule \ {r})]
  PROVE  kernel' \in [Chain -> Seq(Rule)] /\ \A c \in Chain : Ordered(kernel'[c], c)
<1>1. PICK d \in Chain : d = ChainOf[r]
  BY InItsChain
<1>2. kernel[d] \in Seq(OfChain(d)) /\ IsInjective(kernel[d])
  BY DEF ChainsInv, Ordered
<1>3. PICK s : s = Select(kernel[d], Rule \ {r})
  OBVIOUS
<1>4. s \in Seq(OfChain(d)) /\ IsInjective(s)
  BY <1>2, <1>3, SelectKeepsType, SelectElements
<1>5. kernel' = [kernel EXCEPT ![d] = s]
  BY <1>1, <1>3
<1>6. s \in Seq(Rule)
  BY <1>4, Sets
<1>7. kernel' \in [Chain -> Seq(Rule)] /\ kernel'[d] = s
      /\ \A c \in Chain : c # d => kernel'[c] = kernel[c]
  BY <1>5, <1>6 DEF TypeOK
<1>8. \A c \in Chain : Ordered(kernel'[c], c)
  <2>1. SUFFICES ASSUME NEW c \in Chain
                 PROVE  Ordered(kernel'[c], c)
    OBVIOUS
  <2>2. CASE c = d
    BY <1>4, <1>7, <2>2 DEF Ordered
  <2>3. CASE c # d
    BY <1>7, <2>3 DEF ChainsInv
  <2> QED BY <2>2, <2>3
<1> QED BY <1>7, <1>8

\* The next rule is in force once it has been sent.
LEMMA Sent ==
  ASSUME TypeOK, ChainsInv, SendRule
  PROVE  /\ Head(todo) \in Entry /\ todo' = Tail(todo) /\ todo' \in Seq(Entry)
         /\ kernel' \in [Chain -> Seq(Rule)] /\ \A c \in Chain : Ordered(kernel'[c], c)
         /\ (Head(todo) \in Rule /\ ~InForce(Head(todo))) =>
              /\ kernel'[ChainOf[Head(todo)]] = Append(kernel[ChainOf[Head(todo)]], Head(todo))
              /\ \A c \in Chain : c # ChainOf[Head(todo)] => kernel'[c] = kernel[c]
         /\ ~(Head(todo) \in Rule /\ ~InForce(Head(todo))) => kernel' = kernel
<1>1. todo \in Seq(Entry) /\ todo # << >>
  BY DEF TypeOK, SendRule
<1>2. Head(todo) \in Entry /\ Tail(todo) \in Seq(Entry)
  BY <1>1, HeadAndTail
<1>3. PICK e \in Entry : e = Head(todo)
  BY <1>2
<1>4. /\ todo' = Tail(todo)
      /\ kernel' = IF e \in Rule /\ ~InForce(e) THEN [kernel EXCEPT ![ChainOf[e]] = Append(@, e)]
                   ELSE kernel
  BY <1>3 DEF SendRule
<1>5. CASE e \in Rule /\ ~InForce(e)
  BY <1>2, <1>3, <1>4, <1>5, Appended
<1>6. CASE ~(e \in Rule /\ ~InForce(e))
  BY <1>2, <1>3, <1>4, <1>6 DEF TypeOK, ChainsInv
<1> QED BY <1>5, <1>6

LEMMA ReceivedType ==
  ASSUME TypeOK
  PROVE  Received \in [Chain -> Seq(Rule)] /\ \A c \in Chain : Received[c] = RulesOf(list, c)
<1>1. \A c \in Chain : RulesOf(list, c) \in Seq(Rule)
  BY RulesOfType, Sets DEF TypeOK
<1> QED BY <1>1 DEF Received

LEMMA ListPartIs ==
  ASSUME TypeOK, ChainsInv, ListPart
  PROVE  /\ list' \in Seq(Entry) /\ part' \in {"input", "output", "done"}
         /\ (part = "policies" /\ part' = "input" /\ list' = Policies)
            \/ (part = "input" /\ part' = "output" /\ list' = Together(list, kernel["INPUT"]))
            \/ (part = "output" /\ part' = "done"
                /\ list' = IF stopping THEN Together(list, kernel["OUTPUT"]) ELSE list)
<1>1. kernel["INPUT"] \in Seq(Entry) /\ kernel["OUTPUT"] \in Seq(Entry)
  BY Sets DEF ChainsInv, Ordered, Chain
<1>2. list \in Seq(Entry) /\ Policies \in Seq(Entry)
  BY Sets DEF TypeOK
<1>3. Together(list, kernel["INPUT"]) \in Seq(Entry) /\ Together(list, kernel["OUTPUT"]) \in Seq(Entry)
  BY <1>1, <1>2, TogetherIs
<1>4. (part = "policies" /\ part' = "input" /\ list' = Policies)
      \/ (part = "input" /\ part' = "output" /\ list' = Together(list, kernel["INPUT"]))
      \/ (part = "output" /\ part' = "done"
          /\ list' = IF stopping THEN Together(list, kernel["OUTPUT"]) ELSE list)
  BY DEF ListPart, Together
<1> QED BY <1>2, <1>3, <1>4

LEMMA SaveType ==
  ASSUME TypeOK, NEW rules \in [Chain -> Seq(Rule)], Save(rules), orderly' \in BOOLEAN
  PROVE  TypeOK'
<1>1. /\ cache' = list /\ file' = << >> /\ todo' = list /\ at' = "saving"
      /\ saved' = [c \in Chain |-> IF c = "INPUT" \/ stopping THEN rules[c] ELSE saved[c]]
      /\ UNCHANGED <<kernel, stopping, linked, list, part, changes, starts, promised, fresh>>
  BY DEF Save
<1>2. saved' \in [Chain -> Seq(Rule)]
  BY <1>1 DEF TypeOK
<1> QED BY <1>1, <1>2, Sets DEF TypeOK, Step

LEMMA TypeStep ==
  ASSUME TypeOK, ChainsInv, [Next]_vars
  PROVE  TypeOK'
<1>0. << >> \in Seq(Entry) /\ << >> \in Seq(Rule)
  OBVIOUS
<1>1. CASE Start
  <2>1. ToSend \in Seq(Entry)
    BY ToSendRules DEF TypeOK
  <2>2. starts' \in Nat
    BY <1>1 DEF TypeOK, Start
  <2>3. /\ at' \in Step /\ stopping' \in BOOLEAN /\ linked' \in BOOLEAN
        /\ cache' = file /\ todo' = ToSend /\ promised' = saved
        /\ UNCHANGED <<kernel, file, list, part, changes, saved, fresh, orderly>>
    BY <1>1 DEF Start, Step
  <2> QED BY <2>1, <2>2, <2>3 DEF TypeOK
<1>2. CASE StartWithoutSocket
  <2>1. starts' \in Nat
    BY <1>2 DEF TypeOK, StartWithoutSocket
  <2>2. /\ at' \in Step /\ stopping' \in BOOLEAN /\ linked' \in BOOLEAN
        /\ fresh' \in BOOLEAN /\ orderly' \in BOOLEAN
        /\ cache' = file /\ promised' = saved
        /\ UNCHANGED <<kernel, file, todo, list, part, changes, saved>>
    BY <1>2 DEF StartWithoutSocket, Step
  <2> QED BY <2>1, <2>2 DEF TypeOK
<1>3. CASE SendRule
  <2>1. kernel' \in [Chain -> Seq(Rule)] /\ todo' \in Seq(Entry)
    BY <1>3, Sent
  <2> QED BY <1>3, <2>1 DEF TypeOK, SendRule
<1>4. CASE SendDone
  BY <1>0, <1>4 DEF TypeOK, SendDone, BeginList, Step
<1>5. CASE ListPart
  <2>1. list' \in Seq(Entry) /\ part' \in {"input", "output", "done"}
    BY <1>5, ListPartIs
  <2> QED BY <1>5, <2>1 DEF TypeOK, ListPart
<1>6. CASE ListDone
  <2>1. Save(kernel) /\ orderly' \in BOOLEAN
    BY <1>6 DEF ListDone, TypeOK
  <2> QED BY <2>1, SaveType DEF TypeOK
<1>7. CASE ListTimeout \/ ListFails
  <2>1. Save(Received) /\ orderly' \in BOOLEAN
    BY <1>7 DEF ListTimeout, ListFails, SaveReceived
  <2> QED BY <2>1, ReceivedType, SaveType
<1>8. CASE SaveRule
  <2>1. Head(todo) \in Entry /\ Tail(todo) \in Seq(Entry)
    BY <1>8, HeadAndTail DEF TypeOK, SaveRule
  <2>2. Append(file, Head(todo)) \in Seq(Entry)
    BY <2>1 DEF TypeOK
  <2> QED BY <1>8, <2>1, <2>2 DEF TypeOK, SaveRule
<1>9. CASE SaveDone
  BY <1>9 DEF TypeOK, SaveDone, Step
<1>10. CASE Stop
  BY <1>0, <1>10 DEF TypeOK, Stop, BeginList, Step
<1>11. CASE Crash
  BY <1>0, <1>11 DEF TypeOK, Crash, Dies, Step
<1>12. CASE Reboot
  <2>1. kernel' \in [Chain -> Seq(Rule)]
    BY <1>0, <1>12 DEF Reboot
  <2> QED BY <1>0, <1>12, <2>1 DEF TypeOK, Reboot, Dies, Step
<1>13. ASSUME NEW r \in Rule, UserAdds(r) \/ UserDeletes(r)
       PROVE  TypeOK'
  <2>1. kernel' \in [Chain -> Seq(Rule)]
    BY <1>13, Appended, Removed DEF UserAdds, UserDeletes
  <2>2. User
    BY <1>13 DEF UserAdds, UserDeletes
  <2>3. changes' \in Nat
    BY <2>2 DEF TypeOK, User
  <2>4. /\ fresh' \in BOOLEAN /\ orderly' \in BOOLEAN
        /\ UNCHANGED <<file, at, stopping, linked, cache, todo, list, part, starts, saved, promised>>
    BY <2>2 DEF User, service
  <2> QED BY <2>1, <2>3, <2>4 DEF TypeOK
<1>14. CASE UNCHANGED vars
  BY <1>14 DEF TypeOK, vars, service
<1> QED BY <1>1, <1>2, <1>3, <1>4, <1>5, <1>6, <1>7, <1>8, <1>9, <1>10, <1>11, <1>12, <1>13, <1>14 DEF Next

\* What a save keeps of a chain is in its chain and there once.
LEMMA SaveChains ==
  ASSUME ChainsInv, NEW rules, \A c \in Chain : Ordered(rules[c], c), Save(rules)
  PROVE  ChainsInv'
<1>1. /\ kernel' = kernel /\ promised' = promised
      /\ saved' = [c \in Chain |-> IF c = "INPUT" \/ stopping THEN rules[c] ELSE saved[c]]
  BY DEF Save
<1>2. ASSUME NEW c \in Chain
      PROVE  saved'[c] = rules[c] \/ saved'[c] = saved[c]
  BY <1>1
<1>3. ASSUME NEW c \in Chain
      PROVE  Ordered(saved'[c], c)
  <2>1. CASE saved'[c] = rules[c]
    BY <2>1
  <2>2. CASE saved'[c] = saved[c]
    BY <2>2 DEF ChainsInv
  <2> QED BY <1>2, <2>1, <2>2
<1> QED BY <1>1, <1>3 DEF ChainsInv

LEMMA ReceivedOrdered ==
  ASSUME TypeOK, ChainsInv, ListInv, at = "listing"
  PROVE  \A c \in Chain : Ordered(Received[c], c)
<1>1. SUFFICES ASSUME NEW c \in Chain
               PROVE  Ordered(Received[c], c)
  OBVIOUS
<1>2. Received[c] = Listed(c)
  BY ReceivedType DEF ListInv
<1>3. Listed(c) = kernel[c] \/ Listed(c) = << >>
  BY DEF Listed
<1> QED BY <1>2, <1>3, Sets DEF ChainsInv

LEMMA ChainsStep ==
  ASSUME TypeOK, ChainsInv, ListInv, [Next]_vars
  PROVE  ChainsInv'
<1>1. CASE Start \/ StartWithoutSocket
  <2>1. kernel' = kernel /\ saved' = saved /\ promised' = saved
    BY <1>1 DEF Start, StartWithoutSocket
  <2> QED BY <2>1 DEF ChainsInv
<1>2. CASE SendRule
  <2>1. saved' = saved /\ promised' = promised
    BY <1>2 DEF SendRule
  <2>2. \A c \in Chain : Ordered(kernel'[c], c)
    BY <1>2, Sent
  <2> QED BY <2>1, <2>2 DEF ChainsInv
<1>3. CASE ListDone
  <2>1. Save(kernel) /\ \A c \in Chain : Ordered(kernel[c], c)
    BY <1>3 DEF ListDone, ChainsInv
  <2> QED BY <2>1, SaveChains
<1>4. CASE ListTimeout \/ ListFails
  <2>1. Save(Received) /\ at = "listing"
    BY <1>4 DEF ListTimeout, ListFails, SaveReceived
  <2> QED BY <2>1, ReceivedOrdered, SaveChains
<1>5. CASE Reboot
  <2>1. saved' = saved /\ promised' = promised /\ \A c \in Chain : kernel'[c] = << >>
    BY <1>5 DEF Reboot
  <2> QED BY <2>1, Sets DEF ChainsInv
<1>6. ASSUME NEW r \in Rule, UserAdds(r) \/ UserDeletes(r)
      PROVE  ChainsInv'
  <2>1. \A c \in Chain : Ordered(kernel'[c], c)
    BY <1>6, Appended, Removed DEF UserAdds, UserDeletes
  <2>2. saved' = saved /\ promised' = promised
    BY <1>6 DEF UserAdds, UserDeletes, User
  <2> QED BY <2>1, <2>2 DEF ChainsInv
<1>7. CASE SendDone \/ ListPart \/ SaveRule \/ SaveDone \/ Stop \/ Crash \/ UNCHANGED vars
  <2>1. kernel' = kernel /\ saved' = saved /\ promised' = promised
    BY <1>7 DEF SendDone, ListPart, SaveRule, SaveDone, Stop, Crash, vars
  <2> QED BY <2>1 DEF ChainsInv
<1> QED BY <1>1, <1>2, <1>3, <1>4, <1>5, <1>6, <1>7 DEF Next

LEMMA ListPartListed ==
  ASSUME TypeOK, ChainsInv, ListInv, ListPart, NEW c \in Chain
  PROVE  RulesOf(list', c) = Listed(c)'
<1>1. /\ at = "listing" /\ kernel' = kernel /\ stopping' = stopping
  BY DEF ListPart
<1>2. RulesOf(list, c) = Listed(c)
  BY <1>1 DEF ListInv
<1>3. PICK l \in Seq(Entry) : l = list
  BY DEF TypeOK
<1>4. PICK in \in Seq(OfChain("INPUT")), out \in Seq(OfChain("OUTPUT")) :
        in = kernel["INPUT"] /\ out = kernel["OUTPUT"]
  BY DEF ChainsInv, Ordered, Chain
<1>5. in \in Seq(Entry) /\ out \in Seq(Entry) /\ "INPUT" \in Chain /\ "OUTPUT" \in Chain
  BY Sets DEF Chain
<1>6. /\ RulesOf(in, c) = IF c = "INPUT" THEN in ELSE << >>
      /\ RulesOf(out, c) = IF c = "OUTPUT" THEN out ELSE << >>
  BY <1>5, OwnRules
<1>7. CASE part = "policies" /\ part' = "input" /\ list' = Policies
  <2>1. RulesOf(list', c) = << >>
    BY <1>7, RulesOfPolicies
  <2> QED BY <1>7, <2>1 DEF Listed
<1>8. CASE part = "input" /\ part' = "output" /\ list' = Together(list, kernel["INPUT"])
  <2>1. RulesOf(list', c) = Together(RulesOf(l, c), RulesOf(in, c))
    BY <1>3, <1>4, <1>5, <1>8, RulesTogether
  <2>2. RulesOf(l, c) = << >>
    BY <1>2, <1>3, <1>8 DEF Listed
  <2>3. Together(<< >>, in) = in /\ Together(<< >>, << >>) = << >>
    BY <1>5, Sets, TogetherIs
  <2>4. RulesOf(list', c) = IF c = "INPUT" THEN in ELSE << >>
    BY <1>6, <2>1, <2>2, <2>3
  <2> QED BY <1>1, <1>4, <1>8, <2>4 DEF Listed, Chain
<1>9. CASE part = "output" /\ part' = "done"
           /\ list' = IF stopping THEN Together(list, kernel["OUTPUT"]) ELSE list
  <2>1. RulesOf(l, c) = IF c = "INPUT" THEN in ELSE << >>
    BY <1>2, <1>3, <1>4, <1>9 DEF Listed, Chain
  <2>2. CASE ~stopping
    BY <1>1, <1>3, <1>4, <1>9, <2>1, <2>2 DEF Listed, Chain
  <2>3. CASE stopping
    <3>1. RulesOf(list', c) = Together(RulesOf(l, c), RulesOf(out, c))
      BY <1>3, <1>4, <1>5, <1>9, <2>3, RulesTogether
    <3>2. Together(<< >>, out) = out /\ Together(in, << >>) = in
      BY <1>5, TogetherIs
    <3>3. RulesOf(list', c) = IF c = "INPUT" THEN in ELSE out
      BY <1>6, <2>1, <3>1, <3>2 DEF Chain
    <3> QED BY <1>1, <1>4, <1>9, <2>3, <3>3 DEF Listed, Chain
  <2> QED BY <2>2, <2>3
<1> QED BY <1>7, <1>8, <1>9, ListPartIs

LEMMA ListStep ==
  ASSUME QuietListing, TypeOK, ChainsInv, ListInv, [Next]_vars
  PROVE  ListInv'
<1>1. CASE SendDone \/ Stop
  <2>1. list' = << >> /\ part' = "policies"
    BY <1>1 DEF SendDone, Stop, BeginList
  <2> QED BY <2>1, RulesEmpty DEF ListInv, Listed
<1>2. CASE ListPart
  BY <1>2, ListPartListed DEF ListInv
<1>3. CASE Start \/ StartWithoutSocket \/ SendRule \/ ListDone \/ ListTimeout \/ ListFails
           \/ SaveRule \/ SaveDone \/ Crash \/ Reboot
  <2>1. at' # "listing"
    BY <1>3 DEF Start, StartWithoutSocket, SendRule, ListDone, ListTimeout, ListFails, SaveReceived,
                Save, SaveRule, SaveDone, Crash, Reboot, Dies
  <2> QED BY <2>1 DEF ListInv
<1>4. ASSUME NEW r \in Rule, UserAdds(r) \/ UserDeletes(r)
      PROVE  ListInv'
  <2>1. at' # "listing"
    BY <1>4 DEF QuietListing, UserAdds, UserDeletes, User, service
  <2> QED BY <2>1 DEF ListInv
<1>5. CASE UNCHANGED vars
  BY <1>5 DEF ListInv, Listed, vars, service
<1> QED BY <1>1, <1>2, <1>3, <1>4, <1>5 DEF Next

LEMMA WriteStep ==
  ASSUME TypeOK, WriteInv, [Next]_vars
  PROVE  WriteInv'
<1>1. CASE ListDone \/ ListTimeout \/ ListFails
  <2>1. file' = << >> /\ todo' = list /\ list' = list
    BY <1>1 DEF ListDone, ListTimeout, ListFails, SaveReceived, Save
  <2>2. Together(<< >>, list) = list
    BY TogetherIs DEF TypeOK
  <2> QED BY <2>1, <2>2 DEF WriteInv
<1>2. CASE SaveRule
  <2>1. file \in Seq(Entry) /\ todo \in Seq(Entry) /\ todo # << >>
    BY <1>2 DEF TypeOK, SaveRule
  <2>2. Together(Append(file, Head(todo)), Tail(todo)) = Together(file, todo)
    BY <2>1, MoveOne
  <2>3. file' = Append(file, Head(todo)) /\ todo' = Tail(todo) /\ list' = list /\ at = "saving"
    BY <1>2 DEF SaveRule
  <2> QED BY <2>2, <2>3 DEF WriteInv
<1>3. CASE Start \/ StartWithoutSocket \/ SendRule \/ SendDone \/ ListPart \/ SaveDone \/ Stop
           \/ Crash \/ Reboot
  <2>1. at' # "saving"
    BY <1>3 DEF Start, StartWithoutSocket, SendRule, SendDone, BeginList, ListPart, SaveDone, Stop,
                Crash, Reboot, Dies
  <2> QED BY <2>1 DEF WriteInv
<1>4. ASSUME NEW r \in Rule, UserAdds(r) \/ UserDeletes(r)
      PROVE  WriteInv'
  <2>1. UNCHANGED <<file, todo, list, at>>
    BY <1>4 DEF UserAdds, UserDeletes, User, service
  <2> QED BY <2>1 DEF WriteInv
<1>5. CASE UNCHANGED vars
  BY <1>5 DEF WriteInv, vars, service
<1> QED BY <1>1, <1>2, <1>3, <1>4, <1>5 DEF Next

LEMMA ServiceStep ==
  ASSUME QuietListing, ServiceInv, [Next]_vars
  PROVE  ServiceInv'
BY TypeStep, ChainsStep, ListStep, WriteStep DEF ServiceInv

-----------------------------------------------------------------------------
(* What an orderly stop leaves is found again.                             *)

\* Off, the file has the rules that were saved, which are those in force unless the
\* machine has restarted.  While they are sent, those in force and those to come make
\* up what was promised, or all of it is in force already.
RestoreInv ==
  orderly =>
    /\ at = "off" => /\ \A c \in Chain : RulesOf(file, c) = saved[c]
                     /\ kernel = saved \/ \A c \in Chain : kernel[c] = << >>
    /\ at = "sending" =>
         \/ \A c \in Chain : Together(kernel[c], RulesOf(todo, c)) = promised[c]
         \/ kernel = promised /\ \A c \in Chain : ToSet(RulesOf(todo, c)) \subseteq ToSet(kernel[c])
    /\ (at \in {"listing", "saving"} /\ ~stopping) \/ (at = "running" /\ fresh) => kernel = promised
    /\ at = "saving" /\ stopping => kernel = saved /\ \A c \in Chain : RulesOf(list, c) = saved[c]

LEMMA HeadElements ==
  ASSUME NEW S, NEW t \in Seq(S), t # << >>
  PROVE  ToSet(t) = {Head(t)} \cup ToSet(Tail(t))
<1>1. PICK one \in Seq(S), r \in Seq(S) : one = <<Head(t)>> /\ r = Tail(t) /\ t = one \o r
  BY HeadAndTail
<1>2. t = Together(one, r)
  BY <1>1 DEF Together
<1>3. ToSet(t) = ToSet(one) \cup ToSet(r)
  BY <1>2, ConcatSet
<1>4. ToSet(one) = {Head(t)}
  BY <1>1 DEF ToSet
<1> QED BY <1>1, <1>3, <1>4

LEMMA SameChains ==
  ASSUME NEW f \in [Chain -> Seq(Rule)], NEW g \in [Chain -> Seq(Rule)], \A c \in Chain : f[c] = g[c]
  PROVE  f = g
OBVIOUS

\* When all is written the file is the list.
LEMMA Written ==
  ASSUME ServiceInv, SaveDone
  PROVE  file' = list /\ file' \in Seq(Entry)
<1>1. Together(file, todo) = list /\ todo = << >> /\ file' = file /\ file \in Seq(Entry)
  BY DEF ServiceInv, WriteInv, SaveDone, TypeOK
<1> QED BY <1>1, TogetherIs

LEMMA RestoreStart ==
  ASSUME ServiceInv, RestoreInv, orderly', Start
  PROVE  RestoreInv'
<1>1. /\ at = "off" /\ orderly /\ at' = "sending" /\ kernel' = kernel /\ todo' = ToSend /\ promised' = saved
  BY DEF Start
<1>2. /\ \A c \in Chain : RulesOf(file, c) = saved[c]
      /\ kernel = saved \/ \A c \in Chain : kernel[c] = << >>
  BY <1>1 DEF RestoreInv
<1>3. \A c \in Chain : RulesOf(todo', c) = saved[c]
  BY <1>1, <1>2, ToSendRules DEF ServiceInv, TypeOK
<1>4. \A c \in Chain : Together(<< >>, saved[c]) = saved[c]
  BY TogetherIs DEF ServiceInv, TypeOK
<1>5. CASE kernel = saved
  BY <1>1, <1>3, <1>5 DEF RestoreInv
<1>6. CASE \A c \in Chain : kernel[c] = << >>
  BY <1>1, <1>3, <1>4, <1>6 DEF RestoreInv
<1> QED BY <1>2, <1>5, <1>6

LEMMA RestoreSend ==
  ASSUME ServiceInv, RestoreInv, orderly', SendRule
  PROVE  RestoreInv'
<1>1. TypeOK /\ ChainsInv
  BY DEF ServiceInv
<1>2. /\ at = "sending" /\ orderly /\ at' = "sending" /\ promised' = promised
      /\ todo \in Seq(Entry) /\ todo # << >>
  BY <1>1 DEF SendRule, TypeOK
<1>3. PICK e \in Entry, r \in Seq(Entry) : e = Head(todo) /\ r = Tail(todo)
  BY <1>2, HeadAndTail
<1>4. /\ todo' = r
      /\ (e \in Rule /\ ~InForce(e)) =>
           /\ kernel'[ChainOf[e]] = Append(kernel[ChainOf[e]], e)
           /\ \A c \in Chain : c # ChainOf[e] => kernel'[c] = kernel[c]
      /\ ~(e \in Rule /\ ~InForce(e)) => kernel' = kernel
  BY <1>1, <1>3, Sent
<1>5. \A c \in Chain : e \in OfChain(c) <=> e \in Rule /\ ChainOf[e] = c
  BY DEF OfChain
<1>6. \A c \in Chain : e \in OfChain(c) => (InForce(e) <=> e \in ToSet(kernel[c]))
  BY <1>1, <1>5, InItsChain
<1>7. CASE \A c \in Chain : Together(kernel[c], RulesOf(todo, c)) = promised[c]
  <2>1. ASSUME NEW c \in Chain
        PROVE  Together(kernel'[c], RulesOf(r, c)) = promised[c]
    <3>1. PICK k \in Seq(OfChain(c)), q \in Seq(OfChain(c)) : k = kernel[c] /\ q = RulesOf(todo, c)
      BY <1>1, <1>2, RulesOfType DEF ChainsInv, Ordered
    <3>2. Together(k, q) = promised[c] /\ IsInjective(promised[c])
      BY <1>1, <1>7, <3>1 DEF ChainsInv, Ordered
    <3>3. CASE e \in OfChain(c)
      <4>1. q # << >> /\ Head(q) = e /\ Tail(q) = RulesOf(r, c)
        BY <1>2, <1>3, <3>1, <3>3, RulesMoved
      <4>2. e \notin ToSet(k)
        BY <3>2, <4>1, NotYet
      <4>3. kernel'[c] = Append(k, e)
        BY <1>4, <1>5, <1>6, <3>1, <3>3, <4>2
      <4>4. Together(Append(k, Head(q)), Tail(q)) = Together(k, q)
        BY <4>1, MoveOne
      <4> QED BY <3>2, <4>1, <4>3, <4>4
    <3>4. CASE e \notin OfChain(c)
      <4>1. q = RulesOf(r, c)
        BY <1>2, <1>3, <3>1, <3>4, RulesMoved
      <4>2. kernel'[c] = k
        BY <1>4, <1>5, <3>1, <3>4
      <4> QED BY <3>2, <4>1, <4>2
    <3> QED BY <3>3, <3>4
  <2> QED BY <1>2, <1>4, <2>1 DEF RestoreInv
<1>8. CASE kernel = promised /\ \A c \in Chain : ToSet(RulesOf(todo, c)) \subseteq ToSet(kernel[c])
  <2>1. ToSet(todo) = {e} \cup ToSet(r)
    BY <1>2, <1>3, HeadElements
  <2>2. \A c \in Chain : /\ ToSet(RulesOf(todo, c)) = ToSet(todo) \cap OfChain(c)
                        /\ ToSet(RulesOf(r, c)) = ToSet(r) \cap OfChain(c)
    BY <1>2, RulesOfType
  <2>3. e \in Rule => InForce(e)
    <3>1. SUFFICES ASSUME e \in Rule
                   PROVE  InForce(e)
      OBVIOUS
    <3>2. ChainOf[e] \in Chain /\ e \in OfChain(ChainOf[e])
      BY <1>1, <3>1, InItsChain
    <3>3. e \in ToSet(kernel[ChainOf[e]])
      BY <1>8, <2>1, <2>2, <3>2
    <3> QED BY <1>6, <3>2, <3>3
  <2>4. kernel' = kernel
    BY <1>4, <2>3
  <2>5. \A c \in Chain : ToSet(RulesOf(r, c)) \subseteq ToSet(kernel[c])
    BY <1>8, <2>1, <2>2
  <2> QED BY <1>2, <1>4, <1>8, <2>4, <2>5 DEF RestoreInv
<1> QED BY <1>2, <1>7, <1>8 DEF RestoreInv

LEMMA RestoreSent ==
  ASSUME ServiceInv, RestoreInv, orderly', SendDone
  PROVE  RestoreInv'
<1>1. /\ at = "sending" /\ todo = << >> /\ at' = "listing" /\ orderly
      /\ kernel' = kernel /\ promised' = promised
  BY DEF SendDone, BeginList
<1>2. kernel \in [Chain -> Seq(Rule)] /\ promised \in [Chain -> Seq(Rule)]
  BY DEF ServiceInv, TypeOK
<1>3. CASE \A c \in Chain : Together(kernel[c], RulesOf(todo, c)) = promised[c]
  <2>1. \A c \in Chain : RulesOf(todo, c) = << >>
    BY <1>1, RulesEmpty
  <2>2. \A c \in Chain : Together(kernel[c], << >>) = kernel[c]
    BY <1>2, TogetherIs
  <2>3. \A c \in Chain : kernel[c] = promised[c]
    BY <1>3, <2>1, <2>2
  <2>4. kernel = promised
    BY <1>2, <2>3, SameChains
  <2> QED BY <1>1, <2>4 DEF RestoreInv
<1>4. CASE kernel = promised
  BY <1>1, <1>4 DEF RestoreInv
<1> QED BY <1>1, <1>3, <1>4 DEF RestoreInv

LEMMA RestoreListed ==
  ASSUME ServiceInv, RestoreInv, orderly', ListDone
  PROVE  RestoreInv'
<1>1. /\ at = "listing" /\ part = "done" /\ at' = "saving" /\ list' = list /\ stopping' = stopping
      /\ kernel' = kernel /\ promised' = promised /\ (orderly \/ stopping)
      /\ saved' = [c \in Chain |-> IF c = "INPUT" \/ stopping THEN kernel[c] ELSE saved[c]]
  BY DEF ListDone, Save
<1>2. CASE stopping
  <2>1. \A c \in Chain : saved'[c] = kernel[c]
    BY <1>1, <1>2
  <2>2. saved' = kernel
    BY <1>1, <1>2 DEF ServiceInv, TypeOK
  <2>3. \A c \in Chain : RulesOf(list, c) = kernel[c]
    BY <1>1, <1>2 DEF ServiceInv, ListInv, Listed, Chain
  <2> QED BY <1>1, <1>2, <2>1, <2>2, <2>3 DEF RestoreInv
<1>3. CASE ~stopping
  <2>1. kernel = promised
    BY <1>1, <1>3 DEF RestoreInv
  <2> QED BY <1>1, <1>3, <2>1 DEF RestoreInv
<1> QED BY <1>2, <1>3

LEMMA RestoreSaved ==
  ASSUME ServiceInv, RestoreInv, orderly', SaveDone
  PROVE  RestoreInv'
<1>1. /\ at = "saving" /\ at' = IF stopping THEN "off" ELSE "running"
      /\ stopping' = stopping /\ orderly
      /\ kernel' = kernel /\ promised' = promised /\ saved' = saved
  BY DEF SaveDone
<1>2. CASE stopping
  <2>1. kernel = saved /\ \A c \in Chain : RulesOf(list, c) = saved[c]
    BY <1>1, <1>2 DEF RestoreInv
  <2>2. file' = list
    BY Written
  <2> QED BY <1>1, <1>2, <2>1, <2>2 DEF RestoreInv
<1>3. CASE ~stopping
  <2>1. kernel = promised
    BY <1>1, <1>3 DEF RestoreInv
  <2> QED BY <1>1, <1>3, <2>1 DEF RestoreInv
<1> QED BY <1>2, <1>3

LEMMA RestoreStep ==
  ASSUME ServiceInv, RestoreInv, [Next]_vars
  PROVE  RestoreInv'
<1> SUFFICES ASSUME orderly'
             PROVE  RestoreInv'
  BY DEF RestoreInv
<1>1. CASE StartWithoutSocket \/ ListTimeout \/ ListFails \/ Crash
  BY <1>1 DEF StartWithoutSocket, ListTimeout, ListFails, SaveReceived, Crash
<1>2. CASE ListPart
  <2>1. /\ at = "listing" /\ at' = "listing" /\ orderly /\ stopping' = stopping
        /\ kernel' = kernel /\ promised' = promised
    BY <1>2 DEF ListPart
  <2> QED BY <2>1 DEF RestoreInv
<1>3. CASE SaveRule
  <2>1. /\ at = "saving" /\ at' = "saving" /\ orderly /\ stopping' = stopping
        /\ kernel' = kernel /\ promised' = promised /\ saved' = saved /\ list' = list
    BY <1>3 DEF SaveRule
  <2> QED BY <2>1 DEF RestoreInv
<1>4. CASE Stop
  <2>1. at' = "listing" /\ stopping' = TRUE
    BY <1>4 DEF Stop, BeginList
  <2> QED BY <2>1 DEF RestoreInv
<1>5. CASE Reboot
  <2>1. /\ at = "off" /\ orderly /\ at' = "off" /\ file' = file /\ saved' = saved
        /\ \A c \in Chain : kernel'[c] = << >>
    BY <1>5 DEF Reboot, Dies
  <2> QED BY <2>1 DEF RestoreInv
<1>6. ASSUME NEW r \in Rule, UserAdds(r) \/ UserDeletes(r)
      PROVE  RestoreInv'
  <2>1. at' = "running" /\ fresh' = FALSE
    BY <1>6 DEF UserAdds, UserDeletes, User, service
  <2> QED BY <2>1 DEF RestoreInv
<1>7. CASE UNCHANGED vars
  BY <1>7 DEF RestoreInv, vars, service
<1> QED BY <1>1, <1>2, <1>3, <1>4, <1>5, <1>6, <1>7, RestoreStart, RestoreSend, RestoreSent,
          RestoreListed, RestoreSaved DEF Next

\* If nobody changes rules while the service lists them, a service that was stopped in
\* order and comes up again finds in each chain the rules it left there, in their order:
\* getRulesSync and saveToFile in stop(), loadFromFile and sendRulesSync in started().
THEOREM StopIsRestored ==
  ASSUME QuietListing
  PROVE  Spec => []Restored
<1>1. Init => ServiceInv /\ RestoreInv
  <2>1. Init => ServiceInv
    BY ServiceInit
  <2>2. Init => RestoreInv
    BY RulesEmpty DEF Init, RestoreInv
  <2> QED BY <2>1, <2>2
<1>2. ServiceInv /\ RestoreInv /\ [Next]_vars => (ServiceInv /\ RestoreInv)'
  BY ServiceStep, RestoreStep
<1>3. ServiceInv /\ RestoreInv => Restored
  BY DEF RestoreInv, Restored
<1> QED BY <1>1, <1>2, <1>3, PTL DEF Spec

-----------------------------------------------------------------------------
(* The input rules that were saved come into force.                        *)

KeepInv ==
  /\ RulesOf(IF at = "saving" THEN list ELSE file, "INPUT") = saved["INPUT"]
  /\ at = "sending" => ToSet(promised["INPUT"]) \subseteq ToSet(kernel["INPUT"]) \cup ToSet(todo)
  /\ (at \in {"listing", "saving"} /\ ~stopping) \/ (at = "running" /\ fresh) =>
       ToSet(promised["INPUT"]) \subseteq ToSet(kernel["INPUT"])

LEMMA KeepStart ==
  ASSUME ServiceInv, KeepInv, Start
  PROVE  KeepInv'
<1>1. /\ at = "off" /\ at' = "sending" /\ file' = file /\ saved' = saved
      /\ kernel' = kernel /\ todo' = ToSend /\ promised' = saved
  BY DEF Start
<1>2. RulesOf(file, "INPUT") = saved["INPUT"]
  BY <1>1 DEF KeepInv
<1>3. ToSend \in Seq(Entry) /\ RulesOf(ToSend, "INPUT") = RulesOf(file, "INPUT")
  BY ToSendRules DEF ServiceInv, TypeOK, Chain
<1>4. ToSet(RulesOf(ToSend, "INPUT")) \subseteq ToSet(ToSend)
  BY <1>3, RulesOfType DEF Chain
<1> QED BY <1>1, <1>2, <1>3, <1>4 DEF KeepInv

LEMMA KeepSend ==
  ASSUME ServiceInv, KeepInv, SendRule
  PROVE  KeepInv'
<1>1. TypeOK /\ ChainsInv
  BY DEF ServiceInv
<1>2. /\ at = "sending" /\ at' = "sending" /\ file' = file /\ saved' = saved /\ promised' = promised
      /\ todo \in Seq(Entry) /\ todo # << >>
  BY <1>1 DEF SendRule, TypeOK
<1>3. PICK e \in Entry, r \in Seq(Entry) : e = Head(todo) /\ r = Tail(todo)
  BY <1>2, HeadAndTail
<1>4. /\ todo' = r
      /\ (e \in Rule /\ ~InForce(e)) =>
           /\ kernel'[ChainOf[e]] = Append(kernel[ChainOf[e]], e)
           /\ \A c \in Chain : c # ChainOf[e] => kernel'[c] = kernel[c]
      /\ ~(e \in Rule /\ ~InForce(e)) => kernel' = kernel
  BY <1>1, <1>3, Sent
<1>5. ToSet(todo) = {e} \cup ToSet(r)
  BY <1>2, <1>3, HeadElements
<1>6. "INPUT" \in Chain /\ kernel["INPUT"] \in Seq(Rule)
  BY <1>1 DEF TypeOK, Chain
<1>7. ToSet(kernel["INPUT"]) \subseteq ToSet(kernel'["INPUT"])
  <2>1. CASE e \in Rule /\ ~InForce(e) /\ ChainOf[e] = "INPUT"
    <3>1. ToSet(Append(kernel["INPUT"], e)) = ToSet(kernel["INPUT"]) \cup {e}
      BY <1>6, <2>1, AppendElements
    <3> QED BY <1>4, <2>1, <3>1
  <2>2. CASE ~(e \in Rule /\ ~InForce(e) /\ ChainOf[e] = "INPUT")
    <3>1. kernel'["INPUT"] = kernel["INPUT"]
      BY <1>4, <1>6, <2>2
    <3> QED BY <3>1
  <2> QED BY <2>1, <2>2
<1>8. e \in ToSet(promised["INPUT"]) => e \in ToSet(kernel'["INPUT"])
  <2>1. SUFFICES ASSUME e \in ToSet(promised["INPUT"])
                 PROVE  e \in ToSet(kernel'["INPUT"])
    OBVIOUS
  <2>2. e \in OfChain("INPUT")
    <3>1. promised["INPUT"] \in Seq(OfChain("INPUT"))
      BY <1>1, <1>6 DEF ChainsInv, Ordered
    <3> QED BY <2>1, <3>1 DEF ToSet
  <2>3. e \in Rule /\ ChainOf[e] = "INPUT"
    BY <2>2 DEF OfChain
  <2>4. CASE InForce(e)
    <3>1. e \in ToSet(kernel["INPUT"])
      BY <1>1, <2>3, <2>4, InItsChain
    <3> QED BY <1>7, <3>1
  <2>5. CASE ~InForce(e)
    <3>1. ToSet(Append(kernel["INPUT"], e)) = ToSet(kernel["INPUT"]) \cup {e}
      BY <1>6, <2>3, AppendElements
    <3> QED BY <1>4, <2>3, <2>5, <3>1
  <2> QED BY <2>4, <2>5
<1>9. ToSet(promised["INPUT"]) \subseteq ToSet(kernel["INPUT"]) \cup ToSet(todo)
  BY <1>2 DEF KeepInv
<1>10. ToSet(promised["INPUT"]) \subseteq ToSet(kernel'["INPUT"]) \cup ToSet(r)
  BY <1>5, <1>7, <1>8, <1>9
<1>11. RulesOf(file, "INPUT") = saved["INPUT"]
  BY <1>2 DEF KeepInv
<1> QED BY <1>2, <1>4, <1>10, <1>11 DEF KeepInv

\* What is saved is what has been listed, and all of it when the listing is over.
LEMMA KeepSave ==
  ASSUME ServiceInv, KeepInv, ListDone \/ ListTimeout \/ ListFails
  PROVE  KeepInv'
<1>1. PICK rules : /\ Save(rules) /\ at = "listing"
                   /\ rules["INPUT"] = RulesOf(list, "INPUT")
  <2>1. CASE ListDone
    <3>1. Save(kernel) /\ at = "listing" /\ part = "done"
      BY <2>1 DEF ListDone
    <3>2. RulesOf(list, "INPUT") = kernel["INPUT"]
      BY <3>1 DEF ServiceInv, ListInv, Listed, Chain
    <3> QED BY <3>1, <3>2
  <2>2. CASE ListTimeout \/ ListFails
    <3>1. Save(Received) /\ at = "listing"
      BY <2>2 DEF ListTimeout, ListFails, SaveReceived
    <3>2. Received["INPUT"] = RulesOf(list, "INPUT")
      BY ReceivedType DEF ServiceInv, Chain
    <3> QED BY <3>1, <3>2
  <2> QED BY <2>1, <2>2
<1>2. /\ at' = "saving" /\ list' = list /\ stopping' = stopping
      /\ kernel' = kernel /\ promised' = promised
      /\ saved' = [c \in Chain |-> IF c = "INPUT" \/ stopping THEN rules[c] ELSE saved[c]]
  BY <1>1 DEF Save
<1>3. saved'["INPUT"] = RulesOf(list, "INPUT")
  BY <1>1, <1>2 DEF Chain
<1> QED BY <1>1, <1>2, <1>3 DEF KeepInv

LEMMA KeepStep ==
  ASSUME QuietStart, ServiceInv, KeepInv, [Next]_vars
  PROVE  KeepInv'
<1>1. CASE StartWithoutSocket
  <2>1. at = "off" /\ at' = "running" /\ fresh' = FALSE /\ file' = file /\ saved' = saved
    BY <1>1 DEF StartWithoutSocket
  <2> QED BY <2>1 DEF KeepInv
<1>2. CASE SendDone
  <2>1. /\ at = "sending" /\ at' = "listing" /\ todo = << >> /\ file' = file /\ saved' = saved
        /\ kernel' = kernel /\ promised' = promised
    BY <1>2 DEF SendDone, BeginList
  <2>2. ToSet(todo) = {}
    BY <2>1 DEF ToSet
  <2> QED BY <2>1, <2>2 DEF KeepInv
<1>3. CASE ListPart
  <2>1. /\ at = "listing" /\ at' = "listing" /\ stopping' = stopping /\ file' = file /\ saved' = saved
        /\ kernel' = kernel /\ promised' = promised
    BY <1>3 DEF ListPart
  <2> QED BY <2>1 DEF KeepInv
<1>4. CASE SaveRule
  <2>1. /\ at = "saving" /\ at' = "saving" /\ stopping' = stopping /\ list' = list /\ saved' = saved
        /\ kernel' = kernel /\ promised' = promised
    BY <1>4 DEF SaveRule
  <2> QED BY <2>1 DEF KeepInv
<1>5. CASE SaveDone
  <2>1. /\ at = "saving" /\ at' = (IF stopping THEN "off" ELSE "running") /\ stopping' = stopping
        /\ saved' = saved /\ kernel' = kernel /\ promised' = promised
    BY <1>5 DEF SaveDone
  <2>2. file' = list
    BY <1>5, Written
  <2> QED BY <2>1, <2>2 DEF KeepInv
<1>6. CASE Stop
  <2>1. at = "running" /\ at' = "listing" /\ stopping' = TRUE /\ file' = file /\ saved' = saved
    BY <1>6 DEF Stop, BeginList
  <2> QED BY <2>1 DEF KeepInv
<1>7. CASE Crash \/ Reboot
  <2>1. at # "saving" /\ at' = "off" /\ file' = file /\ saved' = saved
    BY <1>7 DEF Crash, Reboot, Dies, QuietStart
  <2> QED BY <2>1 DEF KeepInv
<1>8. ASSUME NEW r \in Rule, UserAdds(r) \/ UserDeletes(r)
      PROVE  KeepInv'
  <2>1. at \in {"off", "running"} /\ at' = at /\ fresh' = FALSE /\ file' = file /\ saved' = saved
    BY <1>8 DEF UserAdds, UserDeletes, User, service, QuietStart
  <2> QED BY <2>1 DEF KeepInv
<1>9. CASE UNCHANGED vars
  BY <1>9 DEF KeepInv, vars, service
<1> QED BY <1>1, <1>2, <1>3, <1>4, <1>5, <1>6, <1>7, <1>8, <1>9, KeepStart, KeepSend, KeepSave DEF Next

\* If nobody changes rules while the service comes up, and nobody kills it while it writes
\* its file, the input rules that were last saved are in force when it has come up:
\* sendRulesSync, getRulesSync and saveToFile in started(), whatever was killed before.
THEOREM SavedComesIntoForce ==
  ASSUME QuietStart
  PROVE  Spec => []SavedInputInForce
<1>1. Init => ServiceInv /\ KeepInv
  <2>1. Init => ServiceInv
    BY ServiceInit
  <2>2. Init => KeepInv
    BY RulesEmpty DEF Init, KeepInv, Chain
  <2> QED BY <2>1, <2>2
<1>2. ServiceInv /\ KeepInv /\ [Next]_vars => (ServiceInv /\ KeepInv)'
  <2>1. QuietListing
    BY DEF QuietStart, QuietListing
  <2> QED BY <2>1, ServiceStep, KeepStep
<1>3. ServiceInv /\ KeepInv => SavedInputInForce
  BY DEF KeepInv, SavedInputInForce
<1> QED BY <1>1, <1>2, <1>3, PTL DEF Spec
=============================================================================
