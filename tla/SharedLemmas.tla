---------------------------- MODULE SharedLemmas ----------------------------
(***************************************************************************)
(* Induction and recursion over the naturals, stated about sets and        *)
(* functions instead of predicates; sequences that grow, are joined or     *)
(* inserted into; and remainders: what the proofs about the device list,   *)
(* its masks, the options, the byte stream of the queue and the channel's  *)
(* room rest on.                                                           *)
(***************************************************************************)
EXTENDS Integers, SequencesExt, SequenceTheorems, WellFoundedInduction, TLAPS

\* Every set of naturals that is not empty has a least element.
LEMMA LeastNatural ==
  ASSUME NEW T \in SUBSET Nat, T # {}
  PROVE  \E x \in T : \A y \in T : x <= y
<1> DEFINE Less == {pair \in Nat \X Nat : pair[1] < pair[2]}
<1>1. IsWellFoundedOn(Less, Nat)
  BY NatLessThanWellFounded DEF OpToRel
<1>2. PICK x \in T : \A y \in T : ~ (<<y, x>> \in Less)
  <2> HIDE DEF Less
  <2>1. QED
    BY <1>1, WFMin
<1>3. ASSUME NEW y \in T
      PROVE  x <= y
  <2>1. <<y, x>> \in Nat \X Nat /\ <<y, x>>[1] = y /\ <<y, x>>[2] = x
    BY <1>2
  <2>2. ~ (y < x)
    BY <1>2, <2>1
  <2>3. QED
    BY <1>2, <2>2
<1>4. QED
  BY <1>2, <1>3

\* A set that contains 0 and, up to a bound, the successor of each of its elements
\* contains every number up to that bound.
LEMMA BoundedInduction ==
  ASSUME NEW k \in Nat, NEW S, 0 \in S,
         \A n \in 1 .. k : n - 1 \in S => n \in S
  PROVE  \A n \in 0 .. k : n \in S
<1> DEFINE T == {n \in 0 .. k : n \notin S}
<1> SUFFICES ASSUME T # {} PROVE FALSE
  OBVIOUS
<1>1. T \in SUBSET Nat
  OBVIOUS
<1>2. PICK x \in T : \A y \in T : x <= y
  <2> HIDE DEF T
  <2>1. QED
    BY <1>1, LeastNatural
<1>3. x \in 1 .. k /\ x \notin S
  BY <1>2
<1>4. x - 1 \notin T /\ x - 1 \in 0 .. k
  BY <1>2, <1>3
<1>5. QED
  BY <1>3, <1>4

\* f is the recursion over 0 .. k from base whose steps are given by a function.
IsRecursion(f, k, base, step) ==
  /\ DOMAIN f = 0 .. k
  /\ f[0] = base
  /\ \A n \in 1 .. k : f[n] = step[<<f[n - 1], n>>]

\* Such a recursion has a solution.
LEMMA RecursionExists ==
  ASSUME NEW k \in Nat, NEW V, NEW base \in V, NEW step \in [V \X (1 .. k) -> V]
  PROVE  \E f \in [0 .. k -> V] : IsRecursion(f, k, base, step)
<1> DEFINE Solves(f, j) == /\ f[0] = base
                           /\ \A n \in 1 .. j : f[n] = step[<<f[n - 1], n>>]
           S == {j \in 0 .. k : \E f \in [0 .. j -> V] : Solves(f, j)}
<1>1. 0 \in S
  <2> DEFINE g == [n \in 0 .. 0 |-> base]
  <2>1. g \in [0 .. 0 -> V] /\ g[0] = base
    OBVIOUS
  <2>2. 1 .. 0 = {}
    OBVIOUS
  <2>3. Solves(g, 0)
    BY <2>1, <2>2
  <2> HIDE DEF g, Solves
  <2>4. QED
    BY <2>1, <2>3
<1>2. ASSUME NEW j \in 1 .. k, j - 1 \in S
      PROVE  j \in S
  <2>1. PICK f \in [0 .. j - 1 -> V] : Solves(f, j - 1)
    BY <1>2
  <2>2. f[j - 1] \in V
    BY <1>2, <2>1
  <2>3. step[<<f[j - 1], j>>] \in V
    BY <2>2
  <2> DEFINE g == [n \in 0 .. j |-> IF n = j THEN step[<<f[j - 1], j>>] ELSE f[n]]
  <2>4. g \in [0 .. j -> V]
    BY <2>1, <2>3
  <2>5. g[0] = base
    BY <2>1
  <2>6. ASSUME NEW n \in 1 .. j
        PROVE  g[n] = step[<<g[n - 1], n>>]
    <3>1. n - 1 \in 0 .. j /\ n - 1 # j /\ n \in 0 .. j
      OBVIOUS
    <3>2. g[n - 1] = f[n - 1]
      BY <3>1
    <3>3. g[n] = IF n = j THEN step[<<f[j - 1], j>>] ELSE f[n]
      BY <3>1
    <3> HIDE DEF g
    <3>4. CASE n = j
      BY <3>2, <3>3, <3>4
    <3>5. CASE n # j
      <4>1. n \in 1 .. j - 1
        BY <3>5
      <4>2. f[n] = step[<<f[n - 1], n>>]
        BY <2>1, <4>1
      <4>3. QED
        BY <3>2, <3>3, <3>5, <4>2
    <3>6. QED
      BY <3>4, <3>5
  <2>7. Solves(g, j)
    BY <2>5, <2>6
  <2> HIDE DEF g, Solves
  <2>8. QED
    BY <2>4, <2>7
<1>3. k \in S
  <2> HIDE DEF S
  <2>1. QED
    BY <1>1, <1>2, BoundedInduction
<1>4. QED
  BY <1>3 DEF IsRecursion

\* The elements of a sequence after an insertion.
LEMMA InsertAtProperties ==
  ASSUME NEW S, NEW s \in Seq(S), NEW p \in 1 .. Len(s) + 1, NEW e \in S
  PROVE  /\ InsertAt(s, p, e) \in Seq(S)
         /\ Len(InsertAt(s, p, e)) = Len(s) + 1
         /\ \A i \in 1 .. Len(s) + 1 :
              InsertAt(s, p, e)[i] = IF i < p THEN s[i] ELSE IF i = p THEN e ELSE s[i - 1]
<1> DEFINE front == SubSeq(s, 1, p - 1)
           back == SubSeq(s, p, Len(s))
<1>1. Len(s) \in Nat /\ p \in Int
  OBVIOUS
<1>2. /\ front \in Seq(S) /\ Len(front) = p - 1
      /\ \A i \in 1 .. p - 1 : front[i] = s[i]
  BY <1>1, SubSeqProperties
<1>3. /\ back \in Seq(S) /\ Len(back) = Len(s) - p + 1
      /\ \A i \in 1 .. Len(s) - p + 1 : back[i] = s[p + i - 1]
  BY <1>1, SubSeqProperties
<1>4. <<e>> \in Seq(S) /\ Len(<<e>>) = 1 /\ <<e>>[1] = e
  OBVIOUS
<1> HIDE DEF front, back
<1>5. /\ front \o <<e>> \in Seq(S) /\ Len(front \o <<e>>) = p
      /\ \A i \in 1 .. p : (front \o <<e>>)[i] = IF i < p THEN s[i] ELSE e
  <2> DEFINE one == <<e>>
  <2>1. one \in Seq(S) /\ Len(one) = 1 /\ one[1] = e
    BY <1>4
  <2> HIDE DEF one
  <2>2. /\ front \o one \in Seq(S) /\ Len(front \o one) = Len(front) + Len(one)
        /\ \A i \in 1 .. Len(front) + Len(one) :
             (front \o one)[i] = IF i <= Len(front) THEN front[i] ELSE one[i - Len(front)]
    BY <1>2, <2>1, ConcatProperties, Zenon
  <2>3. Len(front) + Len(one) = p
    BY <1>1, <1>2, <2>1
  <2>4. \A i \in 1 .. p : (front \o one)[i] = IF i < p THEN s[i] ELSE e
    BY <1>1, <1>2, <2>1, <2>2, <2>3
  <2>5. QED
    BY <2>2, <2>3, <2>4 DEF one
<1>6. /\ (front \o <<e>>) \o back \in Seq(S)
      /\ Len((front \o <<e>>) \o back) = Len(s) + 1
      /\ \A i \in 1 .. Len(s) + 1 :
           ((front \o <<e>>) \o back)[i] = IF i <= p THEN (front \o <<e>>)[i] ELSE back[i - p]
  <2> DEFINE left == front \o <<e>>
  <2>1. left \in Seq(S) /\ Len(left) = p
    BY <1>5
  <2> HIDE DEF left
  <2>2. /\ left \o back \in Seq(S) /\ Len(left \o back) = Len(left) + Len(back)
        /\ \A i \in 1 .. Len(left) + Len(back) :
             (left \o back)[i] = IF i <= Len(left) THEN left[i] ELSE back[i - Len(left)]
    BY <1>3, <2>1, ConcatProperties, Zenon
  <2>3. Len(left) = p /\ Len(left) + Len(back) = Len(s) + 1
    BY <1>1, <1>3, <2>1
  <2>4. QED
    BY <2>2, <2>3 DEF left
<1>7. InsertAt(s, p, e) = (front \o <<e>>) \o back
  BY DEF InsertAt, front, back
<1> DEFINE result == (front \o <<e>>) \o back
<1>8. \A i \in 1 .. Len(s) + 1 :
        result[i] = IF i < p THEN s[i] ELSE IF i = p THEN e ELSE s[i - 1]
  <2> SUFFICES ASSUME NEW i \in 1 .. Len(s) + 1
               PROVE  result[i] = IF i < p THEN s[i] ELSE IF i = p THEN e ELSE s[i - 1]
    OBVIOUS
  <2> DEFINE left == front \o <<e>>
  <2>4. /\ \A j \in 1 .. p : left[j] = IF j < p THEN s[j] ELSE e
        /\ result[i] = IF i <= p THEN left[i] ELSE back[i - p]
    BY <1>5, <1>6
  <2> HIDE DEF left, result
  <2>1. CASE i <= p
    BY <2>1, <2>4, <1>1
  <2>2. CASE i > p
    <3>1. i - p \in 1 .. Len(s) - p + 1 /\ p + (i - p) - 1 = i - 1
      BY <2>2, <1>1
    <3>2. result[i] = back[i - p]
      BY <2>2, <2>4, <1>1
    <3>3. QED
      BY <2>2, <3>1, <3>2, <1>1, <1>3
  <2>3. QED
    BY <2>1, <2>2, <1>1
<1>9. QED
  BY <1>6, <1>7, <1>8

\* The first elements of a sequence, one more at a time.
LEMMA FrontGrows ==
  ASSUME NEW S, NEW s \in Seq(S)
  PROVE  /\ SubSeq(s, 1, 0) = <<>> /\ SubSeq(s, 1, Len(s)) = s
         /\ \A n \in 0 .. Len(s) : SubSeq(s, 1, n) \in Seq(S)
         /\ \A n \in 1 .. Len(s) : SubSeq(s, 1, n) = Append(SubSeq(s, 1, n - 1), s[n])
<1>1. Len(s) \in Nat /\ \A n \in 1 .. Len(s) : s[n] \in S
  BY LenProperties, ElementOfSeq
<1>2. ASSUME NEW n \in 0 .. Len(s)
      PROVE  SubSeq(s, 1, n) \in Seq(S)
  <2>1. n \in Int /\ \A k \in 1 .. n : s[k] \in S
    BY <1>1
  <2>2. QED
    BY <2>1, SubSeqProperties
<1>3. ASSUME NEW n \in 1 .. Len(s)
      PROVE  SubSeq(s, 1, n) = Append(SubSeq(s, 1, n - 1), s[n])
  <2> DEFINE front == SubSeq(s, 1, n - 1)
  <2>1. 1 \in 1 .. Len(s) /\ n \in 1 .. Len(s) /\ n - 1 \in 0 .. Len(s) /\ s[n] \in S
    BY <1>1
  <2>2. SubSeq(s, 1, n) = front \o <<s[n]>>
    BY <2>1, SubSeqRecursiveSecond
  <2>3. front \in Seq(S)
    BY <1>2, <2>1
  <2> HIDE DEF front
  <2>4. Append(front, s[n]) = front \o <<s[n]>>
    BY <2>1, <2>3, AppendIsConcat
  <2>5. QED
    BY <2>2, <2>4 DEF front
<1>4. SubSeq(s, 1, 0) = <<>>
  BY SubSeqEmpty
<1>5. SubSeq(s, 1, Len(s)) = s
  BY SubSeqFull
<1>6. QED
  BY <1>2, <1>3, <1>4, <1>5

\* What is appended to the second of two sequences is appended to both together.
LEMMA AppendToSecond ==
  ASSUME NEW S, NEW s \in Seq(S), NEW t \in Seq(S), NEW e \in S
  PROVE  s \o Append(t, e) = Append(s \o t, e)
<1>1. <<e>> \in Seq(S) /\ s \o t \in Seq(S)
  BY ConcatProperties
<1>2. Append(t, e) = t \o <<e>> /\ Append(s \o t, e) = (s \o t) \o <<e>>
  BY <1>1, AppendIsConcat
<1>3. (s \o t) \o <<e>> = s \o (t \o <<e>>)
  BY <1>1, ConcatAssociative
<1>4. QED
  BY <1>2, <1>3

\* A sequence of sequences, joined.
LEMMA FlattenedIsSequence ==
  ASSUME NEW S, NEW seqs \in Seq(Seq(S))
  PROVE  FlattenSeq(seqs) \in Seq(S)
<1> DEFINE V == Seq(S)
           k == Len(seqs)
           base == <<>>
           step == [x \in V \X (1 .. k) |-> x[1] \o seqs[x[2]]]
           Rec(f) == [n \in 1 .. k |-> IF n = 1 THEN seqs[n] ELSE f[n - 1] \o seqs[n]]
<1>1. k \in Nat /\ \A n \in 1 .. k : seqs[n] \in V
  BY LenProperties, ElementOfSeq
<1>2. base \in V /\ \A v \in V, w \in V : v \o w \in V
  BY EmptySeq, ConcatProperties
<1>3. /\ step \in [V \X (1 .. k) -> V]
      /\ \A v \in V, n \in 1 .. k : step[<<v, n>>] = v \o seqs[n]
  <2>1. ASSUME NEW x \in V \X (1 .. k)
        PROVE  x[1] \o seqs[x[2]] \in V
    BY <1>1, <1>2
  <2>2. QED
    BY <2>1
<1>4. CASE k = 0
  <2>1. seqs = <<>>
    BY <1>4, EmptySeq
  <2>2. FlattenSeq(seqs) = seqs
    BY <1>4 DEF FlattenSeq
  <2>3. QED
    BY <2>1, <2>2, EmptySeq
<1>5. CASE k # 0
  <2> HIDE DEF step, base
  <2>1. PICK f \in [0 .. k -> V] : IsRecursion(f, k, base, step)
    <3> HIDE DEF V, k
    <3>1. QED
      BY <1>1, <1>2, <1>3, RecursionExists
  <2> DEFINE h == [n \in 1 .. k |-> f[n]]
  <2>2. h = Rec(h)
    <3>1. ASSUME NEW n \in 1 .. k
          PROVE  f[n] = f[n - 1] \o seqs[n] /\ f[n - 1] \in V
      <4>1. f[n - 1] \in V
        <5> HIDE DEF k, V
        <5>1. n - 1 \in 0 .. k
          BY <1>1
        <5>2. QED
          BY <2>1, <5>1
      <4>2. f[n] = step[<<f[n - 1], n>>]
        BY <2>1 DEF IsRecursion
      <4>3. QED
        BY <1>3, <4>1, <4>2
    <3>2. f[1] = seqs[1]
      <4>1. f[1] = f[0] \o seqs[1] /\ seqs[1] \in V
        <5> HIDE DEF k, V
        <5>1. 1 \in 1 .. k /\ 1 - 1 = 0
          BY <1>1, <1>5
        <5>2. f[1] = f[1 - 1] \o seqs[1]
          BY <3>1, <5>1
        <5>3. QED
          BY <1>1, <5>1, <5>2
      <4>2. f[0] = <<>>
        BY <2>1 DEF IsRecursion, base
      <4>3. QED
        BY <4>1, <4>2, ConcatEmptySeq
    <3>3. ASSUME NEW n \in 1 .. k
          PROVE  h[n] = IF n = 1 THEN seqs[n] ELSE h[n - 1] \o seqs[n]
      <4>1. CASE n = 1
        BY <3>2, <4>1
      <4>2. CASE n # 1
        <5>1. n - 1 \in 1 .. k
          BY <4>2
        <5>2. h[n - 1] = f[n - 1] /\ h[n] = f[n]
          BY <5>1
        <5>3. QED
          BY <3>1, <4>2, <5>2
      <4>3. QED
        BY <4>1, <4>2
    <3> HIDE DEF V
    <3>4. QED
      BY <3>3
  <2> DEFINE g == CHOOSE g : g = Rec(g)
  <2> HIDE DEF Rec, h
  <2>3. g = Rec(g)
    BY <2>2, Zenon
  <2>4. FlattenSeq(seqs) = g[k]
    BY <1>5, Zenon DEF FlattenSeq, Rec
  <2> HIDE DEF g
  <2>5. \A n \in 1 .. k : g[n] = IF n = 1 THEN seqs[n] ELSE g[n - 1] \o seqs[n]
    <3>1. \A n \in 1 .. k : Rec(g)[n] = IF n = 1 THEN seqs[n] ELSE g[n - 1] \o seqs[n]
      BY DEF Rec
    <3>2. QED
      BY ONLY <2>3, <3>1
  <2> DEFINE R == {n \in 0 .. k : n > 0 => g[n] \in V}
  <2>6. 0 \in R
    BY <1>1
  <2>7. ASSUME NEW n \in 1 .. k, n - 1 \in R
        PROVE  n \in R
    <3>1. n # 1 => g[n - 1] \in V
      BY <2>7
    <3> HIDE DEF V
    <3>2. g[n] \in V
      BY <1>1, <1>2, <2>5, <3>1
    <3>3. QED
      BY <1>1, <3>2
  <2>8. \A n \in 0 .. k : n \in R
    <3> HIDE DEF R, k
    <3>1. QED
      BY <1>1, <2>6, <2>7, BoundedInduction
  <2>9. QED
    BY <1>1, <1>5, <2>4, <2>8
<1>6. QED
  BY <1>4, <1>5

\* Division with a remainder, and that there is only one.
LEMMA RemainderIs ==
  ASSUME NEW s \in Nat, NEW q \in Int, NEW r \in 0 .. s - 1, NEW x \in Int, x = q * s + r
  PROVE  x % s = r
OBVIOUS

LEMMA Division ==
  ASSUME NEW s \in Nat, s > 0, NEW x \in Int
  PROVE  x = s * (x \div s) + (x % s) /\ x % s \in 0 .. s - 1 /\ x \div s \in Int /\ (x >= 0 => x \div s \in Nat)
OBVIOUS
=============================================================================
