-------------------------- MODULE TuiScreens_proofs --------------------------
(***************************************************************************)
(* Proofs about TuiScreens, for any library, any playlists and any lists   *)
(* of the service: first about rows taken by their indices, then that who  *)
(* gets a key, the cursors, the marks and the rows of playlists stay as    *)
(* TuiScreens says.                                                        *)
(***************************************************************************)
EXTENDS TuiScreens, FiniteSetTheorems, SequenceTheorems, TLAPS

-----------------------------------------------------------------------------
(* Sets of indices in their order *)

\* A set of naturals has a least one: induction, without a predicate for a
\* parameter.
LEMMA LeastNat ==
  ASSUME NEW S \in SUBSET Nat, S # {}
  PROVE  \E n \in S : \A m \in S : n <= m
<1>1. IsWellFoundedOn(OpToRel(<, Nat), Nat)
  BY NatLessThanWellFounded
<1>2. PICK n \in S : \A m \in S : ~(<<m, n>> \in OpToRel(<, Nat))
  BY <1>1, WFMin
<1>3. \A m \in S : ~(m < n)
  BY <1>2 DEF OpToRel
<1>4. QED
  BY <1>3

LEMMA SizeOfInterval ==
  ASSUME NEW n \in Nat
  PROVE  /\ IsFiniteSet(1..n) /\ Cardinality(1..n) = n
         /\ IsFiniteSet(0..(n - 1)) /\ Cardinality(0..(n - 1)) = n
<1>1. 1 \in Int /\ n \in Int /\ 0 \in Int /\ n - 1 \in Int
  OBVIOUS
<1>2. IsFiniteSet(1..n) /\ Cardinality(1..n) = IF 1 > n THEN 0 ELSE n - 1 + 1
  BY <1>1, FS_Interval
<1>3. IsFiniteSet(0..(n - 1)) /\ Cardinality(0..(n - 1)) = IF 0 > n - 1 THEN 0 ELSE (n - 1) - 0 + 1
  BY ONLY <1>1, FS_Interval
<1>4. QED
  BY <1>2, <1>3

LEMMA RankFacts ==
  ASSUME NEW S \in SUBSET Nat, IsFiniteSet(S), NEW i \in S
  PROVE  /\ Rank(S, i) \in 0..(Cardinality(S) - 1)
         /\ \A j \in S : i < j => Rank(S, i) < Rank(S, j)
<1> DEFINE Before(j) == {k \in S : k < j}
<1>1. \A j : IsFiniteSet(Before(j)) /\ Cardinality(Before(j)) \in Nat
  <2>1. \A j : Before(j) \in SUBSET S
    OBVIOUS
  <2>2. QED
    BY <2>1, FS_Subset, FS_CardinalityType
<1>2. IsFiniteSet(S \ {i}) /\ Cardinality(S \ {i}) = Cardinality(S) - 1 /\ Cardinality(S) \in Nat
  BY FS_RemoveElement, FS_CardinalityType
<1>3. Cardinality(Before(i)) <= Cardinality(S \ {i})
  <2>1. Before(i) \in SUBSET (S \ {i})
    OBVIOUS
  <2>2. QED
    BY <2>1, <1>2, FS_Subset
<1>4. ASSUME NEW j \in S, i < j
      PROVE  Cardinality(Before(i)) < Cardinality(Before(j))
  <2> i \in Nat /\ j \in Nat /\ \A k \in S : k \in Nat
    OBVIOUS
  <2>1. Before(i) \in SUBSET Before(j) /\ i \in Before(j) /\ i \notin Before(i)
    <3>1. ASSUME NEW k \in S, k < i
          PROVE  k < j
      BY <1>4, <3>1
    <3>2. Before(i) \in SUBSET Before(j)
      BY <3>1, Zenon
    <3>3. i \in Before(j)
      BY <1>4, Zenon
    <3>4. ~(i < i)
      OBVIOUS
    <3>5. QED
      BY <3>2, <3>3, <3>4, Zenon
  <2>2. Cardinality(Before(i)) <= Cardinality(Before(j)) /\ Cardinality(Before(i)) # Cardinality(Before(j))
    BY <2>1, <1>1, FS_Subset
  <2>3. QED
    BY <2>2, <1>1
<1>5. QED
  BY <1>1, <1>2, <1>3, <1>4 DEF Rank

\* The k-th index is there, and is the only one with k - 1 before it.
LEMMA InOrderFacts ==
  ASSUME NEW S \in SUBSET Nat, IsFiniteSet(S)
  PROVE  /\ Cardinality(S) \in Nat
         /\ \A k \in 1..Cardinality(S) : InOrder(S)[k] \in S /\ Rank(S, InOrder(S)[k]) = k - 1
         /\ \A i \in S : InOrder(S)[Rank(S, i) + 1] = i
<1> DEFINE n == Cardinality(S)
           rank == [i \in S |-> Rank(S, i)]
<1>1. n \in Nat
  BY FS_CardinalityType
<1>2. rank \in Injection(S, 0..(n - 1))
  <2>1. rank \in [S -> 0..(n - 1)]
    BY RankFacts
  <2>2. ASSUME NEW i \in S, NEW j \in S, rank[i] = rank[j]
        PROVE  i = j
    <3>1. ~(i < j) /\ ~(j < i)
      BY <2>2, RankFacts
    <3>2. QED
      BY <3>1
  <2>3. QED
    BY <2>1, <2>2 DEF Injection, IsInjective
<1>3. IsFiniteSet(0..(n - 1)) /\ Cardinality(0..(n - 1)) = n
  BY <1>1, SizeOfInterval
<1>4. rank \in Surjection(S, 0..(n - 1))
  BY <1>2, <1>3, FS_Injection
<1>5. ASSUME NEW k \in 1..n
      PROVE  InOrder(S)[k] \in S /\ Rank(S, InOrder(S)[k]) = k - 1
  <2>1. k - 1 \in 0..(n - 1)
    BY <1>1
  <2>2. \E i \in S : Rank(S, i) = k - 1
    BY <1>4, <2>1 DEF Surjection
  <2>3. InOrder(S)[k] = CHOOSE i \in S : Rank(S, i) = k - 1
    BY DEF InOrder
  <2>4. QED
    BY <2>2, <2>3
<1>6. ASSUME NEW i \in S
      PROVE  InOrder(S)[Rank(S, i) + 1] = i
  <2>1. Rank(S, i) \in 0..(n - 1)
    BY RankFacts
  <2> DEFINE j == InOrder(S)[Rank(S, i) + 1]
  <2>2. j \in S /\ Rank(S, j) = Rank(S, i)
    BY <1>1, <1>5, <2>1
  <2>3. rank[i] = rank[j]
    BY <2>2
  <2>4. QED
    BY <1>2, <2>2, <2>3 DEF Injection, IsInjective
<1>7. QED
  BY <1>1, <1>5, <1>6

\* Before an index of an unbroken list there are all those below it.
LEMMA RankInInterval ==
  ASSUME NEW n \in Nat, NEW i \in 1..n
  PROVE  Rank(1..n, i) = i - 1
<1>1. {j \in 1..n : j < i} = 1..(i - 1)
  OBVIOUS
<1>2. Cardinality(1..(i - 1)) = i - 1
  BY SizeOfInterval
<1>3. QED
  BY <1>1, <1>2 DEF Rank

LEMMA IntervalFacts ==
  ASSUME NEW n \in Nat
  PROVE  /\ IsFiniteSet(1..n) /\ Cardinality(1..n) = n
         /\ \A k \in 1..n : InOrder(1..n)[k] = k
<1>1. IsFiniteSet(1..n) /\ Cardinality(1..n) = n
  BY SizeOfInterval
<1>2. ASSUME NEW k \in 1..n
      PROVE  InOrder(1..n)[k] = k
  <2>1. Rank(1..n, k) + 1 = k
    BY RankInInterval
  <2>2. 1..n \in SUBSET Nat
    OBVIOUS
  <2>3. InOrder(1..n)[Rank(1..n, k) + 1] = k
    BY <1>1, <2>2, InOrderFacts
  <2>4. QED
    BY <2>1, <2>3
<1>3. QED
  BY <1>1, <1>2

\* Indices of a sequence are a finite set of naturals.
LEMMA IndexSets ==
  ASSUME NEW T, NEW s \in Seq(T), NEW S \in SUBSET DOMAIN s
  PROVE  S \in SUBSET Nat /\ IsFiniteSet(S) /\ Cardinality(S) <= Len(s) /\ Cardinality(S) \in Nat
<1>1. DOMAIN s = 1..Len(s) /\ Len(s) \in Nat
  OBVIOUS
<1>2. IsFiniteSet(1..Len(s)) /\ Cardinality(1..Len(s)) = Len(s)
  BY <1>1, SizeOfInterval
<1>3. QED
  BY <1>1, <1>2, FS_Subset, FS_CardinalityType

LEMMA AtFacts ==
  ASSUME NEW T, NEW s \in Seq(T), NEW S \in SUBSET DOMAIN s
  PROVE  /\ At(s, S) \in Seq(T)
         /\ Len(At(s, S)) = Cardinality(S)
         /\ \A k \in 1..Cardinality(S) : At(s, S)[k] = s[InOrder(S)[k]]
<1>1. S \in SUBSET Nat /\ IsFiniteSet(S) /\ Cardinality(S) \in Nat
  BY IndexSets
<1>2. \A k \in 1..Cardinality(S) : InOrder(S)[k] \in S
  BY <1>1, InOrderFacts
<1>3. \A k \in 1..Cardinality(S) : s[InOrder(S)[k]] \in T
  BY <1>2
<1>4. QED
  BY <1>1, <1>3 DEF At

LEMMA PrefixFacts ==
  ASSUME NEW T, NEW s \in Seq(T), NEW t \in Seq(T)
  PROVE  IsPrefix(s, t) <=> Len(s) <= Len(t) /\ \A k \in 1..Len(s) : s[k] = t[k]
<1>1. Len(s) \in Nat /\ Len(t) \in Nat
  OBVIOUS
<1>2. CASE Len(s) <= Len(t)
  <2> DEFINE a == SubSeq(s, 1, Len(s))
             b == SubSeq(t, 1, Len(s))
  <2>1. a \in Seq(T) /\ Len(a) = Len(s) /\ \A k \in 1..Len(s) : a[k] = s[k]
    BY <1>1
  <2>2. b \in Seq(T) /\ Len(b) = Len(s) /\ \A k \in 1..Len(s) : b[k] = t[k]
    BY <1>1, <1>2
  <2>3. IsPrefix(s, t) <=> a = b
    BY <1>2 DEF IsPrefix
  <2> HIDE DEF a, b
  <2>4. a = b <=> \A k \in 1..Len(s) : a[k] = b[k]
    BY <2>1, <2>2, SeqEqual
  <2>5. QED
    BY <1>2, <2>1, <2>2, <2>3, <2>4
<1>3. CASE ~(Len(s) <= Len(t))
  BY <1>3 DEF IsPrefix
<1>4. QED
  BY <1>2, <1>3

LEMMA SetToSeqFacts ==
  ASSUME NEW S, IsFiniteSet(S)
  PROVE  SetToSeq(S) \in Seq(S)
<1>1. Cardinality(S) \in Nat /\ \E f : f \in Bijection(1..Cardinality(S), S)
  BY FS_CardinalityType DEF ExistsBijection
<1>2. \E f \in [1..Cardinality(S) -> S] : IsInjective(f)
  BY <1>1 DEF Bijection, Injection
<1>3. SetToSeq(S) \in [1..Cardinality(S) -> S]
  BY <1>2 DEF SetToSeq
<1>4. QED
  BY <1>1, <1>3

LEMMA RankWithout ==
  ASSUME NEW S \in SUBSET Nat, IsFiniteSet(S), NEW i \in S, NEW j \in S \ {i}
  PROVE  Rank(S \ {i}, j) = IF j < i THEN Rank(S, j) ELSE Rank(S, j) - 1
<1> DEFINE below == {k \in S : k < j}
<1>1. i \in Nat /\ j \in Nat /\ i # j
  OBVIOUS
<1>2. {k \in S \ {i} : k < j} = below \ {i}
  OBVIOUS
<1>3. IsFiniteSet(below)
  <2>1. below \in SUBSET S
    OBVIOUS
  <2>2. QED
    BY <2>1, FS_Subset
<1>4. i \in below <=> i < j
  OBVIOUS
<1>5. Cardinality(below \ {i}) = IF i \in below THEN Cardinality(below) - 1 ELSE Cardinality(below)
  BY <1>3, FS_RemoveElement
<1>6. QED
  BY <1>1, <1>2, <1>4, <1>5 DEF Rank

\* What is taken out of a set is passed over by its order.
LEMMA InOrderWithout ==
  ASSUME NEW S \in SUBSET Nat, IsFiniteSet(S), NEW i \in S,
         NEW k \in 1..(Cardinality(S) - 1)
  PROVE  InOrder(S \ {i})[k] =
            IF k <= Rank(S, i) THEN InOrder(S)[k] ELSE InOrder(S)[k + 1]
<1>1. /\ Cardinality(S) \in Nat
      /\ \A n \in 1..Cardinality(S) : InOrder(S)[n] \in S /\ Rank(S, InOrder(S)[n]) = n - 1
  BY InOrderFacts
<1>2. S \ {i} \in SUBSET Nat /\ IsFiniteSet(S \ {i})
  BY FS_RemoveElement
<1>3. \A j \in S \ {i} : InOrder(S \ {i})[Rank(S \ {i}, j) + 1] = j
  BY <1>2, InOrderFacts
<1>4. Rank(S, i) \in Nat /\ i \in Nat
  BY <1>1, RankFacts
<1>5. CASE k <= Rank(S, i)
  <2> DEFINE j == InOrder(S)[k]
  <2>1. j \in S /\ Rank(S, j) = k - 1
    BY <1>1
  <2> HIDE DEF j
  <2>2. j < i
    <3>1. j # i /\ ~(i < j)
      BY <1>4, <1>5, <2>1, RankFacts
    <3>2. QED
      BY <1>4, <2>1, <3>1
  <2>3. Rank(S \ {i}, j) = k - 1
    BY <2>1, <2>2, RankWithout
  <2>4. InOrder(S \ {i})[(k - 1) + 1] = j
    BY <1>3, <2>1, <2>2, <2>3
  <2>5. QED
    BY <1>5, <2>4 DEF j
<1>6. CASE ~(k <= Rank(S, i))
  <2> DEFINE j == InOrder(S)[k + 1]
  <2>1. j \in S /\ Rank(S, j) = k
    BY <1>1
  <2> HIDE DEF j
  <2>2. j # i /\ ~(j < i)
    BY <1>4, <1>6, <2>1, RankFacts
  <2>3. Rank(S \ {i}, j) = k - 1
    BY <2>1, <2>2, RankWithout
  <2>4. InOrder(S \ {i})[(k - 1) + 1] = j
    BY <1>3, <2>1, <2>2, <2>3
  <2>5. QED
    BY <1>6, <2>4 DEF j
<1>7. QED
  BY <1>5, <1>6

LEMMA RemoveRowFacts ==
  ASSUME NEW T, NEW s \in Seq(T), NEW i \in Nat \ {0}
  PROVE  /\ RemoveRow(s, i) \in Seq(T)
         /\ i <= Len(s) =>
               /\ Len(RemoveRow(s, i)) = Len(s) - 1
               /\ \A k \in 1..(Len(s) - 1) : RemoveRow(s, i)[k] = IF k < i THEN s[k] ELSE s[k + 1]
<1>1. CASE i > Len(s)
  BY <1>1 DEF RemoveRow
<1>2. CASE i <= Len(s)
  <2> DEFINE front == SubSeq(s, 1, i - 1)
             back  == SubSeq(s, i + 1, Len(s))
  <2>1. /\ front \in Seq(T) /\ Len(front) = i - 1
        /\ \A k \in 1..(i - 1) : front[k] = s[k]
    BY <1>2
  <2>2. /\ back \in Seq(T) /\ Len(back) = Len(s) - i
        /\ \A k \in 1..(Len(s) - i) : back[k] = s[k + i]
    BY <1>2
  <2>3. RemoveRow(s, i) = front \o back
    BY <1>2 DEF RemoveRow, RemoveAt
  <2> HIDE DEF front, back
  <2>4. /\ front \o back \in Seq(T) /\ Len(front \o back) = Len(front) + Len(back)
        /\ \A k \in 1..(Len(front) + Len(back)) :
              (front \o back)[k] = IF k <= Len(front) THEN front[k] ELSE back[k - Len(front)]
    BY <2>1, <2>2, ConcatProperties
  <2>5. ASSUME NEW k \in 1..(Len(s) - 1)
        PROVE  (front \o back)[k] = IF k < i THEN s[k] ELSE s[k + 1]
    <3>1. CASE k < i
      BY <1>2, <2>1, <2>2, <2>4, <3>1
    <3>2. CASE ~(k < i)
      <4>1. k - (i - 1) \in 1..(Len(s) - i) /\ k - (i - 1) + i = k + 1
        BY <1>2, <3>2
      <4>2. back[k - (i - 1)] = s[k + 1]
        BY <2>2, <4>1
      <4>3. QED
        BY <1>2, <2>1, <2>2, <2>4, <3>2, <4>2
    <3>3. QED
      BY <3>1, <3>2
  <2>6. QED
    BY <1>2, <2>1, <2>2, <2>3, <2>4, <2>5
<1>3. QED
  BY <1>1, <1>2

\* The lists between one removal and the next.
LEMMA RemovalSteps ==
  ASSUME NEW T, NEW s \in Seq(T), NEW order \in Seq(Nat \ {0})
  PROVE  \E left \in [0..Len(order) -> Seq(T)] :
            /\ left[0] = s
            /\ \A n \in 1..Len(order) : left[n] = RemoveRow(left[n - 1], order[n])
            /\ RemoveInTurn(s, order) = left[Len(order)]
<1> DEFINE N == Len(order)
           Trail(g, n) == /\ g \in [0..n -> Seq(T)] /\ g[0] = s
                          /\ \A m \in 1..n : g[m] = RemoveRow(g[m - 1], order[m])
           Comes(n) == \E g : Trail(g, n)
           short == {n \in 0..N : ~Comes(n)}
<1>1. N \in Nat /\ \A m \in 1..N : order[m] \in Nat \ {0}
  OBVIOUS
<1>2. Comes(N)
  <2> HIDE DEF Comes
  <2>1. SUFFICES ASSUME short # {}
                 PROVE  FALSE
    BY <1>1
  <2>2. PICK n \in short : \A m \in short : n <= m
    <3>1. short \in SUBSET Nat
      BY <1>1
    <3>2. QED
      BY <2>1, <3>1, LeastNat
  <2>3. CASE n = 0
    <3>1. Trail([m \in 0..0 |-> s], 0)
      OBVIOUS
    <3>2. Comes(0)
      BY <3>1 DEF Comes
    <3>3. QED
      BY <2>2, <2>3, <3>2
  <2>4. CASE n # 0
    <3>1. n - 1 \in 0..N /\ n - 1 \notin short /\ n \in 1..N
      BY <1>1, <2>2, <2>4
    <3>2. PICK g : Trail(g, n - 1)
      BY <3>1 DEF Comes
    <3> DEFINE h == [m \in 0..n |-> IF m = n THEN RemoveRow(g[n - 1], order[n]) ELSE g[m]]
    <3>3. g[n - 1] \in Seq(T) /\ order[n] \in Nat \ {0}
      BY <1>1, <3>1, <3>2
    <3>4. RemoveRow(g[n - 1], order[n]) \in Seq(T)
      BY <3>3, RemoveRowFacts
    <3>5. h \in [0..n -> Seq(T)] /\ h[0] = s
      BY <3>1, <3>2, <3>4
    <3>6. \A m \in 1..n : h[m] = RemoveRow(h[m - 1], order[m])
      <4>1. ASSUME NEW m \in 1..n
            PROVE  h[m] = RemoveRow(h[m - 1], order[m])
        <5>1. h[m - 1] = g[m - 1]
          BY <3>1
        <5>2. CASE m = n
          BY <3>1, <5>1, <5>2
        <5>3. CASE m # n
          <6>1. m \in 1..(n - 1)
            BY <3>1, <5>3
          <6>2. h[m] = g[m]
            BY <3>1, <5>3
          <6>3. QED
            BY <3>2, <5>1, <6>1, <6>2
        <5>4. QED
          BY <5>2, <5>3
      <4>2. QED
        BY <4>1
    <3>7. Trail(h, n)
      BY <3>5, <3>6
    <3>8. Comes(n)
      BY <3>7 DEF Comes
    <3>9. QED
      BY <2>2, <3>8
  <2>5. QED
    BY <2>3, <2>4
<1>3. PICK g : Trail(g, N)
  BY <1>2
<1> DEFINE f == CHOOSE l : l = [n \in 0..N |-> IF n = 0 THEN s ELSE RemoveRow(l[n - 1], order[n])]
<1>4. f = [n \in 0..N |-> IF n = 0 THEN s ELSE RemoveRow(f[n - 1], order[n])]
  <2>1. g = [n \in 0..N |-> IF n = 0 THEN s ELSE RemoveRow(g[n - 1], order[n])]
    BY <1>1, <1>3
  <2>2. QED
    BY <2>1
<1>5. RemoveInTurn(s, order) = f[N]
  BY Zenon DEF RemoveInTurn
<1> HIDE DEF f
<1>6. f[N] = g[N]
  <2> DEFINE differ == {n \in 0..N : f[n] # g[n]}
  <2>1. SUFFICES ASSUME differ # {}
                 PROVE  FALSE
    BY <1>1
  <2>2. PICK n \in differ : \A m \in differ : n <= m
    <3>1. differ \in SUBSET Nat
      BY <1>1
    <3>2. QED
      BY <2>1, <3>1, LeastNat
  <2>3. f[0] = s /\ g[0] = s
    BY <1>1, <1>3, <1>4
  <2>4. n \in 1..N /\ n - 1 \in 0..N /\ n - 1 \notin differ
    BY <1>1, <2>2, <2>3
  <2>5. f[n - 1] = g[n - 1]
    BY <2>4
  <2>6. f[n] = RemoveRow(f[n - 1], order[n])
    <3>1. n \in 0..N /\ n # 0
      BY <1>1, <2>4
    <3>2. f[n] = IF n = 0 THEN s ELSE RemoveRow(f[n - 1], order[n])
      BY Zenon, <1>4, <3>1
    <3>3. QED
      BY <3>1, <3>2
  <2>7. g[n] = RemoveRow(g[n - 1], order[n])
    BY <1>3, <2>4
  <2>8. QED
    BY <2>2, <2>5, <2>6, <2>7
<1>7. QED
  BY <1>3, <1>5, <1>6

\* A removal takes out the row it names, if all the rows before that one are
\* still there.
LEMMA RemovalHits ==
  ASSUME NEW T, NEW s \in Seq(T), NEW S \in SUBSET DOMAIN s, NEW i \in S,
         Rank(S, i) = i - 1
  PROVE  RemoveRow(At(s, S), i) = At(s, S \ {i})
<1> DEFINE t == At(s, S)
           u == At(s, S \ {i})
           n == Cardinality(S)
<1>1. S \in SUBSET Nat /\ IsFiniteSet(S) /\ n \in Nat
  BY IndexSets
<1>2. i \in Nat \ {0} /\ i <= n
  <2>1. Rank(S, i) \in 0..(n - 1)
    BY <1>1, RankFacts
  <2>2. QED
    BY <1>1, <2>1
<1>3. Cardinality(S \ {i}) = n - 1
  BY <1>1, FS_RemoveElement
<1>4. t \in Seq(T) /\ Len(t) = n /\ \A k \in 1..n : t[k] = s[InOrder(S)[k]]
  BY AtFacts
<1>5. u \in Seq(T) /\ Len(u) = n - 1 /\ \A k \in 1..(n - 1) : u[k] = s[InOrder(S \ {i})[k]]
  <2> DEFINE R == S \ {i}
  <2>1. R \in SUBSET DOMAIN s
    OBVIOUS
  <2> HIDE DEF R
  <2>2. /\ At(s, R) \in Seq(T) /\ Len(At(s, R)) = Cardinality(R)
        /\ \A k \in 1..Cardinality(R) : At(s, R)[k] = s[InOrder(R)[k]]
    BY <2>1, AtFacts
  <2>3. QED
    BY <1>3, <2>2 DEF R
<1> HIDE DEF t, u
<1>6. /\ RemoveRow(t, i) \in Seq(T) /\ Len(RemoveRow(t, i)) = n - 1
      /\ \A k \in 1..(n - 1) : RemoveRow(t, i)[k] = IF k < i THEN t[k] ELSE t[k + 1]
  <2>1. /\ RemoveRow(t, i) \in Seq(T) /\ Len(RemoveRow(t, i)) = Len(t) - 1
        /\ \A k \in 1..(Len(t) - 1) : RemoveRow(t, i)[k] = IF k < i THEN t[k] ELSE t[k + 1]
    <3>1. t \in Seq(T) /\ i \in Nat \ {0} /\ i <= Len(t)
      BY <1>2, <1>4
    <3>2. QED
      BY <3>1, RemoveRowFacts
  <2>2. Len(t) = n
    BY <1>4
  <2>3. QED
    BY <2>1, <2>2
<1>7. ASSUME NEW k \in 1..(n - 1)
      PROVE  RemoveRow(t, i)[k] = u[k]
  <2>1. InOrder(S \ {i})[k] = IF k <= i - 1 THEN InOrder(S)[k] ELSE InOrder(S)[k + 1]
    BY <1>1, InOrderWithout
  <2>2. CASE k < i
    <3>1. k <= i - 1 /\ k \in 1..n
      BY <1>1, <1>2, <2>2
    <3>2. RemoveRow(t, i)[k] = t[k]
      BY <1>6, <2>2
    <3>3. u[k] = s[InOrder(S)[k]]
      BY <1>5, <2>1, <3>1
    <3>4. QED
      BY <1>4, <3>1, <3>2, <3>3
  <2>3. CASE ~(k < i)
    <3>1. ~(k <= i - 1) /\ k + 1 \in 1..n
      BY <1>1, <1>2, <2>3
    <3>2. RemoveRow(t, i)[k] = t[k + 1]
      BY <1>6, <2>3
    <3>3. u[k] = s[InOrder(S)[k + 1]]
      BY <1>5, <2>1, <3>1
    <3>4. QED
      BY <1>4, <3>1, <3>2, <3>3
  <2>4. QED
    BY <2>2, <2>3
<1>8. RemoveRow(t, i) = u
  BY <1>1, <1>5, <1>6, <1>7, SeqEqual
<1>9. QED
  BY <1>8 DEF t, u

LEMMA RemovalOrderFacts ==
  ASSUME NEW S \in SUBSET Nat, IsFiniteSet(S), 0 \notin S
  PROVE  /\ RemovalOrder(S) \in Seq(Nat \ {0})
         /\ Len(RemovalOrder(S)) = Cardinality(S)
         /\ \A k \in 1..Cardinality(S) :
               /\ RemovalOrder(S)[k] \in S
               /\ Rank(S, RemovalOrder(S)[k]) = Cardinality(S) - k
<1> DEFINE n == Cardinality(S)
<1>1. n \in Nat /\ \A k \in 1..n : InOrder(S)[k] \in S /\ Rank(S, InOrder(S)[k]) = k - 1
  BY InOrderFacts
<1>2. InOrder(S) \in Seq(Nat \ {0}) /\ Len(InOrder(S)) = n
  <2>1. InOrder(S) = [k \in 1..n |-> InOrder(S)[k]]
    BY DEF InOrder
  <2>2. \A k \in 1..n : InOrder(S)[k] \in Nat \ {0}
    BY <1>1
  <2>3. QED
    BY <1>1, <2>1, <2>2
<1>3. RemovalOrder(S) = [k \in 1..n |-> InOrder(S)[(n - k) + 1]]
  BY <1>2 DEF RemovalOrder, Reverse
<1>4. \A k \in 1..n : (n - k) + 1 \in 1..n
  BY <1>1
<1>5. \A k \in 1..n : RemovalOrder(S)[k] \in S /\ Rank(S, RemovalOrder(S)[k]) = n - k
  BY <1>1, <1>3, <1>4
<1>6. RemovalOrder(S) \in Seq(Nat \ {0}) /\ Len(RemovalOrder(S)) = n
  <2>1. \A k \in 1..n : RemovalOrder(S)[k] \in Nat \ {0}
    BY <1>5
  <2>2. QED
    BY <1>1, <1>3, <2>1
<1>7. QED
  BY <1>5, <1>6

\* "Removal is by index, highest first": the rows that were named go, and the
\* others stay, in their order.
LEMMA RemovesNamed ==
  ASSUME NEW T, NEW s \in Seq(T), NEW S \in SUBSET DOMAIN s
  PROVE  RemoveInTurn(s, RemovalOrder(S)) = At(s, DOMAIN s \ S)
<1> DEFINE n == Cardinality(S)
           order == RemovalOrder(S)
           gone(k) == {i \in S : Rank(S, i) >= n - k}
<1>1. S \in SUBSET Nat /\ IsFiniteSet(S) /\ n \in Nat /\ 0 \notin S
  BY IndexSets
<1>2. order \in Seq(Nat \ {0}) /\ Len(order) = n
  BY <1>1, RemovalOrderFacts
<1>3. \A k \in 1..n : order[k] \in S /\ Rank(S, order[k]) = n - k
  BY <1>1, RemovalOrderFacts
<1> HIDE DEF order
<1>4. PICK left \in [0..n -> Seq(T)] :
         /\ left[0] = s
         /\ \A k \in 1..n : left[k] = RemoveRow(left[k - 1], order[k])
         /\ RemoveInTurn(s, order) = left[n]
  <2>1. \E l \in [0..Len(order) -> Seq(T)] :
           /\ l[0] = s
           /\ \A k \in 1..Len(order) : l[k] = RemoveRow(l[k - 1], order[k])
           /\ RemoveInTurn(s, order) = l[Len(order)]
    <3>1. order \in Seq(Nat \ {0})
      BY <1>2
    <3>2. QED
      BY <3>1, RemovalSteps
  <2>2. QED
    BY <1>2, <2>1, Zenon
<1>5. \A i \in S : Rank(S, i) \in 0..(n - 1)
  BY <1>1, RankFacts
<1>6. left[0] = At(s, DOMAIN s \ gone(0))
  <2>1. gone(0) = {}
    BY <1>1, <1>5
  <2>2. DOMAIN s = 1..Len(s) /\ Len(s) \in Nat
    OBVIOUS
  <2>3. At(s, DOMAIN s) \in Seq(T) /\ Len(At(s, DOMAIN s)) = Len(s)
    BY <2>2, AtFacts, IntervalFacts
  <2>4. \A k \in 1..Len(s) : At(s, DOMAIN s)[k] = s[k]
    BY <2>2, AtFacts, IntervalFacts
  <2>5. At(s, DOMAIN s) = s
    BY <2>3, <2>4, SeqEqual
  <2>6. DOMAIN s \ gone(0) = DOMAIN s
    BY <2>1
  <2>7. QED
    BY <1>4, <2>5, <2>6
<1>7. ASSUME NEW k \in 1..n, left[k - 1] = At(s, DOMAIN s \ gone(k - 1))
      PROVE  left[k] = At(s, DOMAIN s \ gone(k))
  <2> DEFINE i == order[k]
             rest == DOMAIN s \ gone(k - 1)
  <2>1. i \in S /\ Rank(S, i) = n - k /\ i \in Nat \ {0}
    BY <1>1, <1>3
  <2> HIDE DEF i
  <2>2. i \in rest
    BY <1>1, <2>1
  <2>3. rest \in SUBSET DOMAIN s /\ rest \in SUBSET Nat
    OBVIOUS
  <2>4. {j \in rest : j < i} = 1..(i - 1)
    <3>1. ASSUME NEW j \in 1..(i - 1)
          PROVE  j \in rest /\ j < i
      <4>1. j \in DOMAIN s /\ j < i
        BY <2>1
      <4>2. j \in S => Rank(S, j) < Rank(S, i)
        BY <1>1, <2>1, <4>1, RankFacts
      <4>3. j \notin gone(k - 1)
        BY <1>1, <1>5, <2>1, <4>2
      <4>4. QED
        BY <4>1, <4>3
    <3>2. ASSUME NEW j \in rest, j < i
          PROVE  j \in 1..(i - 1)
      BY <2>1, <3>2
    <3>3. QED
      BY <3>1, <3>2
  <2>5. Rank(rest, i) = i - 1
    <3>1. i - 1 \in Nat
      BY <2>1
    <3>2. Cardinality(1..(i - 1)) = i - 1
      BY <3>1, SizeOfInterval
    <3>3. Rank(rest, i) = Cardinality({j \in rest : j < i})
      BY Zenon DEF Rank
    <3>4. QED
      BY <2>4, <3>2, <3>3, Zenon
  <2>6. RemoveRow(At(s, rest), i) = At(s, rest \ {i})
    BY <2>2, <2>3, <2>5, RemovalHits
  <2>7. rest \ {i} = DOMAIN s \ gone(k)
    <3>1. ASSUME NEW j \in S, Rank(S, j) = n - k
          PROVE  j = i
      <4>1. ~(j < i) /\ ~(i < j)
        BY <1>1, <2>1, <3>1, RankFacts
      <4>2. QED
        BY <1>1, <2>1, <4>1
    <3>2. gone(k) = gone(k - 1) \cup {i}
      <4>1. ASSUME NEW j \in S
            PROVE  Rank(S, j) >= n - k <=> (Rank(S, j) >= n - (k - 1) \/ Rank(S, j) = n - k)
        <5>1. Rank(S, j) \in Int /\ n \in Int /\ k \in Int
          BY <1>1, <1>5
        <5>2. \A r, a, b \in Int : r >= a - b <=> (r >= a - (b - 1) \/ r = a - b)
          OBVIOUS
        <5>3. QED
          BY <5>1, <5>2, Zenon
      <4>2. QED
        BY <2>1, <3>1, <4>1
    <3>3. QED
      BY <3>2
  <2>8. left[k] = RemoveRow(left[k - 1], i)
    BY <1>4 DEF i
  <2>9. QED
    BY <1>7, <2>6, <2>7, <2>8
<1>8. left[n] = At(s, DOMAIN s \ gone(n))
  <2> DEFINE right(k) == left[k] = At(s, DOMAIN s \ gone(k))
             wrong == {k \in 0..n : ~right(k)}
  <2>1. right(0) /\ \A k \in 1..n : right(k - 1) => right(k)
    BY <1>6, <1>7
  <2> HIDE DEF right
  <2>2. SUFFICES ASSUME ~right(n)
                 PROVE  FALSE
    BY DEF right
  <2>3. PICK k \in wrong : \A m \in wrong : k <= m
    <3>1. wrong \in SUBSET Nat /\ n \in wrong
      BY <1>1, <2>2
    <3>2. QED
      BY <2>2, <3>1, LeastNat
  <2>4. k \in 1..n /\ k - 1 \in 0..n /\ k - 1 \notin wrong
    BY <1>1, <2>1, <2>3
  <2>5. QED
    BY <2>1, <2>3, <2>4
<1>9. gone(n) = S
  BY <1>1, <1>5
<1>10. QED
  BY <1>4, <1>8, <1>9 DEF order

-----------------------------------------------------------------------------
(* The invariant *)

\* What the rows of a screen are.
RowsOf(kind) ==
    CASE kind = "Home"           -> Seq(Seq(Songs))
      [] kind = "PlaylistPicker" -> Seq(Playlists)
      [] kind = "Info"           -> Seq(Artists)
      [] OTHER                   -> Seq(NamesOf(kind))

Screens ==
    [kind : Kinds, rows : UNION {RowsOf(kind) : kind \in Kinds},
     section : Nat, selected : Nat,
     filter : {NoFilter} \cup UNION {SUBSET NamesOf(kind) : kind \in Kinds},
     marked : SUBSET Songs, playlist : Playlists \cup {NoPlaylist},
     editing : BOOLEAN, typed : BOOLEAN, sort : {"none", "az", "newest"}, ids : Seq(Songs)]

\* A screen by itself.
Sound(screen) ==
    /\ screen \in Screens
    /\ screen.rows \in RowsOf(screen.kind)
    /\ screen.filter = NoFilter \/ screen.filter \subseteq NamesOf(screen.kind)
    /\ screen.kind = "Home" => /\ DOMAIN screen.rows = DOMAIN NativeLists
                               /\ screen.section \in DOMAIN NativeLists
    /\ CursorOnRow(screen) /\ MarksOnRows(screen)

\* A screen as the k-th of n: only the root of the Albums tab is sorted, only
\* the top has a query being typed, and nothing is marked meanwhile; a
\* playlist's songs are opened from the list of playlists, which is a root.
Placed(screen, k, n) ==
    /\ IF k = 1 THEN screen.kind \in Roots
       ELSE screen.kind \in {"AlbumList", "SongList", "PlaylistPicker", "Info"} /\ screen.sort = "none"
    /\ screen.editing => k = n /\ screen.kind = "Search" /\ screen.marked = {}
    /\ screen.playlist # NoPlaylist => k = 2 /\ screen.kind = "SongList"

\* A screen and the playlists of the service.
Shows(screen, playlists) ==
    /\ screen.playlist # NoPlaylist =>
          /\ screen.playlist \in DOMAIN playlists
          /\ IsPrefix(screen.rows, playlists[screen.playlist])
    /\ screen.kind \in {"PlaylistList", "PlaylistPicker"} => ToSet(screen.rows) \subseteq DOMAIN playlists

StackInv ==
    /\ stack \in Seq(Screens) /\ stack # <<>>
    /\ \A k \in DOMAIN stack :
          Sound(stack[k]) /\ Placed(stack[k], k, Len(stack)) /\ Shows(stack[k], contents)

PlaylistsOK(playlists) ==
    /\ DOMAIN playlists \subseteq Playlists
    /\ playlists \in [DOMAIN playlists -> Seq(Songs)]

\* Who gets a key.
ModeInv ==
    /\ filter_editing \in BOOLEAN /\ show_help \in BOOLEAN
    /\ prompt \in [action : {"none", "new", "rename", "save"},
                   id : Playlists \cup {NoPlaylist}, named : BOOLEAN]
    /\ show_help => prompt = NoPrompt
    /\ filter_editing \/ SearchEditing => ~show_help /\ prompt = NoPrompt
    /\ filter_editing => Top.kind \in Filterable
    /\ prompt.action \in {"new", "rename"} => Top.kind = "PlaylistList"
    /\ prompt.action = "rename" => prompt.id \in ToSet(Top.rows)
    /\ prompt.action = "save" => Top.kind = "Queue"

TuiInv == StackInv /\ PlaylistsOK(contents) /\ ModeInv /\ failed \in Nat

-----------------------------------------------------------------------------
(* Four ways for the stack to change *)

LEMMA TopFacts ==
  ASSUME StackInv
  PROVE  /\ Len(stack) \in Nat \ {0} /\ DOMAIN stack = 1..Len(stack)
         /\ Top \in Screens /\ Sound(Top)
         /\ Placed(Top, Len(stack), Len(stack)) /\ Shows(Top, contents)
<1>1. Len(stack) \in Nat \ {0} /\ DOMAIN stack = 1..Len(stack)
  BY DEF StackInv
<1>2. Len(stack) \in DOMAIN stack
  BY <1>1
<1>3. Sound(Top) /\ Placed(Top, Len(stack), Len(stack)) /\ Shows(Top, contents)
  BY <1>2 DEF StackInv, Top
<1>4. QED
  BY <1>1, <1>3 DEF Sound

\* What an edit of the screen on top leaves as it is.
SameScreen(screen) ==
    /\ screen.kind = Top.kind /\ screen.playlist = Top.playlist
    /\ Top.sort = "none" => screen.sort = "none"
    /\ screen.editing => Top.editing /\ screen.marked = Top.marked

LEMMA EditTop ==
  ASSUME StackInv, NEW screen, Sound(screen), SameScreen(screen), SetTop(screen),
         Shows(screen, contents'),
         \A k \in DOMAIN stack : k # Len(stack) => Shows(stack[k], contents')
  PROVE  /\ StackInv'
         /\ Len(stack') = Len(stack) /\ Top' = screen
<1>1. /\ Len(stack) \in Nat \ {0} /\ DOMAIN stack = 1..Len(stack)
      /\ Placed(Top, Len(stack), Len(stack))
  BY TopFacts
<1>2. stack' = [stack EXCEPT ![Len(stack)] = screen] /\ screen \in Screens /\ stack \in Seq(Screens)
  BY DEF SetTop, Sound, StackInv
<1>3. /\ stack' \in Seq(Screens) /\ Len(stack') = Len(stack)
      /\ \A k \in 1..Len(stack) : stack'[k] = IF k = Len(stack) THEN screen ELSE stack[k]
  <2>1. Len(stack) \in 1..Len(stack)
    BY <1>1
  <2>2. QED
    BY <1>2, <2>1, ExceptSeq
<1>4. Placed(screen, Len(stack), Len(stack))
  BY <1>1 DEF SameScreen, Placed
<1>5. stack' # <<>> /\ DOMAIN stack' = 1..Len(stack)
  <2>1. DOMAIN stack' = 1..Len(stack') /\ Len(<<>>) = 0
    BY <1>3, LenProperties, EmptySeq
  <2>2. Len(stack') # 0
    BY <1>1, <1>3
  <2>3. QED
    BY <1>3, <2>1, <2>2
<1>6. ASSUME NEW k \in 1..Len(stack)
      PROVE  Sound(stack'[k]) /\ Placed(stack'[k], k, Len(stack')) /\ Shows(stack'[k], contents')
  <2>1. CASE k = Len(stack)
    BY <1>3, <1>4, <2>1
  <2>2. CASE k # Len(stack)
    <3>1. stack'[k] = stack[k]
      BY <1>3, <2>2
    <3>2. Sound(stack[k]) /\ Placed(stack[k], k, Len(stack)) /\ Shows(stack[k], contents')
      BY <1>1, <2>2 DEF StackInv
    <3>3. QED
      BY <1>3, <3>1, <3>2
  <2>3. QED
    BY <2>1, <2>2
<1>7. Top' = screen
  <2>1. Len(stack) \in 1..Len(stack)
    BY <1>1
  <2>2. stack'[Len(stack)] = screen
    BY <1>3, <2>1
  <2>3. QED
    BY <1>3, <2>2 DEF Top
<1>8. QED
  BY <1>3, <1>5, <1>6, <1>7 DEF StackInv

LEMMA PushTop ==
  ASSUME StackInv, NEW screen, Sound(screen), Push(screen), UNCHANGED contents,
         Placed(screen, Len(stack) + 1, Len(stack) + 1), Shows(screen, contents),
         ~Top.editing
  PROVE  StackInv' /\ Len(stack') = Len(stack) + 1 /\ Top' = screen
<1>1. Len(stack) \in Nat \ {0} /\ DOMAIN stack = 1..Len(stack)
  BY TopFacts
<1>2. stack' = Append(stack, screen) /\ screen \in Screens /\ stack \in Seq(Screens)
  BY DEF Push, Sound, StackInv
<1>3. /\ stack' \in Seq(Screens) /\ stack' # <<>> /\ Len(stack') = Len(stack) + 1
      /\ \A k \in 1..Len(stack) : stack'[k] = stack[k]
      /\ stack'[Len(stack) + 1] = screen
  BY <1>2, AppendProperties
<1>4. DOMAIN stack' = 1..(Len(stack) + 1)
  BY <1>1, <1>3
<1>5. ASSUME NEW k \in 1..(Len(stack) + 1)
      PROVE  Sound(stack'[k]) /\ Placed(stack'[k], k, Len(stack')) /\ Shows(stack'[k], contents')
  <2>1. CASE k = Len(stack) + 1
    BY <1>3, <2>1
  <2>2. CASE k # Len(stack) + 1
    <3>1. k \in 1..Len(stack) /\ stack'[k] = stack[k]
      BY <1>1, <1>3, <2>2
    <3>2. Sound(stack[k]) /\ Placed(stack[k], k, Len(stack)) /\ Shows(stack[k], contents')
      BY <1>1, <3>1 DEF StackInv
    <3>3. ~stack[k].editing
      BY <3>2 DEF Placed, Top
    <3>4. Placed(stack[k], k, Len(stack'))
      BY <3>2, <3>3 DEF Placed
    <3>5. QED
      BY <3>1, <3>2, <3>4
  <2>3. QED
    BY <2>1, <2>2
<1>6. Top' = screen
  BY <1>3 DEF Top
<1>7. QED
  BY <1>3, <1>4, <1>5, <1>6 DEF StackInv

LEMMA PopTop ==
  ASSUME StackInv, Len(stack) > 1
  PROVE  /\ Front(stack) \in Seq(Screens) /\ Len(Front(stack)) = Len(stack) - 1
         /\ \A k \in 1..(Len(stack) - 1) :
               /\ Front(stack)[k] = stack[k] /\ Sound(stack[k])
               /\ Placed(stack[k], k, Len(stack) - 1) /\ Shows(stack[k], contents)
               /\ ~stack[k].editing
<1>1. Len(stack) \in Nat \ {0} /\ DOMAIN stack = 1..Len(stack) /\ stack \in Seq(Screens)
  BY TopFacts DEF StackInv
<1>2. /\ Front(stack) \in Seq(Screens) /\ Len(Front(stack)) = Len(stack) - 1
      /\ \A k \in 1..(Len(stack) - 1) : Front(stack)[k] = stack[k]
  BY <1>1 DEF Front
<1>3. ASSUME NEW k \in 1..(Len(stack) - 1)
      PROVE  /\ Sound(stack[k]) /\ Placed(stack[k], k, Len(stack) - 1) /\ Shows(stack[k], contents)
             /\ ~stack[k].editing
  <2>1. k \in DOMAIN stack /\ k # Len(stack)
    <3>1. \A n \in Nat \ {0} : \A m \in 1..(n - 1) : m \in 1..n /\ m # n
      OBVIOUS
    <3>2. QED
      BY <1>1, <3>1, Zenon
  <2>2. Sound(stack[k]) /\ Placed(stack[k], k, Len(stack)) /\ Shows(stack[k], contents)
    BY <2>1 DEF StackInv
  <2>3. QED
    BY <2>1, <2>2 DEF Placed
<1>4. QED
  BY <1>2, <1>3

LEMMA NewRoot ==
  ASSUME NEW root, stack' = <<root>>, Sound(root), Placed(root, 1, 1), Shows(root, contents')
  PROVE  StackInv' /\ Len(stack') = 1 /\ Top' = root
<1>1. root \in Screens
  BY DEF Sound
<1>2. stack' \in Seq(Screens) /\ stack' # <<>> /\ Len(stack') = 1 /\ DOMAIN stack' = {1} /\ stack'[1] = root
  BY <1>1
<1>3. QED
  BY <1>2 DEF StackInv, Top

-----------------------------------------------------------------------------
(* Steps whose key is not taken by an overlay *)

LEMMA NoOverlay ==
  ASSUME prompt' = NoPrompt, show_help' = FALSE, filter_editing' \in BOOLEAN,
         filter_editing' => Top'.kind \in Filterable
  PROVE  ModeInv'
BY DEF ModeInv, NoPrompt

LEMMA ReachedFacts ==
  ASSUME TuiInv, Reached
  PROVE  /\ ~show_help /\ show_help = FALSE /\ prompt = NoPrompt /\ ~SearchEditing
         /\ ~Top.editing
         /\ filter_editing \in BOOLEAN
         /\ filter_editing => Top.kind \in Filterable
         /\ KeyTable => filter_editing = FALSE
         /\ EnterKey => filter_editing' = FALSE
<1>1. filter_editing \in BOOLEAN /\ show_help \in BOOLEAN /\ (filter_editing => Top.kind \in Filterable)
  BY DEF TuiInv, ModeInv
<1>2. ~show_help /\ prompt = NoPrompt /\ ~SearchEditing
  BY DEF Reached
<1>3. Top.editing => Top.kind = "Search"
  BY TopFacts DEF TuiInv, Placed
<1>4. KeyTable => filter_editing = FALSE
  BY <1>1 DEF KeyTable, FilterTakesKeys
<1>5. EnterKey => filter_editing' = FALSE
  BY <1>1 DEF EnterKey, FilterTakesKeys
<1>6. QED
  BY <1>1, <1>2, <1>3, <1>4, <1>5 DEF SearchEditing

LEMMA EditStep ==
  ASSUME TuiInv, NEW screen, Sound(screen), SameScreen(screen), SetTop(screen),
         \/ screen.rows = Top.rows
         \/ screen.kind \in {"AlbumList", "Search", "Queue"},
         ~show_help, prompt = NoPrompt, UNCHANGED <<show_help, prompt, contents>>,
         filter_editing' = filter_editing \/ filter_editing' = FALSE,
         failed' \in Nat
  PROVE  TuiInv'
<1>1. StackInv /\ PlaylistsOK(contents) /\ ModeInv
  BY DEF TuiInv
<1>2. Placed(Top, Len(stack), Len(stack)) /\ Shows(Top, contents)
  BY <1>1, TopFacts
<1>3. Shows(screen, contents)
  <2>1. screen.kind = Top.kind /\ screen.playlist = Top.playlist
    BY DEF SameScreen
  <2>2. CASE screen.rows = Top.rows
    BY <1>2, <2>1, <2>2 DEF Shows
  <2>3. CASE screen.kind \in {"AlbumList", "Search", "Queue"}
    BY <1>2, <2>1, <2>3 DEF Shows, Placed
  <2>4. QED
    BY <2>2, <2>3
<1>4. \A k \in DOMAIN stack : Shows(stack[k], contents)
  BY <1>1 DEF StackInv
<1>5. StackInv' /\ Top' = screen
  BY <1>1, <1>3, <1>4, EditTop
<1>6. ModeInv'
  <2>1. filter_editing \in BOOLEAN /\ show_help \in BOOLEAN /\ (filter_editing => Top.kind \in Filterable)
    BY <1>1 DEF ModeInv
  <2>2. Top'.kind = Top.kind
    BY <1>5 DEF SameScreen
  <2>3. prompt' = NoPrompt /\ show_help' = FALSE
    BY <2>1
  <2>4. filter_editing' \in BOOLEAN
    BY <2>1
  <2>5. filter_editing' => Top'.kind \in Filterable
    BY <2>1, <2>2
  <2>6. QED
    BY <2>3, <2>4, <2>5, NoOverlay
<1>7. PlaylistsOK(contents)'
  BY <1>1
<1>8. QED
  BY <1>5, <1>6, <1>7 DEF TuiInv

\* A screen that is opened shows nothing of a playlist, unless it is said to.
LEMMA PushStep ==
  ASSUME TuiInv, Reached, NEW screen, Sound(screen), Push(screen), ~screen.editing,
         screen.kind \in {"AlbumList", "SongList", "PlaylistPicker", "Info"}, screen.sort = "none",
         screen.playlist # NoPlaylist => Top.kind = "PlaylistList" /\ screen.kind = "SongList",
         Shows(screen, contents),
         UNCHANGED <<show_help, prompt, contents>>, filter_editing' = FALSE, failed' \in Nat
  PROVE  TuiInv'
<1>1. StackInv /\ PlaylistsOK(contents)
  BY DEF TuiInv
<1>2. Len(stack) \in Nat \ {0} /\ Placed(Top, Len(stack), Len(stack))
  BY <1>1, TopFacts
<1>3. show_help = FALSE /\ prompt = NoPrompt /\ ~Top.editing
  BY ReachedFacts
<1>4. Placed(screen, Len(stack) + 1, Len(stack) + 1)
  <2>1. Top.kind = "PlaylistList" => Len(stack) = 1
    BY <1>2 DEF Placed
  <2>2. Len(stack) + 1 # 1 /\ (Len(stack) = 1 => Len(stack) + 1 = 2)
    <3>1. \A n \in Nat \ {0} : n + 1 # 1 /\ (n = 1 => n + 1 = 2)
      OBVIOUS
    <3>2. QED
      BY <1>2, <3>1, Zenon
  <2>3. QED
    BY <2>1, <2>2, Zenon DEF Placed
<1>5. StackInv' /\ Top' = screen
  BY <1>1, <1>3, <1>4, PushTop
<1>6. ModeInv'
  BY <1>3, NoOverlay
<1>7. QED
  BY <1>1, <1>5, <1>6 DEF TuiInv

LEMMA RootStep ==
  ASSUME NEW root, stack' = <<root>>, Sound(root), Placed(root, 1, 1), Shows(root, contents'),
         PlaylistsOK(contents'), show_help' = FALSE, prompt' = NoPrompt,
         filter_editing' = FALSE, failed' \in Nat
  PROVE  TuiInv'
<1>1. StackInv' /\ Top' = root
  BY NewRoot
<1>2. ModeInv'
  BY NoOverlay
<1>3. QED
  BY <1>1, <1>2 DEF TuiInv

-----------------------------------------------------------------------------
(* Rows *)

LEMMA SongRowsFacts ==
  ASSUME NEW rows \in SongRows
  PROVE  rows \in Seq(Songs)
<1>1. PICK n \in 0..MaxRows : rows \in [1..n -> Songs]
  BY DEF SongRows, BoundedSeq, SeqOf
<1>2. n \in Nat
  BY NamesAssumption
<1>3. QED
  BY <1>1, <1>2

LEMMA ListedFacts ==
  ASSUME NEW S, IsFiniteSet(S), NEW rows \in Listed(S)
  PROVE  rows \in Seq(S)
<1>1. SetToSeq(S) \in Seq(S) /\ <<>> \in Seq(S)
  BY SetToSeqFacts
<1>2. QED
  BY <1>1 DEF Listed

LEMMA RowTypes ==
  ASSUME StackInv
  PROVE  /\ Top.kind \in {"SongList", "Search", "Queue"} => Top.rows \in Seq(Songs)
         /\ Top.kind \in {"PlaylistList", "PlaylistPicker"} => Top.rows \in Seq(Playlists)
         /\ Top.kind = "Home" => Top.rows \in Seq(Seq(Songs))
         /\ \E T : Top.rows \in Seq(T)
         /\ Top.ids \in Seq(Songs) /\ Top.marked \in SUBSET Songs /\ Top.selected \in Nat
<1>1. Top \in Screens /\ Top.rows \in RowsOf(Top.kind)
  BY TopFacts DEF Sound
<1>2. Top.ids \in Seq(Songs) /\ Top.marked \in SUBSET Songs /\ Top.selected \in Nat
  BY <1>1 DEF Screens
<1>3. \E T : Top.rows \in Seq(T)
  <2>1. CASE Top.kind = "Home"
    BY <1>1, <2>1 DEF RowsOf
  <2>2. CASE Top.kind = "PlaylistPicker"
    BY <1>1, <2>2 DEF RowsOf
  <2>3. CASE Top.kind = "Info"
    BY <1>1, <2>3 DEF RowsOf
  <2>4. CASE Top.kind \notin {"Home", "PlaylistPicker", "Info"}
    BY <1>1, <2>4 DEF RowsOf
  <2>5. QED
    BY <2>1, <2>2, <2>3, <2>4
<1>4. QED
  BY <1>1, <1>2, <1>3 DEF RowsOf, NamesOf

LEMMA MatchingFacts ==
  ASSUME NEW T, NEW screen, screen.rows \in Seq(T)
  PROVE  /\ Matching(screen) \in SUBSET DOMAIN screen.rows
         /\ Matching(screen) \in SUBSET Nat /\ IsFiniteSet(Matching(screen))
         /\ Cardinality(Matching(screen)) \in Nat
         /\ screen.filter = NoFilter =>
               /\ Matching(screen) = 1..Len(screen.rows)
               /\ Cardinality(Matching(screen)) = Len(screen.rows)
<1>1. Matching(screen) \in SUBSET DOMAIN screen.rows
  BY DEF Matching
<1>2. screen.filter = NoFilter => Matching(screen) = 1..Len(screen.rows)
  BY DEF Matching
<1>3. Len(screen.rows) \in Nat
  OBVIOUS
<1>4. QED
  BY <1>1, <1>2, <1>3, IndexSets, SizeOfInterval

LEMMA RowFacts ==
  ASSUME StackInv
  PROVE  /\ VisibleIndices \in SUBSET DOMAIN Top.rows /\ Cardinality(VisibleIndices) \in Nat
         /\ HasRow => Row \in DOMAIN Top.rows /\ Row \in VisibleIndices /\ Row \in Nat \ {0}
         /\ HasRow => Top.kind \in Filterable \cup {"Search"}
         /\ (Top.kind \in Filterable \cup {"Search"} /\ Top.filter = NoFilter) =>
               Cardinality(VisibleIndices) = Len(Top.rows)
<1>1. PICK T : Top.rows \in Seq(T)
  BY RowTypes
<1>2. Top.selected \in Nat
  BY RowTypes
<1>3. CASE Top.kind \in Filterable \cup {"Search"}
  <2>1. VisibleIndices = Matching(Top)
    BY <1>3 DEF VisibleIndices
  <2>2. /\ VisibleIndices \in SUBSET DOMAIN Top.rows
        /\ VisibleIndices \in SUBSET Nat /\ IsFiniteSet(VisibleIndices)
        /\ Cardinality(VisibleIndices) \in Nat
        /\ Top.filter = NoFilter => Cardinality(VisibleIndices) = Len(Top.rows)
    BY <1>1, <2>1, MatchingFacts
  <2>3. HasRow => Row \in VisibleIndices
    <3>1. HasRow => Top.selected + 1 \in 1..Cardinality(VisibleIndices)
      BY <1>2, <2>2 DEF HasRow
    <3>2. \A k \in 1..Cardinality(VisibleIndices) : InOrder(VisibleIndices)[k] \in VisibleIndices
      BY <2>2, InOrderFacts
    <3>3. QED
      BY <3>1, <3>2 DEF Row
  <2>4. DOMAIN Top.rows = 1..Len(Top.rows)
    BY <1>1
  <2>5. QED
    BY <1>3, <2>2, <2>3, <2>4
<1>4. CASE Top.kind \notin Filterable \cup {"Search"}
  <2>1. VisibleIndices = {} /\ Cardinality(VisibleIndices) = 0
    BY <1>4, FS_EmptySet DEF VisibleIndices
  <2>2. ~HasRow
    BY <1>2, <2>1 DEF HasRow
  <2>3. QED
    BY <1>4, <2>1, <2>2
<1>5. QED
  BY <1>3, <1>4

-----------------------------------------------------------------------------
(* Keys that change the screen on top only *)

\* A cursor put back to the first row, under any filter.
LEMMA CursorReset ==
  ASSUME StackInv, Top.kind # "Home", NEW f,
         f = NoFilter \/ f \in SUBSET NamesOf(Top.kind)
  PROVE  LET screen == [Top EXCEPT !.filter = f, !.selected = 0]
         IN  Sound(screen) /\ SameScreen(screen) /\ screen.rows = Top.rows
<1> DEFINE screen == [Top EXCEPT !.filter = f, !.selected = 0]
<1>1. Top \in Screens /\ Sound(Top)
  BY TopFacts
<1>2. f \in {NoFilter} \cup UNION {SUBSET NamesOf(kind) : kind \in Kinds}
  BY <1>1 DEF Screens
<1>3. /\ screen \in Screens /\ screen.kind = Top.kind /\ screen.rows = Top.rows
      /\ screen.filter = f /\ screen.selected = 0 /\ screen.marked = Top.marked
      /\ screen.playlist = Top.playlist /\ screen.sort = Top.sort /\ screen.editing = Top.editing
  BY <1>1, <1>2 DEF Screens
<1> HIDE DEF screen
<1>4. CursorOnRow(screen)
  <2>1. screen.rows # <<>> => 0 < Len(screen.rows)
    BY <1>3, RowTypes
  <2>2. QED
    BY <1>3, <2>1 DEF CursorOnRow
<1>5. MarksOnRows(screen)
  BY <1>1, <1>3 DEF Sound, MarksOnRows
<1>6. Sound(screen)
  BY <1>1, <1>3, <1>4, <1>5 DEF Sound
<1>7. SameScreen(screen)
  BY <1>3 DEF SameScreen
<1>8. QED
  BY <1>3, <1>6, <1>7 DEF screen

LEMMA TypeQueryStep == TuiInv /\ TypeQuery => TuiInv'
<1> SUFFICES ASSUME TuiInv, TypeQuery
             PROVE  TuiInv'
  OBVIOUS
<1>1. PICK typed \in BOOLEAN : SetTop([Top EXCEPT !.typed = typed])
  BY DEF TypeQuery
<1> DEFINE screen == [Top EXCEPT !.typed = typed]
<1>2. Top \in Screens /\ Sound(Top)
  BY TopFacts DEF TuiInv
<1>3. /\ screen \in Screens /\ screen.kind = Top.kind /\ screen.rows = Top.rows
      /\ screen.filter = Top.filter /\ screen.selected = Top.selected /\ screen.marked = Top.marked
      /\ screen.section = Top.section
      /\ screen.playlist = Top.playlist /\ screen.sort = Top.sort /\ screen.editing = Top.editing
  BY <1>2 DEF Screens
<1> HIDE DEF screen
<1>4. Sound(screen)
  BY <1>2, <1>3 DEF Sound, CursorOnRow, MarksOnRows
<1>5. SameScreen(screen)
  BY <1>3 DEF SameScreen
<1>6. SetTop(screen)
  BY <1>1 DEF screen
<1>7. /\ ~show_help /\ prompt = NoPrompt /\ UNCHANGED <<show_help, prompt, contents>>
      /\ filter_editing' = filter_editing /\ failed' \in Nat
  BY DEF TypeQuery, Quiet, modeVars
<1>8. QED
  BY <1>3, <1>4, <1>5, <1>6, <1>7, EditStep

LEMMA LeaveQueryStep == TuiInv /\ LeaveQuery => TuiInv'
<1> SUFFICES ASSUME TuiInv, LeaveQuery
             PROVE  TuiInv'
  OBVIOUS
<1> DEFINE screen == [Top EXCEPT !.editing = FALSE]
<1>1. SetTop(screen)
  BY DEF LeaveQuery
<1>2. Top \in Screens /\ Sound(Top)
  BY TopFacts DEF TuiInv
<1>3. /\ screen \in Screens /\ screen.kind = Top.kind /\ screen.rows = Top.rows
      /\ screen.filter = Top.filter /\ screen.selected = Top.selected /\ screen.marked = Top.marked
      /\ screen.section = Top.section
      /\ screen.playlist = Top.playlist /\ screen.sort = Top.sort /\ ~screen.editing
  BY <1>2 DEF Screens
<1> HIDE DEF screen
<1>4. Sound(screen)
  BY <1>2, <1>3 DEF Sound, CursorOnRow, MarksOnRows
<1>5. SameScreen(screen)
  BY <1>3 DEF SameScreen
<1>6. /\ ~show_help /\ prompt = NoPrompt /\ UNCHANGED <<show_help, prompt, contents>>
      /\ filter_editing' = filter_editing /\ failed' \in Nat
  BY DEF LeaveQuery, Quiet, modeVars
<1>7. QED
  BY <1>1, <1>3, <1>4, <1>5, <1>6, EditStep

\* The results replace the rows; nothing was marked while the query was typed.
LEMMA RunSearchStep == TuiInv /\ RunSearch => TuiInv'
<1> SUFFICES ASSUME TuiInv, RunSearch
             PROVE  TuiInv'
  OBVIOUS
<1>1. PICK results \in SongRows : SetTop([Top EXCEPT !.editing = FALSE, !.rows = results, !.selected = 0])
  BY DEF RunSearch
<1> DEFINE screen == [Top EXCEPT !.editing = FALSE, !.rows = results, !.selected = 0]
<1>2. Top \in Screens /\ Sound(Top) /\ Placed(Top, Len(stack), Len(stack))
  BY TopFacts DEF TuiInv
<1>3. Top.kind = "Search" /\ Top.editing
  BY DEF RunSearch, SearchEditing
<1>4. results \in Seq(Songs)
  BY SongRowsFacts
<1>5. results \in RowsOf("Search") /\ "Search" \in Kinds
  BY <1>4 DEF RowsOf, NamesOf, Kinds, Roots
<1>6. results \in UNION {RowsOf(kind) : kind \in Kinds}
  BY <1>5
<1>7. /\ screen \in Screens /\ screen.kind = Top.kind /\ screen.rows = results
      /\ screen.filter = Top.filter /\ screen.selected = 0 /\ screen.marked = Top.marked
      /\ screen.playlist = Top.playlist /\ screen.sort = Top.sort /\ ~screen.editing
  BY <1>2, <1>6 DEF Screens
<1> HIDE DEF screen
<1>8. Top.marked = {}
  BY <1>2, <1>3 DEF Placed
<1>9. Sound(screen)
  <2>1. CursorOnRow(screen)
    BY <1>3, <1>4, <1>7 DEF CursorOnRow
  <2>2. MarksOnRows(screen)
    BY <1>7, <1>8 DEF MarksOnRows
  <2>3. QED
    BY <1>2, <1>3, <1>5, <1>7, <2>1, <2>2 DEF Sound
<1>10. SameScreen(screen)
  BY <1>7 DEF SameScreen
<1>11. SetTop(screen)
  BY <1>1 DEF screen
<1>12. /\ ~show_help /\ prompt = NoPrompt /\ UNCHANGED <<show_help, prompt, contents>>
      /\ filter_editing' = filter_editing /\ failed' \in Nat
  BY DEF RunSearch, Quiet, modeVars
<1>13. QED
  BY <1>3, <1>7, <1>9, <1>10, <1>11, <1>12, EditStep

LEMMA FilterSteps == TuiInv /\ (FilterType \/ FilterErase \/ FilterCancel) => TuiInv'
<1> SUFFICES ASSUME TuiInv, FilterType \/ FilterErase \/ FilterCancel
             PROVE  TuiInv'
  OBVIOUS
<1>1. Reached /\ Top.kind \in Filterable
  BY DEF FilterType, FilterErase, FilterCancel, FilterTakesKeys
<1>2. PICK f : /\ f = NoFilter \/ f \in SUBSET NamesOf(Top.kind)
               /\ SetTop([Top EXCEPT !.filter = f, !.selected = 0])
  <2>1. CASE FilterType
    <3>1. Top.filter = NoFilter \/ Top.filter \subseteq NamesOf(Top.kind)
      BY TopFacts DEF TuiInv, Sound
    <3>2. QED
      BY <2>1, <3>1 DEF FilterType
  <2>2. CASE FilterErase
    BY <2>2 DEF FilterErase
  <2>3. CASE FilterCancel
    BY <2>3 DEF FilterCancel
  <2>4. QED
    BY <2>1, <2>2, <2>3
<1> DEFINE screen == [Top EXCEPT !.filter = f, !.selected = 0]
<1>3. StackInv /\ Top.kind # "Home"
  BY <1>1 DEF TuiInv, Filterable
<1>4. Sound(screen) /\ SameScreen(screen) /\ screen.rows = Top.rows
  BY <1>2, <1>3, CursorReset
<1> HIDE DEF screen
<1>5. SetTop(screen)
  BY <1>2 DEF screen
<1>6. /\ ~show_help /\ prompt = NoPrompt /\ UNCHANGED <<show_help, prompt, contents>>
      /\ filter_editing' = filter_editing \/ filter_editing' = FALSE
      /\ failed' \in Nat
  <2>1. ~show_help /\ prompt = NoPrompt
    BY <1>1, ReachedFacts
  <2>2. CASE FilterType
    BY <2>1, <2>2, Zenon DEF FilterType, Quiet, modeVars
  <2>3. CASE FilterErase
    BY <2>1, <2>3, Zenon DEF FilterErase, Quiet, modeVars
  <2>4. CASE FilterCancel
    BY <2>1, <2>4, Zenon DEF FilterCancel
  <2>5. QED
    BY <2>2, <2>3, <2>4
<1>7. QED
  BY <1>4, <1>5, <1>6, EditStep

\* What the actions of the key table and of the arrows leave alone.
LEMMA QuietFacts ==
  ASSUME TuiInv, Reached, Quiet
  PROVE  /\ ~show_help /\ prompt = NoPrompt /\ UNCHANGED <<show_help, prompt>>
         /\ filter_editing' = filter_editing /\ failed' \in Nat
BY ReachedFacts DEF Quiet, modeVars

LEMMA ClearFilterStep ==
  ASSUME TuiInv, KeyTable, Top.kind \in Filterable,
         SetTop([Top EXCEPT !.filter = NoFilter, !.selected = 0]), UNCHANGED contents, Quiet
  PROVE  TuiInv'
<1> DEFINE screen == [Top EXCEPT !.filter = NoFilter, !.selected = 0]
<1>1. StackInv /\ Top.kind # "Home" /\ Reached
  BY DEF TuiInv, Filterable, KeyTable
<1>2. Sound(screen) /\ SameScreen(screen) /\ screen.rows = Top.rows
  BY <1>1, CursorReset
<1> HIDE DEF screen
<1>3. SetTop(screen)
  BY DEF screen
<1>4. /\ ~show_help /\ prompt = NoPrompt /\ UNCHANGED <<show_help, prompt>>
      /\ filter_editing' = filter_editing /\ failed' \in Nat
  BY <1>1, QuietFacts
<1>5. QED
  BY <1>2, <1>3, <1>4, EditStep

\* The cursor goes round in the rows of its screen.
LEMMA MoveSelectionStep == ASSUME NEW delta \in {-1, 1} PROVE TuiInv /\ MoveSelection(delta) => TuiInv'
<1> SUFFICES ASSUME TuiInv, MoveSelection(delta)
             PROVE  TuiInv'
  OBVIOUS
<1>1. Top \in Screens /\ Sound(Top) /\ StackInv
  BY TopFacts DEF TuiInv
<1>2. Reached /\ UNCHANGED contents /\ Quiet
  BY DEF MoveSelection
<1>3. /\ ~show_help /\ prompt = NoPrompt /\ UNCHANGED <<show_help, prompt>>
      /\ filter_editing' = filter_editing /\ failed' \in Nat
  BY <1>2, QuietFacts
<1>4. CASE Top.kind = "Home" /\ HomeMove(delta)
  <2>1. PICK there \in HomeCells : SetTop([Top EXCEPT !.section = there[1], !.selected = there[2]])
    BY <1>4 DEF HomeMove
  <2>2. PICK k \in DOMAIN Top.rows : \E i \in DOMAIN Top.rows[k] : there = <<k, i - 1>>
    BY <2>1 DEF HomeCells
  <2>11. PICK i \in DOMAIN Top.rows[k] : there = <<k, i - 1>>
    BY <2>2
  <2> DEFINE screen == [Top EXCEPT !.section = there[1], !.selected = there[2]]
  <2>3. Top.rows \in Seq(Seq(Songs)) /\ Top.rows[k] \in Seq(Songs)
    BY <1>1, <1>4, RowTypes
  <2>4. k \in Nat /\ i \in 1..Len(Top.rows[k]) /\ there[1] = k /\ there[2] = i - 1 /\ i - 1 \in Nat
    BY <2>11, <2>3
  <2>5. /\ screen \in Screens /\ screen.kind = Top.kind /\ screen.rows = Top.rows
        /\ screen.filter = Top.filter /\ screen.selected = i - 1 /\ screen.marked = Top.marked
        /\ screen.section = k
        /\ screen.playlist = Top.playlist /\ screen.sort = Top.sort /\ screen.editing = Top.editing
    BY <1>1, <2>4 DEF Screens
  <2> HIDE DEF screen
  <2>6. CursorOnRow(screen)
    BY <1>4, <2>3, <2>4, <2>5 DEF CursorOnRow
  <2>7. Sound(screen)
    BY <1>1, <1>4, <2>2, <2>5, <2>6 DEF Sound, MarksOnRows
  <2>8. SameScreen(screen)
    BY <2>5 DEF SameScreen
  <2>9. SetTop(screen)
    BY <2>1 DEF screen
  <2>10. QED
    BY <1>2, <1>3, <2>5, <2>7, <2>8, <2>9, EditStep
<1>5. CASE /\ Top.kind # "Home" /\ CursorRange > 0
           /\ SetTop([Top EXCEPT !.selected = Wrap(Top.selected, delta, CursorRange)])
  <2> DEFINE n == CursorRange
             there == Wrap(Top.selected, delta, n)
             screen == [Top EXCEPT !.selected = there]
  <2>1. /\ n \in Nat
        /\ Top.filter = NoFilter => n = Len(Top.rows)
    <3>1. CASE Top.kind \in {"PlaylistPicker", "Info"}
      BY <1>1, <3>1, RowTypes DEF CursorRange
    <3>2. CASE Top.kind \notin {"PlaylistPicker", "Info"}
      <4>1. n = Cardinality(VisibleIndices) /\ n \in Nat
        BY <1>1, <3>2, RowFacts DEF CursorRange
      <4>2. Top.kind \in Filterable \cup {"Search"}
        <5>1. Cardinality(VisibleIndices) # 0
          BY <1>5, <4>1
        <5>2. VisibleIndices # {}
          BY <5>1, FS_EmptySet
        <5>3. QED
          BY <5>2 DEF VisibleIndices
      <4>3. QED
        BY <1>1, <4>1, <4>2, RowFacts
    <3>3. QED
      BY <3>1, <3>2
  <2>2. there \in 0..(n - 1)
    <3>1. Top.selected \in Nat
      BY <1>1, RowTypes
    <3>2. \A a \in Int : \A m \in Nat \ {0} : a % m \in 0..(m - 1)
      OBVIOUS
    <3>3. n \in Nat \ {0}
      BY <1>5, <2>1
    <3>4. Top.selected + delta \in Int
      BY <3>1
    <3>5. QED
      BY <3>2, <3>3, <3>4 DEF Wrap
  <2> HIDE DEF there, n
  <2>3. there \in Nat /\ there < n
    BY <2>1, <2>2
  <2>4. /\ screen \in Screens /\ screen.kind = Top.kind /\ screen.rows = Top.rows
        /\ screen.filter = Top.filter /\ screen.selected = there /\ screen.marked = Top.marked
        /\ screen.section = Top.section
        /\ screen.playlist = Top.playlist /\ screen.sort = Top.sort /\ screen.editing = Top.editing
    BY <1>1, <2>3 DEF Screens
  <2>5. SetTop(screen)
    BY <1>5 DEF there, n
  <2> HIDE DEF screen
  <2>6. CursorOnRow(screen)
    BY <1>5, <2>1, <2>3, <2>4 DEF CursorOnRow
  <2>7. Sound(screen)
    BY <1>1, <1>5, <2>4, <2>6 DEF Sound, MarksOnRows
  <2>8. SameScreen(screen)
    BY <2>4 DEF SameScreen
  <2>9. QED
    BY <1>2, <1>3, <2>4, <2>5, <2>7, <2>8, EditStep
<1>6. QED
  BY <1>4, <1>5 DEF MoveSelection

LEMMA BackStep == TuiInv /\ Back => TuiInv'
<1> SUFFICES ASSUME TuiInv, Back
             PROVE  TuiInv'
  OBVIOUS
<1>1. KeyTable /\ Reached /\ UNCHANGED contents /\ Quiet
  BY DEF Back, KeyTable
<1>2. CASE /\ Top.kind \in Filterable
           /\ SetTop([Top EXCEPT !.filter = NoFilter, !.selected = 0])
  BY <1>1, <1>2, ClearFilterStep
<1>3. CASE Len(stack) > 1 /\ stack' = Front(stack)
  <2>1. StackInv /\ PlaylistsOK(contents)
    BY DEF TuiInv
  <2>2. /\ stack' \in Seq(Screens) /\ Len(stack') = Len(stack) - 1
        /\ \A k \in 1..(Len(stack) - 1) :
              /\ stack'[k] = stack[k] /\ Sound(stack[k])
              /\ Placed(stack[k], k, Len(stack) - 1) /\ Shows(stack[k], contents)
    BY <1>3, <2>1, PopTop
  <2>3. Len(stack) - 1 \in Nat \ {0}
    BY <1>3, <2>1, TopFacts
  <2>4. DOMAIN stack' = 1..(Len(stack) - 1) /\ stack' # <<>>
    <3>1. DOMAIN stack' = 1..Len(stack') /\ Len(<<>>) = 0
      BY <2>2, LenProperties, EmptySeq
    <3>2. QED
      BY <2>2, <2>3, <3>1
  <2>5. StackInv'
    BY <1>1, <2>2, <2>4 DEF StackInv
  <2>6. show_help' = FALSE /\ prompt' = NoPrompt /\ filter_editing' = FALSE /\ failed' \in Nat
    BY <1>1, ReachedFacts DEF Quiet, modeVars
  <2>7. ModeInv'
    BY <2>6, NoOverlay
  <2>8. QED
    BY <1>1, <2>1, <2>5, <2>6, <2>7 DEF TuiInv
<1>4. QED
  BY <1>2, <1>3 DEF Back

LEMMA ToggleMarkStep == TuiInv /\ ToggleMark => TuiInv'
<1> SUFFICES ASSUME TuiInv, ToggleMark
             PROVE  TuiInv'
  OBVIOUS
<1>1. Top \in Screens /\ Sound(Top) /\ StackInv
  BY TopFacts DEF TuiInv
<1>2. KeyTable /\ Reached /\ UNCHANGED contents /\ Quiet /\ Top.kind \in Markable /\ HasRow
  BY DEF ToggleMark, KeyTable
<1> DEFINE s == Top.rows[Row]
           marks == IF s \in Top.marked THEN Top.marked \ {s} ELSE Top.marked \cup {s}
           screen == [Top EXCEPT !.marked = marks]
<1>3. SetTop(screen)
  BY DEF ToggleMark
<1>4. Top.rows \in Seq(Songs) /\ Row \in DOMAIN Top.rows /\ Top.marked \in SUBSET Songs
  BY <1>1, <1>2, RowTypes, RowFacts DEF Markable
<1>5. s \in Songs /\ s \in ToSet(Top.rows)
  BY <1>4 DEF ToSet
<1>6. Top.marked \subseteq ToSet(Top.rows)
  BY <1>1, <1>2 DEF Sound, MarksOnRows
<1>7. marks \in SUBSET Songs /\ marks \subseteq ToSet(Top.rows)
  BY <1>4, <1>5, <1>6
<1> HIDE DEF marks
<1>8. /\ screen \in Screens /\ screen.kind = Top.kind /\ screen.rows = Top.rows
      /\ screen.filter = Top.filter /\ screen.selected = Top.selected /\ screen.marked = marks
      /\ screen.section = Top.section
      /\ screen.playlist = Top.playlist /\ screen.sort = Top.sort /\ screen.editing = Top.editing
  BY <1>1, <1>7 DEF Screens
<1> HIDE DEF screen
<1>9. Sound(screen)
  <2>1. MarksOnRows(screen)
    BY <1>2, <1>7, <1>8 DEF MarksOnRows
  <2>2. QED
    BY <1>1, <1>8, <2>1 DEF Sound, CursorOnRow
<1>10. SameScreen(screen)
  <2>1. ~Top.editing
    BY <1>2, ReachedFacts
  <2>2. QED
    BY <1>8, <2>1 DEF SameScreen
<1>11. /\ ~show_help /\ prompt = NoPrompt /\ UNCHANGED <<show_help, prompt>>
      /\ filter_editing' = filter_editing /\ failed' \in Nat
  BY <1>2, QuietFacts
<1>12. QED
  BY <1>2, <1>3, <1>8, <1>9, <1>10, <1>11, EditStep

LEMMA ToggleAlbumSortStep == TuiInv /\ ToggleAlbumSort => TuiInv'
<1> SUFFICES ASSUME TuiInv, ToggleAlbumSort
             PROVE  TuiInv'
  OBVIOUS
<1>1. Top \in Screens /\ Sound(Top) /\ StackInv
  BY TopFacts DEF TuiInv
<1>2. /\ KeyTable /\ Reached /\ UNCHANGED contents /\ Quiet
      /\ Top.kind = "AlbumList" /\ Top.sort # "none"
  BY DEF ToggleAlbumSort, KeyTable
<1>3. PICK albums \in Listed(Albums) :
         SetTop([Top EXCEPT !.rows = albums, !.selected = 0, !.filter = NoFilter,
                            !.sort = IF Top.sort = "az" THEN "newest" ELSE "az"])
  BY DEF ToggleAlbumSort
<1> DEFINE screen == [Top EXCEPT !.rows = albums, !.selected = 0, !.filter = NoFilter,
                                 !.sort = IF Top.sort = "az" THEN "newest" ELSE "az"]
<1>4. albums \in Seq(Albums)
  BY NamesAssumption, ListedFacts
<1>5. albums \in RowsOf("AlbumList") /\ "AlbumList" \in Kinds
  BY <1>4 DEF RowsOf, NamesOf, Kinds, Roots
<1>6. albums \in UNION {RowsOf(kind) : kind \in Kinds}
  BY <1>5
<1>7. /\ screen \in Screens /\ screen.kind = Top.kind /\ screen.rows = albums
      /\ screen.filter = NoFilter /\ screen.selected = 0 /\ screen.marked = Top.marked
      /\ screen.playlist = Top.playlist /\ screen.editing = Top.editing
  BY <1>1, <1>6 DEF Screens
<1>8. SetTop(screen)
  BY <1>3
<1> HIDE DEF screen
<1>9. Sound(screen)
  <2>1. CursorOnRow(screen)
    BY <1>2, <1>4, <1>7 DEF CursorOnRow
  <2>2. MarksOnRows(screen)
    BY <1>1, <1>2, <1>7 DEF Sound, MarksOnRows, Markable
  <2>3. QED
    BY <1>2, <1>5, <1>7, <2>1, <2>2 DEF Sound
<1>10. SameScreen(screen)
  BY <1>2, <1>7 DEF SameScreen
<1>11. /\ ~show_help /\ prompt = NoPrompt /\ UNCHANGED <<show_help, prompt>>
      /\ filter_editing' = filter_editing /\ failed' \in Nat
  BY <1>2, QuietFacts
<1>12. QED
  BY <1>2, <1>7, <1>8, <1>9, <1>10, <1>11, EditStep

LEMMA UnmarkedFacts ==
  ASSUME NEW screen, Sound(screen)
  PROVE  /\ Sound(Unmarked(screen))
         /\ Unmarked(screen).kind = screen.kind /\ Unmarked(screen).rows = screen.rows
         /\ Unmarked(screen).playlist = screen.playlist /\ Unmarked(screen).sort = screen.sort
         /\ Unmarked(screen).editing = screen.editing /\ Unmarked(screen).marked = {}
<1> DEFINE clean == Unmarked(screen)
<1>1. screen \in Screens
  BY DEF Sound
<1>2. /\ clean \in Screens /\ clean.kind = screen.kind /\ clean.rows = screen.rows
      /\ clean.filter = screen.filter /\ clean.selected = screen.selected /\ clean.marked = {}
      /\ clean.section = screen.section
      /\ clean.playlist = screen.playlist /\ clean.sort = screen.sort /\ clean.editing = screen.editing
  BY <1>1 DEF Screens, Unmarked
<1> HIDE DEF clean
<1>3. Sound(clean)
  BY <1>2 DEF Sound, CursorOnRow, MarksOnRows
<1>4. QED
  BY <1>2, <1>3 DEF clean

LEMMA UseMarkedStep == TuiInv /\ UseMarked => TuiInv'
<1> SUFFICES ASSUME TuiInv, UseMarked
             PROVE  TuiInv'
  OBVIOUS
<1>1. Sound(Top) /\ StackInv
  BY TopFacts DEF TuiInv
<1>2. Reached /\ UNCHANGED contents /\ failed' = 0 /\ SetTop(Unmarked(Top))
  BY DEF UseMarked, KeyTable, EnterKey
<1>3. ~show_help /\ prompt = NoPrompt /\ ~Top.editing
  BY <1>2, ReachedFacts
<1>4. UNCHANGED <<show_help, prompt>> /\ (filter_editing' = filter_editing \/ filter_editing' = FALSE)
  <2>1. CASE EnterKey
    <3>1. filter_editing' = FALSE
      BY <1>2, <2>1, ReachedFacts
    <3>2. QED
      BY <2>1, <3>1 DEF EnterKey
  <2>2. CASE UNCHANGED modeVars
    BY <2>2 DEF modeVars
  <2>3. QED
    BY <2>1, <2>2 DEF UseMarked
<1> DEFINE screen == Unmarked(Top)
<1>5. Sound(screen) /\ screen.rows = Top.rows
  BY <1>1, UnmarkedFacts
<1>6. SameScreen(screen)
  BY <1>1, <1>3, UnmarkedFacts DEF SameScreen
<1>7. SetTop(screen)
  BY <1>2
<1> HIDE DEF screen
<1>8. QED
  BY <1>2, <1>3, <1>4, <1>5, <1>6, <1>7, EditStep

\* New songs under a cursor that is on one of them, or under a filter.
WithRows(screen, rows, selected) == [screen EXCEPT !.rows = rows, !.selected = selected]

\* What is said of the screen that then shows them.
Rerowed(new, screen, rows) ==
    /\ new \in Screens /\ Sound(Unmarked(new))
    /\ screen.marked = {} => Sound(new)
    /\ new.rows = rows /\ new.kind = screen.kind /\ new.playlist = screen.playlist
    /\ new.sort = screen.sort /\ new.editing = screen.editing /\ new.marked = screen.marked

LEMMA NewRowsFacts ==
  ASSUME NEW screen, Sound(screen), screen.kind \in {"Queue", "SongList"},
         NEW rows \in Seq(Songs), NEW selected \in Nat,
         screen.filter = NoFilter /\ rows # <<>> => selected < Len(rows),
         NEW new, new = WithRows(screen, rows, selected)
  PROVE  Rerowed(new, screen, rows)
<1> DEFINE clean == Unmarked(new)
<1>1. screen \in Screens
  BY DEF Sound
<1>2. rows \in RowsOf(screen.kind) /\ screen.kind \in Kinds
  BY DEF RowsOf, NamesOf, Kinds, Roots
<1>3. rows \in UNION {RowsOf(kind) : kind \in Kinds}
  BY <1>2
<1>4. /\ new \in Screens /\ new.kind = screen.kind /\ new.rows = rows
      /\ new.filter = screen.filter /\ new.selected = selected /\ new.marked = screen.marked
      /\ new.playlist = screen.playlist /\ new.sort = screen.sort /\ new.editing = screen.editing
  BY <1>1, <1>3 DEF Screens, WithRows
<1>5. /\ clean \in Screens /\ clean.kind = screen.kind /\ clean.rows = rows
      /\ clean.filter = screen.filter /\ clean.selected = selected /\ clean.marked = {}
  BY <1>4 DEF Screens, Unmarked
<1> HIDE DEF clean
<1>6. screen.filter = NoFilter \/ screen.filter \subseteq NamesOf(screen.kind)
  BY DEF Sound
<1>7. CursorOnRow(new) /\ CursorOnRow(clean)
  BY <1>4, <1>5 DEF CursorOnRow
<1>8. Sound(clean)
  BY <1>2, <1>5, <1>6, <1>7 DEF Sound, MarksOnRows
<1>9. screen.marked = {} => Sound(new)
  BY <1>2, <1>4, <1>6, <1>7 DEF Sound, MarksOnRows
<1>10. QED
  BY <1>4, <1>8, <1>9 DEF clean, Rerowed

LEMMA ClampFacts ==
  ASSUME NEW len \in Nat, NEW selected \in Nat
  PROVE  ClampTo(len, selected) \in Nat /\ (len # 0 => ClampTo(len, selected) < len)
BY DEF ClampTo

LEMMA RefreshedFacts ==
  ASSUME NEW screen, Sound(screen), screen.kind \in {"Queue", "SongList"},
         NEW rows \in Seq(Songs), NEW new, new = Refreshed(screen, rows)
  PROVE  Rerowed(new, screen, rows)
<1> DEFINE selected == ClampTo(Len(rows), screen.selected)
<1>1. screen.selected \in Nat /\ Len(rows) \in Nat
  BY DEF Sound, Screens
<1>2. selected \in Nat /\ (Len(rows) # 0 => selected < Len(rows))
  BY <1>1, ClampFacts
<1>3. rows # <<>> => Len(rows) # 0
  OBVIOUS
<1>4. new = WithRows(screen, rows, selected)
  BY DEF Refreshed, WithRows
<1> HIDE DEF selected
<1>5. screen.filter = NoFilter /\ rows # <<>> => selected < Len(rows)
  BY <1>2, <1>3
<1>6. selected \in Nat
  BY <1>2
<1>7. QED
  BY <1>4, <1>5, <1>6, NewRowsFacts, Zenon

\* The Queue screen keeps its place with other rows.
LEMMA QueueScreenStep ==
  ASSUME TuiInv, KeyTable, Top.kind = "Queue", NEW screen, Sound(screen), SetTop(screen),
         screen.kind = "Queue", screen.playlist = Top.playlist, screen.sort = Top.sort,
         screen.editing = Top.editing, screen.marked = Top.marked, UNCHANGED contents, Quiet
  PROVE  TuiInv'
<1>1. Reached
  BY DEF KeyTable
<1>2. /\ ~show_help /\ prompt = NoPrompt /\ UNCHANGED <<show_help, prompt>>
      /\ filter_editing' = filter_editing /\ failed' \in Nat
  BY <1>1, QuietFacts
<1>3. SameScreen(screen)
  BY DEF SameScreen
<1>4. QED
  BY <1>2, <1>3, EditStep

LEMMA EditQueueStep == TuiInv /\ EditQueue => TuiInv'
<1> SUFFICES ASSUME TuiInv, EditQueue
             PROVE  TuiInv'
  OBVIOUS
<1>1. Sound(Top)
  BY TopFacts DEF TuiInv
<1>2. KeyTable /\ Top.kind = "Queue" /\ UNCHANGED contents /\ Quiet
  BY DEF EditQueue
<1>3. PICK rows \in SongRows : SetTop(Refreshed(Top, rows))
  BY DEF EditQueue
<1>4. Top.marked = {}
  BY <1>1, <1>2 DEF Sound, MarksOnRows, Markable
<1> DEFINE screen == Refreshed(Top, rows)
<1>5. /\ Sound(screen) /\ screen.kind = Top.kind /\ screen.playlist = Top.playlist
      /\ screen.sort = Top.sort /\ screen.editing = Top.editing /\ screen.marked = Top.marked
  <2>1. Rerowed(screen, Top, rows)
    BY <1>1, <1>2, SongRowsFacts, RefreshedFacts
  <2>2. QED
    BY <1>4, <2>1 DEF Rerowed
<1> HIDE DEF screen
<1>6. SetTop(screen)
  BY <1>3 DEF screen
<1>7. QED
  BY <1>2, <1>5, <1>6, QueueScreenStep

LEMMA MoveQueueItemStep == ASSUME NEW delta \in {-1, 1} PROVE TuiInv /\ MoveQueueItem(delta) => TuiInv'
<1> SUFFICES ASSUME TuiInv, MoveQueueItem(delta)
             PROVE  TuiInv'
  OBVIOUS
<1>1. Sound(Top)
  BY TopFacts DEF TuiInv
<1>2. KeyTable /\ Top.kind = "Queue" /\ UNCHANGED contents /\ Quiet
  BY DEF MoveQueueItem
<1>3. PICK rows \in SongRows :
         LET after == Refreshed(Top, rows)
         IN SetTop(IF Row + delta \in Matching(after)
                   THEN [after EXCEPT !.selected = Rank(Matching(after), Row + delta)]
                   ELSE after)
  BY DEF MoveQueueItem
<1>4. Top.marked = {}
  BY <1>1, <1>2 DEF Sound, MarksOnRows, Markable
<1> DEFINE after == Refreshed(Top, rows)
           place == Rank(Matching(after), Row + delta)
           moved == [after EXCEPT !.selected = place]
<1>5. rows \in Seq(Songs)
  BY SongRowsFacts
<1>6. /\ Sound(after) /\ after.kind = "Queue" /\ after.playlist = Top.playlist /\ after.rows = rows
      /\ after.sort = Top.sort /\ after.editing = Top.editing /\ after.marked = {}
  <2>1. Rerowed(after, Top, rows)
    BY <1>1, <1>2, <1>5, RefreshedFacts
  <2>2. QED
    BY <1>2, <1>4, <2>1 DEF Rerowed
<1> HIDE DEF after
<1>7. CASE Row + delta \notin Matching(after)
  <2>1. SetTop(after)
    BY <1>3, <1>7 DEF after
  <2>2. QED
    BY <1>2, <1>4, <1>6, <2>1, QueueScreenStep
<1>8. CASE Row + delta \in Matching(after)
  <2> HIDE DEF place
  <2>1. SetTop(moved)
    BY <1>3, <1>8 DEF after, place
  <2>2. /\ Matching(after) \in SUBSET Nat /\ IsFiniteSet(Matching(after))
        /\ after.filter = NoFilter => Cardinality(Matching(after)) = Len(rows)
        /\ Cardinality(Matching(after)) \in Nat
    BY <1>5, <1>6, MatchingFacts
  <2>3. place \in 0..(Cardinality(Matching(after)) - 1)
    BY <1>8, <2>2, RankFacts DEF place
  <2>4. place \in Nat /\ (after.filter = NoFilter => place < Len(rows))
    BY <2>2, <2>3
  <2>5. moved = WithRows(after, rows, place)
    BY <1>6 DEF Sound, Screens, WithRows
  <2>6. /\ Sound(moved) /\ moved.kind = "Queue" /\ moved.playlist = Top.playlist
        /\ moved.sort = Top.sort /\ moved.editing = Top.editing /\ moved.marked = {}
    <3>1. Sound(after) /\ after.kind \in {"Queue", "SongList"} /\ after.marked = {}
      BY <1>6
    <3>2. after.filter = NoFilter /\ rows # <<>> => place < Len(rows)
      BY <2>4
    <3>3. place \in Nat
      BY <2>4
    <3> HIDE DEF moved
    <3>4. Rerowed(moved, after, rows)
      BY <1>5, <2>5, <3>1, <3>2, <3>3, NewRowsFacts, Zenon
    <3>5. QED
      BY <1>6, <3>4 DEF Rerowed
  <2> HIDE DEF moved
  <2>7. QED
    BY <1>2, <1>4, <2>1, <2>6, QueueScreenStep
<1>9. QED
  BY <1>7, <1>8

LEMMA ToggleHelpStep == TuiInv /\ ToggleHelp => TuiInv'
<1> SUFFICES ASSUME TuiInv, ToggleHelp
             PROVE  TuiInv'
  OBVIOUS
<1>1. /\ show_help' = ~show_help /\ UNCHANGED <<stack, filter_editing, prompt, contents>> /\ failed' = 0
  BY DEF ToggleHelp
<1>2. prompt = NoPrompt /\ ~filter_editing /\ filter_editing \in BOOLEAN
  <2>1. CASE show_help
    BY <2>1 DEF TuiInv, ModeInv
  <2>2. CASE KeyTable
    BY <2>2, ReachedFacts DEF KeyTable
  <2>3. QED
    BY <2>1, <2>2 DEF ToggleHelp
<1>3. ~SearchEditing
  <2>1. CASE show_help
    BY <2>1 DEF TuiInv, ModeInv
  <2>2. CASE KeyTable
    BY <2>2, ReachedFacts DEF KeyTable
  <2>3. QED
    BY <2>1, <2>2 DEF ToggleHelp
<1>4. ~SearchEditing' /\ Top' = Top
  BY <1>1, <1>3 DEF SearchEditing, Top
<1>5. prompt.action = "none"
  BY <1>2 DEF NoPrompt
<1>6. ModeInv'
  <2>1. show_help \in BOOLEAN
    BY DEF TuiInv, ModeInv
  <2>2. show_help' \in BOOLEAN /\ filter_editing' = FALSE /\ prompt' = prompt
    BY <1>1, <1>2, <2>1
  <2>3. prompt \in [action : {"none", "new", "rename", "save"},
                    id : Playlists \cup {NoPlaylist}, named : BOOLEAN]
    BY DEF TuiInv, ModeInv
  <2>4. QED
    BY <1>2, <1>4, <1>5, <2>2, <2>3 DEF ModeInv
<1>7. StackInv'
  BY <1>1 DEF TuiInv, StackInv
<1>8. QED
  BY <1>1, <1>6, <1>7 DEF TuiInv

-----------------------------------------------------------------------------
(* Roots: steps that start a tab anew *)

\* A screen that was just made of these rows.
Fresh(screen, kind, rows) ==
    /\ screen \in Screens /\ screen.kind = kind /\ screen.rows = rows
    /\ screen.section = 1 /\ screen.selected = 0 /\ screen.filter = NoFilter /\ screen.marked = {}

LEMMA FreshFacts ==
  ASSUME NEW kind \in Kinds, kind # "Home", NEW rows \in RowsOf(kind),
         NEW screen, Fresh(screen, kind, rows)
  PROVE  Sound(screen)
<1>1. rows # <<>> => 0 < Len(rows)
  <2>1. \E T : rows \in Seq(T)
    BY DEF RowsOf
  <2>2. QED
    BY <2>1
<1>2. CursorOnRow(screen) /\ MarksOnRows(screen)
  BY <1>1 DEF Fresh, CursorOnRow, MarksOnRows
<1>3. QED
  BY <1>2 DEF Fresh, Sound

LEMMA ScreenFacts ==
  ASSUME NEW kind \in Kinds, NEW rows \in RowsOf(kind)
  PROVE  /\ Fresh(Screen(kind, rows), kind, rows)
         /\ Screen(kind, rows).playlist = NoPlaylist /\ Screen(kind, rows).sort = "none"
         /\ ~Screen(kind, rows).editing
         /\ LET sorted == [Screen(kind, rows) EXCEPT !.sort = "az"]
            IN  Fresh(sorted, kind, rows) /\ sorted.playlist = NoPlaylist /\ ~sorted.editing
         /\ LET asking == [Screen(kind, rows) EXCEPT !.editing = TRUE]
            IN  Fresh(asking, kind, rows) /\ asking.playlist = NoPlaylist
<1>1. rows \in UNION {RowsOf(k) : k \in Kinds}
  OBVIOUS
<1>2. <<>> \in Seq(Songs) /\ {} \in SUBSET Songs
  OBVIOUS
<1> DEFINE screen == Screen(kind, rows)
<1>3. /\ screen \in Screens /\ screen.kind = kind /\ screen.rows = rows
      /\ screen.section = 1 /\ screen.selected = 0 /\ screen.filter = NoFilter /\ screen.marked = {}
      /\ screen.playlist = NoPlaylist /\ screen.sort = "none" /\ screen.editing = FALSE
  BY <1>1, <1>2 DEF Screen, Screens
<1> HIDE DEF screen
<1>4. /\ Fresh(screen, kind, rows)
      /\ screen.playlist = NoPlaylist /\ screen.sort = "none" /\ ~screen.editing
  BY <1>3 DEF Fresh
<1>5. LET sorted == [screen EXCEPT !.sort = "az"]
      IN  Fresh(sorted, kind, rows) /\ sorted.playlist = NoPlaylist /\ ~sorted.editing
  BY <1>3 DEF Fresh, Screens
<1>6. LET asking == [screen EXCEPT !.editing = TRUE]
      IN  Fresh(asking, kind, rows) /\ asking.playlist = NoPlaylist
  BY <1>3 DEF Fresh, Screens
<1>7. QED
  BY <1>4, <1>5, <1>6 DEF screen

LEMMA SongListFacts ==
  ASSUME NEW rows \in Seq(Songs), NEW p \in Playlists \cup {NoPlaylist}
  PROVE  LET screen == SongList(rows, p)
         IN  /\ Fresh(screen, "SongList", rows) /\ rows \in RowsOf("SongList")
             /\ screen.playlist = p /\ screen.sort = "none" /\ ~screen.editing
<1>1. rows \in RowsOf("SongList") /\ "SongList" \in Kinds
  BY DEF RowsOf, NamesOf, Kinds
<1> DEFINE plain == Screen("SongList", rows)
<1>2. Fresh(plain, "SongList", rows) /\ plain.sort = "none" /\ ~plain.editing
  BY <1>1, ScreenFacts
<1>3. SongList(rows, p) = [plain EXCEPT !.playlist = p]
  BY DEF SongList
<1> HIDE DEF plain
<1>4. QED
  BY <1>1, <1>2, <1>3 DEF Fresh, Screens

Picker(rows, ids) == [Screen("PlaylistPicker", rows) EXCEPT !.ids = ids]

LEMMA PickerFacts ==
  ASSUME NEW rows \in Seq(Playlists), NEW ids \in Seq(Songs)
  PROVE  LET screen == Picker(rows, ids)
         IN  /\ Fresh(screen, "PlaylistPicker", rows) /\ rows \in RowsOf("PlaylistPicker")
             /\ screen.playlist = NoPlaylist /\ screen.sort = "none" /\ ~screen.editing
<1>1. rows \in RowsOf("PlaylistPicker") /\ "PlaylistPicker" \in Kinds
  BY DEF RowsOf, Kinds
<1> DEFINE plain == Screen("PlaylistPicker", rows)
<1>2. /\ Fresh(plain, "PlaylistPicker", rows) /\ plain.playlist = NoPlaylist /\ plain.sort = "none"
      /\ ~plain.editing
  BY <1>1, ScreenFacts
<1>3. Picker(rows, ids) = [plain EXCEPT !.ids = ids]
  BY DEF Picker
<1> HIDE DEF plain
<1>4. QED
  BY <1>1, <1>2, <1>3 DEF Fresh, Screens

LEMMA HomeRootFacts ==
  ASSUME NEW root \in HomeRoots, NEW playlists
  PROVE  Sound(root) /\ Placed(root, 1, 1) /\ Shows(root, playlists)
<1>1. /\ NativeLists \in Seq(Seq(Songs)) /\ NativeLists # <<>> /\ PreviewRows \in Nat
      /\ 1 \in DOMAIN NativeLists
  BY NamesAssumption
<1>2. PICK loaded : root = Screen("Home", [k \in DOMAIN NativeLists |->
                              IF k \in loaded THEN Preview(NativeLists[k]) ELSE <<>>])
  BY DEF HomeRoots
<1> DEFINE rows == [k \in DOMAIN NativeLists |-> IF k \in loaded THEN Preview(NativeLists[k]) ELSE <<>>]
<1>3. \A list \in Seq(Songs) : Preview(list) \in Seq(Songs)
  <2>1. ASSUME NEW list \in Seq(Songs)
        PROVE  Preview(list) \in Seq(Songs)
    <3> DEFINE n == IF Len(list) < PreviewRows THEN Len(list) ELSE PreviewRows
    <3>1. n \in Nat /\ n <= Len(list)
      BY <1>1
    <3> HIDE DEF n
    <3>2. SubSeq(list, 1, n) \in Seq(Songs)
      BY <3>1
    <3>3. QED
      BY <3>2 DEF Preview, n
  <2>2. QED
    BY <2>1
<1>4. \A k \in DOMAIN NativeLists : rows[k] \in Seq(Songs)
  BY <1>1, <1>3
<1>5. DOMAIN rows = DOMAIN NativeLists /\ rows \in Seq(Seq(Songs))
  <2>1. DOMAIN NativeLists = 1..Len(NativeLists) /\ Len(NativeLists) \in Nat
    BY <1>1
  <2>2. DOMAIN rows = 1..Len(NativeLists) /\ rows = [k \in 1..Len(NativeLists) |-> rows[k]]
    BY <2>1
  <2>3. \A k \in 1..Len(NativeLists) : rows[k] \in Seq(Songs)
    BY <1>4, <2>1
  <2> HIDE DEF rows
  <2>4. rows \in [1..Len(NativeLists) -> Seq(Songs)]
    BY <2>2, <2>3
  <2>5. QED
    BY <2>1, <2>2, <2>4
<1> HIDE DEF rows
<1>6. rows \in RowsOf("Home") /\ "Home" \in Kinds
  BY <1>5 DEF RowsOf, Kinds, Roots
<1>7. root = Screen("Home", rows)
  BY <1>2 DEF rows
<1>9. Fresh(root, "Home", rows) /\ root.playlist = NoPlaylist /\ root.sort = "none" /\ ~root.editing
  BY <1>6, <1>7, ScreenFacts
<1>10. CursorOnRow(root)
  <2>1. rows[1] \in Seq(Songs)
    BY <1>1, <1>4
  <2>2. rows[1] # <<>> => 0 < Len(rows[1])
    BY <2>1
  <2>3. QED
    BY <1>9, <2>2 DEF Fresh, CursorOnRow
<1>11. Sound(root)
  BY <1>1, <1>5, <1>6, <1>9, <1>10 DEF Sound, Fresh, MarksOnRows
<1>12. QED
  BY <1>9, <1>11 DEF Fresh, Placed, Shows, Roots

LEMMA RootFacts ==
  ASSUME NEW kind \in Roots, NEW playlists, DOMAIN playlists \subseteq Playlists,
         NEW root \in RootsOf(kind, DOMAIN playlists)
  PROVE  Sound(root) /\ Placed(root, 1, 1) /\ Shows(root, playlists)
<1>1. CASE kind = "Home"
  BY <1>1, HomeRootFacts DEF RootsOf
<1>2. CASE kind # "Home"
  <2>1. kind \in Kinds
    BY DEF Kinds
  <2>2. PICK rows \in RowsOf(kind) :
           /\ \/ root = Screen(kind, rows)
              \/ kind = "AlbumList" /\ root = [Screen(kind, rows) EXCEPT !.sort = "az"]
              \/ kind = "Search" /\ root = [Screen(kind, rows) EXCEPT !.editing = TRUE]
           /\ kind = "PlaylistList" => ToSet(rows) \subseteq DOMAIN playlists
    <3>1. CASE kind = "PlaylistList"
      <4>1. IsFiniteSet(DOMAIN playlists)
        BY NamesAssumption, FS_Subset
      <4>2. SetToSeq(DOMAIN playlists) \in Seq(DOMAIN playlists) /\ <<>> \in Seq(DOMAIN playlists)
        BY <4>1, SetToSeqFacts
      <4>3. PICK rows \in Seq(DOMAIN playlists) : root = Screen(kind, rows)
        BY <3>1, <4>2 DEF RootsOf
      <4>4. rows \in Seq(Playlists) /\ ToSet(rows) \subseteq DOMAIN playlists
        BY <4>3 DEF ToSet
      <4>5. rows \in RowsOf(kind)
        BY <3>1, <4>4 DEF RowsOf, NamesOf
      <4>6. QED
        BY <4>3, <4>4, <4>5
    <3>2. CASE kind = "AlbumList"
      <4>1. PICK rows \in Listed(Albums) : root = [Screen(kind, rows) EXCEPT !.sort = "az"]
        BY <3>2 DEF RootsOf
      <4>2. rows \in Seq(Albums)
        BY NamesAssumption, ListedFacts
      <4>3. rows \in RowsOf(kind)
        BY <3>2, <4>2 DEF RowsOf, NamesOf
      <4>4. QED
        BY <3>2, <4>1, <4>3
    <3>3. CASE kind = "ArtistList"
      <4>1. PICK rows \in Listed(Artists) : root = Screen(kind, rows)
        BY <3>3 DEF RootsOf
      <4>2. rows \in Seq(Artists)
        BY NamesAssumption, ListedFacts
      <4>3. rows \in RowsOf(kind)
        BY <3>3, <4>2 DEF RowsOf, NamesOf
      <4>4. QED
        BY <3>3, <4>1, <4>3
    <3>4. CASE kind = "GenreList"
      <4>1. PICK rows \in Listed(Genres) : root = Screen(kind, rows)
        BY <3>4 DEF RootsOf
      <4>2. rows \in Seq(Genres)
        BY NamesAssumption, ListedFacts
      <4>3. rows \in RowsOf(kind)
        BY <3>4, <4>2 DEF RowsOf, NamesOf
      <4>4. QED
        BY <3>4, <4>1, <4>3
    <3>5. CASE kind = "Search"
      <4>1. root = [Screen(kind, <<>>) EXCEPT !.editing = TRUE]
        BY <3>5 DEF RootsOf
      <4>2. <<>> \in RowsOf(kind)
        BY <3>5 DEF RowsOf, NamesOf
      <4>3. QED
        BY <3>5, <4>1, <4>2
    <3>6. CASE kind = "Queue"
      <4>1. PICK rows \in SongRows : root = Screen(kind, rows)
        BY <3>6 DEF RootsOf
      <4>2. rows \in RowsOf(kind)
        BY <3>6, SongRowsFacts DEF RowsOf, NamesOf
      <4>3. QED
        BY <3>6, <4>1, <4>2
    <3>7. CASE kind = "Settings"
      <4>1. root = Screen(kind, <<>>)
        BY <3>7 DEF RootsOf
      <4>2. <<>> \in RowsOf(kind)
        BY <3>7 DEF RowsOf, NamesOf
      <4>3. QED
        BY <3>7, <4>1, <4>2
    <3>8. QED
      BY <1>2, <3>1, <3>2, <3>3, <3>4, <3>5, <3>6, <3>7 DEF Roots
  <2>4. /\ Fresh(root, kind, rows) /\ root.playlist = NoPlaylist
        /\ root.editing => kind = "Search"
    <3>1. CASE root = Screen(kind, rows)
      BY <2>1, <3>1, ScreenFacts
    <3>2. CASE kind = "AlbumList" /\ root = [Screen(kind, rows) EXCEPT !.sort = "az"]
      BY <2>1, <3>2, ScreenFacts
    <3>3. CASE kind = "Search" /\ root = [Screen(kind, rows) EXCEPT !.editing = TRUE]
      BY <2>1, <3>3, ScreenFacts
    <3>4. QED
      BY <2>2, <3>1, <3>2, <3>3
  <2>5. Sound(root)
    BY <1>2, <2>1, <2>4, FreshFacts
  <2>6. Placed(root, 1, 1)
    BY <2>4 DEF Placed, Fresh
  <2>7. Shows(root, playlists)
    BY <2>2, <2>4 DEF Shows, Fresh, Roots
  <2>8. QED
    BY <2>5, <2>6, <2>7
<1>3. QED
  BY <1>1, <1>2

LEMMA SwitchTabStep ==
  ASSUME NEW kind \in Roots, SwitchTab(kind), PlaylistsOK(contents'),
         show_help' = FALSE, prompt' = NoPrompt, failed' \in Nat
  PROVE  TuiInv'
<1>1. PICK root \in RootsOf(kind, DOMAIN contents') : stack' = <<root>>
  BY DEF SwitchTab
<1>2. DOMAIN contents' \subseteq Playlists /\ filter_editing' = FALSE
  BY DEF SwitchTab, PlaylistsOK
<1>3. Sound(root) /\ Placed(root, 1, 1) /\ Shows(root, contents')
  BY <1>1, <1>2, RootFacts
<1>4. QED
  BY <1>1, <1>2, <1>3, RootStep

LEMMA InitStep == Init => TuiInv
<1> SUFFICES ASSUME Init
             PROVE  TuiInv
  OBVIOUS
<1>1. PICK root \in HomeRoots : stack = <<root>>
  BY DEF Init
<1>2. Sound(root) /\ Placed(root, 1, 1) /\ Shows(root, contents) /\ root \in Screens
  BY HomeRootFacts DEF Sound
<1>3. StackInv
  <2>1. stack \in Seq(Screens) /\ stack # <<>> /\ Len(stack) = 1 /\ DOMAIN stack = {1} /\ stack[1] = root
    BY <1>1, <1>2
  <2>2. QED
    BY <1>2, <2>1 DEF StackInv
<1>4. PlaylistsOK(contents)
  <2>1. PICK existing \in SUBSET Playlists : contents \in [existing -> {SetToSeq(Songs)}]
    BY DEF Init
  <2>2. SetToSeq(Songs) \in Seq(Songs)
    BY NamesAssumption, SetToSeqFacts
  <2>3. QED
    BY <2>1, <2>2 DEF PlaylistsOK
<1>5. /\ filter_editing = FALSE /\ show_help = FALSE /\ prompt = NoPrompt /\ failed = 0
  BY DEF Init
<1>6. ModeInv
  <2>1. Top = root
    BY <1>1 DEF Top
  <2>2. ~SearchEditing
    BY <2>1, HomeRootFacts, <1>1 DEF SearchEditing, HomeRoots, Screen
  <2>3. prompt \in [action : {"none", "new", "rename", "save"},
                    id : Playlists \cup {NoPlaylist}, named : BOOLEAN] /\ prompt.action = "none"
    BY <1>5 DEF NoPrompt
  <2>4. QED
    BY <1>5, <2>2, <2>3 DEF ModeInv
<1>7. QED
  BY <1>3, <1>4, <1>5, <1>6 DEF TuiInv

LEMMA TabSteps == TuiInv /\ (TabKey \/ Slash) => TuiInv'
<1> SUFFICES ASSUME TuiInv, TabKey \/ Slash
             PROVE  TuiInv'
  OBVIOUS
<1>1. KeyTable /\ Reached /\ UNCHANGED <<contents, show_help, prompt>> /\ failed' = 0
  BY DEF TabKey, Slash, KeyTable
<1>2. show_help' = FALSE /\ prompt' = NoPrompt /\ PlaylistsOK(contents') /\ failed' \in Nat
  BY <1>1, ReachedFacts DEF TuiInv
<1>3. CASE \E kind \in Roots : SwitchTab(kind)
  BY <1>2, <1>3, SwitchTabStep
<1>4. CASE SlashFilters /\ filter_editing' = TRUE /\ UNCHANGED stack
  <2>1. StackInv' /\ Top' = Top
    BY <1>1, <1>4 DEF TuiInv, StackInv, Top
  <2>2. Top.kind \in Filterable
    BY <1>4 DEF SlashFilters
  <2>3. ModeInv'
    BY <1>2, <1>4, <2>1, <2>2, NoOverlay
  <2>4. QED
    BY <1>2, <2>1, <2>3 DEF TuiInv
<1>5. CASE SwitchTab("Search")
  BY <1>3, <1>5 DEF Roots
<1>6. QED
  BY <1>3, <1>4, <1>5 DEF TabKey, Slash

-----------------------------------------------------------------------------
(* Opening a screen *)

\* A screen that is no playlist's.
LEMMA OpenStep ==
  ASSUME TuiInv, Reached, NEW kind \in {"AlbumList", "SongList", "PlaylistPicker", "Info"},
         NEW rows \in RowsOf(kind), NEW screen, Fresh(screen, kind, rows),
         screen.playlist = NoPlaylist, screen.sort = "none", ~screen.editing,
         kind = "PlaylistPicker" => ToSet(rows) \subseteq DOMAIN contents,
         Push(screen), UNCHANGED <<show_help, prompt, contents>>, filter_editing' = FALSE,
         failed' \in Nat
  PROVE  TuiInv'
<1>1. kind \in Kinds /\ kind # "Home" /\ kind # "PlaylistList"
  BY DEF Kinds, Roots
<1>2. Sound(screen) /\ screen.kind = kind /\ screen.rows = rows
  BY <1>1, FreshFacts DEF Fresh
<1>3. Shows(screen, contents)
  BY <1>1, <1>2 DEF Shows
<1>4. QED
  BY <1>2, <1>3, PushStep

\* The albums of an artist, a genre or an artist similar to one.
LEMMA OpenAlbumsStep ==
  ASSUME TuiInv, EnterKey, UNCHANGED contents, failed' = 0,
         NEW rows \in Listed(Albums), Push(AlbumsOf(rows))
  PROVE  TuiInv'
<1>1. Reached /\ UNCHANGED <<show_help, prompt>> /\ filter_editing' = FALSE
  BY ReachedFacts DEF EnterKey
<1>2. rows \in Seq(Albums)
  BY NamesAssumption, ListedFacts
<1>3. rows \in RowsOf("AlbumList") /\ "AlbumList" \in Kinds
  BY <1>2 DEF RowsOf, NamesOf, Kinds, Roots
<1> DEFINE screen == AlbumsOf(rows)
<1>5. /\ Fresh(screen, "AlbumList", rows)
      /\ screen.playlist = NoPlaylist /\ screen.sort = "none" /\ ~screen.editing
  BY <1>3, ScreenFacts DEF AlbumsOf
<1> HIDE DEF screen
<1>6. Push(screen) /\ failed' \in Nat
  BY DEF screen
<1>7. QED
  BY <1>1, <1>3, <1>5, <1>6, OpenStep

LEMMA OpenSongsStep ==
  ASSUME TuiInv, Reached, UNCHANGED <<show_help, prompt, contents>>, filter_editing' = FALSE,
         failed' = 0, NEW rows \in Seq(Songs), NEW p \in Playlists \cup {NoPlaylist},
         Push(SongList(rows, p)),
         p # NoPlaylist => /\ Top.kind = "PlaylistList"
                           /\ p \in DOMAIN contents /\ IsPrefix(rows, contents[p])
  PROVE  TuiInv'
<1>1. "SongList" \in Kinds
  BY DEF Kinds
<1> DEFINE screen == SongList(rows, p)
<1>2. /\ Fresh(screen, "SongList", rows) /\ rows \in RowsOf("SongList")
      /\ screen.playlist = p /\ screen.sort = "none" /\ ~screen.editing
  BY SongListFacts
<1> HIDE DEF screen
<1>3. Sound(screen) /\ screen.kind = "SongList" /\ screen.rows = rows
  BY <1>1, <1>2, FreshFacts DEF Fresh
<1>4. Shows(screen, contents)
  BY <1>2, <1>3 DEF Shows
<1>5. Push(screen) /\ failed' \in Nat
  BY DEF screen
<1>6. QED
  BY <1>2, <1>3, <1>4, <1>5, PushStep

LEMMA OpenRowStep == TuiInv /\ OpenRow => TuiInv'
<1> SUFFICES ASSUME TuiInv, OpenRow
             PROVE  TuiInv'
  OBVIOUS
<1>1. EnterKey /\ HasRow /\ UNCHANGED contents /\ failed' = 0
  BY DEF OpenRow
<1>2. Reached /\ UNCHANGED <<show_help, prompt>> /\ filter_editing' = FALSE
  BY <1>1, ReachedFacts DEF EnterKey
<1>3. \/ Top.kind = "AlbumList" /\ \E rows \in Listed(Songs) : Push(SongList(rows, NoPlaylist))
      \/ /\ Top.kind \in {"ArtistList", "GenreList"}
         /\ \E rows \in Listed(Albums) : Push(AlbumsOf(rows))
      \/ Top.kind = "PlaylistList" /\ Push(SongList(contents[Top.rows[Row]], Top.rows[Row]))
  BY DEF OpenRow
<1>4. CASE Top.kind = "AlbumList" /\ \E rows \in Listed(Songs) : Push(SongList(rows, NoPlaylist))
  <2>1. PICK rows \in Listed(Songs) : Push(SongList(rows, NoPlaylist))
    BY <1>4
  <2>2. rows \in Seq(Songs)
    BY NamesAssumption, ListedFacts
  <2>3. QED
    BY <1>1, <1>2, <2>1, <2>2, OpenSongsStep
<1>5. CASE \E rows \in Listed(Albums) : Push(AlbumsOf(rows))
  BY <1>1, <1>5, OpenAlbumsStep
<1>6. CASE Top.kind = "PlaylistList" /\ Push(SongList(contents[Top.rows[Row]], Top.rows[Row]))
  <2> DEFINE p == Top.rows[Row]
  <2>1. StackInv /\ PlaylistsOK(contents)
    BY DEF TuiInv
  <2>2. Row \in DOMAIN Top.rows /\ Top.rows \in Seq(Playlists) /\ Shows(Top, contents)
    BY <1>1, <1>6, <2>1, RowTypes, RowFacts, TopFacts
  <2>3. p \in DOMAIN contents
    BY <1>6, <2>2 DEF Shows, ToSet
  <2> HIDE DEF p
  <2>4. p \in Playlists /\ contents[p] \in Seq(Songs)
    BY <2>1, <2>3 DEF PlaylistsOK
  <2>5. IsPrefix(contents[p], contents[p])
    BY <2>4, PrefixFacts
  <2>6. Push(SongList(contents[p], p))
    BY <1>6 DEF p
  <2>7. QED
    BY <1>1, <1>2, <1>6, <2>3, <2>4, <2>5, <2>6, OpenSongsStep
<1>7. QED
  BY <1>3, <1>4, <1>5, <1>6

LEMMA EnterStaysStep == TuiInv /\ EnterStays => TuiInv'
<1> SUFFICES ASSUME TuiInv, EnterStays
             PROVE  TuiInv'
  OBVIOUS
<1>1. /\ EnterKey /\ Reached /\ UNCHANGED <<stack, contents, show_help, prompt>> /\ failed' = 0
      /\ filter_editing' = FALSE /\ show_help' = FALSE /\ prompt' = NoPrompt
  BY ReachedFacts DEF EnterStays, EnterKey
<1>2. StackInv'
  BY <1>1 DEF TuiInv, StackInv
<1>3. ModeInv'
  BY <1>1, NoOverlay
<1>4. QED
  BY <1>1, <1>2, <1>3 DEF TuiInv

LEMMA OpenSimilarStep == TuiInv /\ OpenSimilar => TuiInv'
BY OpenAlbumsStep DEF OpenSimilar

LEMMA ExpandHomeSectionStep == TuiInv /\ ExpandHomeSection => TuiInv'
<1> SUFFICES ASSUME TuiInv, ExpandHomeSection
             PROVE  TuiInv'
  OBVIOUS
<1>1. KeyTable /\ Reached /\ Quiet /\ Top.kind = "Home" /\ UNCHANGED contents
  BY DEF ExpandHomeSection, KeyTable
<1>2. PICK rows \in {<<>>, NativeLists[Top.section]} : Push(SongList(rows, NoPlaylist))
  BY DEF ExpandHomeSection
<1>3. rows \in Seq(Songs)
  <2>1. Top.section \in DOMAIN NativeLists
    BY <1>1, TopFacts DEF TuiInv, Sound
  <2>2. NativeLists \in Seq(Seq(Songs))
    BY NamesAssumption
  <2>3. NativeLists[Top.section] \in Seq(Songs) /\ <<>> \in Seq(Songs)
    BY <2>1, <2>2
  <2>4. QED
    BY <2>3
<1>4. UNCHANGED <<show_help, prompt>> /\ filter_editing' = FALSE /\ failed' = 0
  BY <1>1, ReachedFacts DEF Quiet, modeVars
<1>5. QED
  BY <1>1, <1>2, <1>3, <1>4, OpenSongsStep

LEMMA ShowInfoStep == TuiInv /\ ShowInfo => TuiInv'
<1> SUFFICES ASSUME TuiInv, ShowInfo
             PROVE  TuiInv'
  OBVIOUS
<1>1. KeyTable /\ Reached /\ Quiet /\ UNCHANGED contents
  BY DEF ShowInfo, KeyTable
<1>2. <<>> \in Seq(Artists) /\ \A rows \in Listed(Artists) : rows \in Seq(Artists)
  BY NamesAssumption, ListedFacts
<1>3. PICK rows \in Seq(Artists) : Push(Screen("Info", rows))
  BY <1>2 DEF ShowInfo
<1>4. rows \in RowsOf("Info") /\ "Info" \in Kinds
  BY DEF RowsOf, Kinds
<1> DEFINE screen == Screen("Info", rows)
<1>6. /\ Fresh(screen, "Info", rows)
      /\ screen.playlist = NoPlaylist /\ screen.sort = "none" /\ ~screen.editing
  BY <1>4, ScreenFacts
<1>7. Push(screen)
  BY <1>3
<1> HIDE DEF screen
<1>8. UNCHANGED <<show_help, prompt>> /\ filter_editing' = FALSE /\ failed' \in Nat
  BY <1>1, ReachedFacts DEF Quiet, modeVars
<1>9. QED
  BY <1>1, <1>4, <1>6, <1>7, <1>8, OpenStep

LEMMA OpenPlaylistPickerStep == TuiInv /\ OpenPlaylistPicker => TuiInv'
<1> SUFFICES ASSUME TuiInv, OpenPlaylistPicker
             PROVE  TuiInv'
  OBVIOUS
<1>1. KeyTable /\ Reached /\ Quiet /\ UNCHANGED contents /\ StackInv /\ PlaylistsOK(contents)
  BY DEF OpenPlaylistPicker, KeyTable, TuiInv
<1> DEFINE ids == IF AnyMarked THEN At(Top.rows, MarkedRows) ELSE SetToSeq(SelectedSong)
           rows == SetToSeq(DOMAIN contents)
           screen == Picker(rows, ids)
<1>2. Push(screen)
  BY DEF OpenPlaylistPicker, Picker
<1>3. ids \in Seq(Songs)
  <2>1. CASE AnyMarked
    <3>1. Top.rows \in Seq(Songs)
      BY <1>1, <2>1, RowTypes DEF AnyMarked, Markable
    <3>2. MarkedRows \in SUBSET DOMAIN Top.rows
      BY DEF MarkedRows
    <3>3. At(Top.rows, MarkedRows) \in Seq(Songs)
      BY <3>1, <3>2, AtFacts
    <3>4. QED
      BY <2>1, <3>3
  <2>2. CASE ~AnyMarked
    <3>1. SelectedSong \in SUBSET Songs
      <4>1. CASE Top.kind = "Home"
        <5>1. Top.rows \in Seq(Seq(Songs)) /\ Top.section \in DOMAIN Top.rows
          BY <1>1, <4>1, RowTypes, TopFacts DEF Sound
        <5>2. HomeRow \in Seq(Songs) /\ Top.selected \in Nat
          BY <1>1, <5>1, RowTypes DEF HomeRow
        <5>3. Top.selected < Len(HomeRow) => HomeRow[Top.selected + 1] \in Songs
          BY <5>2
        <5>4. QED
          BY <4>1, <5>3 DEF SelectedSong
      <4>2. CASE Top.kind # "Home"
        <5>1. CASE Top.kind \in Markable \cup {"Queue"} /\ ~Top.editing /\ HasRow
          <6>1. Top.rows \in Seq(Songs) /\ Row \in DOMAIN Top.rows
            BY <1>1, <5>1, RowTypes, RowFacts DEF Markable
          <6>2. QED
            BY <4>2, <5>1, <6>1 DEF SelectedSong
        <5>2. CASE ~(Top.kind \in Markable \cup {"Queue"} /\ ~Top.editing /\ HasRow)
          BY <4>2, <5>2 DEF SelectedSong
        <5>3. QED
          BY <5>1, <5>2
      <4>3. QED
        BY <4>1, <4>2
    <3>2. IsFiniteSet(SelectedSong)
      BY <3>1, NamesAssumption, FS_Subset
    <3>3. SetToSeq(SelectedSong) \in Seq(SelectedSong)
      BY <3>2, SetToSeqFacts
    <3>4. SetToSeq(SelectedSong) \in Seq(Songs)
      BY <3>1, <3>3
    <3>5. QED
      BY <2>2, <3>4
  <2>3. QED
    BY <2>1, <2>2
<1>4. rows \in Seq(DOMAIN contents)
  <2>1. IsFiniteSet(DOMAIN contents)
    BY <1>1, NamesAssumption, FS_Subset DEF PlaylistsOK
  <2>2. QED
    BY <2>1, SetToSeqFacts
<1>5. ToSet(rows) \subseteq DOMAIN contents /\ rows \in Seq(Playlists)
  BY <1>1, <1>4 DEF ToSet, PlaylistsOK
<1> HIDE DEF ids, rows
<1>8. /\ Fresh(screen, "PlaylistPicker", rows) /\ rows \in RowsOf("PlaylistPicker")
      /\ screen.playlist = NoPlaylist /\ screen.sort = "none" /\ ~screen.editing
  BY <1>3, <1>5, PickerFacts
<1> HIDE DEF screen
<1>9. UNCHANGED <<show_help, prompt>> /\ filter_editing' = FALSE /\ failed' \in Nat
  BY <1>1, ReachedFacts DEF Quiet, modeVars
<1>10. QED
  BY <1>1, <1>2, <1>5, <1>8, <1>9, OpenStep

-----------------------------------------------------------------------------
(* Steps that change the playlists of the service *)

LEMMA UnmarkedFields ==
  ASSUME NEW screen \in Screens
  PROVE  /\ Unmarked(screen).kind = screen.kind /\ Unmarked(screen).rows = screen.rows
         /\ Unmarked(screen).playlist = screen.playlist /\ Unmarked(screen).sort = screen.sort
         /\ Unmarked(screen).editing = screen.editing /\ Unmarked(screen).marked = {}
BY DEF Screens, Unmarked

\* Songs added to a playlist come behind those that a screen shows.
LEMMA ShowsGrown ==
  ASSUME NEW screen, Sound(screen), NEW k, NEW n, Placed(screen, k, n),
         NEW old, PlaylistsOK(old), NEW grown, PlaylistsOK(grown), DOMAIN old \subseteq DOMAIN grown,
         \A p \in DOMAIN old : IsPrefix(old[p], grown[p]), Shows(screen, old)
  PROVE  Shows(screen, grown)
<1>1. screen.kind \in {"PlaylistList", "PlaylistPicker"} => ToSet(screen.rows) \subseteq DOMAIN grown
  BY DEF Shows
<1>2. ASSUME screen.playlist # NoPlaylist
      PROVE  /\ screen.playlist \in DOMAIN grown
             /\ IsPrefix(screen.rows, grown[screen.playlist])
  <2> DEFINE p == screen.playlist
             rows == screen.rows
  <2>1. p \in DOMAIN old /\ IsPrefix(rows, old[p]) /\ IsPrefix(old[p], grown[p]) /\ p \in DOMAIN grown
    BY <1>2 DEF Shows
  <2>2. screen.kind = "SongList"
    BY <1>2 DEF Placed
  <2>3. rows \in Seq(Songs)
    BY <2>2 DEF Sound, RowsOf, NamesOf
  <2>4. old[p] \in Seq(Songs) /\ grown[p] \in Seq(Songs)
    BY <2>1 DEF PlaylistsOK
  <2>5. Len(rows) <= Len(old[p]) /\ \A i \in 1..Len(rows) : rows[i] = old[p][i]
    BY <2>1, <2>3, <2>4, PrefixFacts
  <2>6. Len(old[p]) <= Len(grown[p]) /\ \A i \in 1..Len(old[p]) : old[p][i] = grown[p][i]
    BY <2>1, <2>4, PrefixFacts
  <2>7. Len(rows) <= Len(grown[p]) /\ \A i \in 1..Len(rows) : rows[i] = grown[p][i]
    BY <2>3, <2>4, <2>5, <2>6
  <2>8. IsPrefix(rows, grown[p])
    BY <2>3, <2>4, <2>7, PrefixFacts
  <2>9. QED
    BY <2>1, <2>8
<1>3. QED
  BY <1>1, <1>2 DEF Shows

LEMMA CreateFacts ==
  ASSUME PlaylistsOK(contents), NEW songs \in Seq(Songs), CreatePlaylist(songs)
  PROVE  /\ PlaylistsOK(contents') /\ DOMAIN contents \subseteq DOMAIN contents'
         /\ \A p \in DOMAIN contents : IsPrefix(contents[p], contents'[p])
<1>1. PICK p \in Playlists \ DOMAIN contents :
         contents' = [q \in DOMAIN contents \cup {p} |-> IF q = p THEN songs ELSE contents[q]]
  BY DEF CreatePlaylist
<1>2. \A q \in DOMAIN contents : contents[q] \in Seq(Songs) /\ contents'[q] = contents[q]
  BY <1>1 DEF PlaylistsOK
<1>3. PlaylistsOK(contents')
  BY <1>1, <1>2 DEF PlaylistsOK
<1>4. \A q \in DOMAIN contents : IsPrefix(contents[q], contents'[q])
  BY <1>2, PrefixFacts
<1>5. QED
  BY <1>1, <1>3, <1>4

LEMMA AddToPlaylistStep == TuiInv /\ AddToPlaylist => TuiInv'
<1> SUFFICES ASSUME TuiInv, AddToPlaylist
             PROVE  TuiInv'
  OBVIOUS
<1> DEFINE p == Top.rows[Top.selected + 1]
           below == Front(stack)
           n == Len(stack) - 1
<1>1. StackInv /\ PlaylistsOK(contents)
  BY DEF TuiInv
<1>2. /\ EnterKey /\ Reached /\ Top.kind = "PlaylistPicker" /\ Top.selected < Len(Top.rows)
      /\ UNCHANGED <<show_help, prompt>> /\ filter_editing' = FALSE
      /\ show_help' = FALSE /\ prompt' = NoPrompt
  BY ReachedFacts DEF AddToPlaylist, EnterKey
<1>3. PICK ok \in SUBSET DOMAIN Top.ids :
         /\ contents' = [contents EXCEPT ![p] = @ \o At(Top.ids, ok)]
         /\ failed' = Len(Top.ids) - Cardinality(ok)
         /\ stack' = [below EXCEPT ![Len(below)] = Unmarked(@)]
  BY DEF AddToPlaylist
<1>4. Top.ids \in Seq(Songs) /\ Top.rows \in Seq(Playlists) /\ Top.selected \in Nat
  BY <1>1, <1>2, RowTypes
<1>5. failed' \in Nat
  <2>1. Cardinality(ok) \in Nat /\ Cardinality(ok) <= Len(Top.ids) /\ Len(Top.ids) \in Nat
    BY <1>4, IndexSets
  <2>2. QED
    BY <1>3, <2>1
<1>6. p \in DOMAIN contents
  <2>1. ToSet(Top.rows) \subseteq DOMAIN contents
    BY <1>1, <1>2, TopFacts DEF Shows
  <2>2. Top.selected + 1 \in DOMAIN Top.rows
    BY <1>2, <1>4
  <2>3. QED
    BY <2>1, <2>2 DEF ToSet
<1> HIDE DEF p
<1>7. /\ PlaylistsOK(contents') /\ DOMAIN contents \subseteq DOMAIN contents'
      /\ \A q \in DOMAIN contents : IsPrefix(contents[q], contents'[q])
  <2> DEFINE added == At(Top.ids, ok)
             longer == contents[p] \o added
  <2>1. added \in Seq(Songs)
    BY <1>4, AtFacts
  <2>2. \A q \in DOMAIN contents : contents[q] \in Seq(Songs)
    BY <1>1 DEF PlaylistsOK
  <2> HIDE DEF added
  <2>3. longer \in Seq(Songs) /\ IsPrefix(contents[p], longer)
    <3>1. contents[p] \in Seq(Songs)
      BY <1>6, <2>2
    <3>2. /\ longer \in Seq(Songs) /\ Len(longer) = Len(contents[p]) + Len(added)
          /\ \A i \in 1..Len(contents[p]) : longer[i] = contents[p][i]
      BY <2>1, <3>1, ConcatProperties
    <3>3. Len(contents[p]) <= Len(longer)
      BY <2>1, <3>1, <3>2
    <3>4. QED
      BY <3>1, <3>2, <3>3, PrefixFacts
  <2>4. DOMAIN contents' = DOMAIN contents /\ contents' = [contents EXCEPT ![p] = longer]
    BY <1>3 DEF added
  <2> HIDE DEF longer
  <2>5. \A q \in DOMAIN contents : contents'[q] = IF q = p THEN longer ELSE contents[q]
    BY <2>4
  <2>6. \A q \in DOMAIN contents : contents'[q] \in Seq(Songs) /\ IsPrefix(contents[q], contents'[q])
    <3>1. ASSUME NEW q \in DOMAIN contents
          PROVE  contents[q] \in Seq(Songs) /\ IsPrefix(contents[q], contents[q])
      <4>1. contents[q] \in Seq(Songs) /\ Len(contents[q]) <= Len(contents[q])
        BY <2>2
      <4>2. QED
        BY <4>1, PrefixFacts
    <3>2. QED
      BY <2>3, <2>5, <3>1
  <2>7. PlaylistsOK(contents')
    BY <1>1, <2>4, <2>6 DEF PlaylistsOK
  <2>8. QED
    BY <2>4, <2>6, <2>7
<1>8. Len(stack) > 1 /\ n \in Nat \ {0}
  <2>1. Placed(Top, Len(stack), Len(stack)) /\ Len(stack) \in Nat \ {0}
    BY <1>1, TopFacts
  <2>2. Len(stack) # 1
    BY <1>2, <2>1 DEF Placed, Roots
  <2>3. \A m \in Nat \ {0} : m # 1 => m > 1 /\ m - 1 \in Nat \ {0}
    OBVIOUS
  <2>4. QED
    BY <2>1, <2>2, <2>3, Zenon
<1>9. /\ below \in Seq(Screens) /\ Len(below) = n
      /\ \A k \in 1..n : /\ below[k] = stack[k] /\ Sound(stack[k])
                         /\ Placed(stack[k], k, n) /\ Shows(stack[k], contents)
  BY <1>1, <1>8, PopTop
<1> HIDE DEF below, n
<1> DEFINE screen == Unmarked(below[n])
<1>10. n \in 1..n
  BY <1>8
<1>11. /\ Sound(screen) /\ screen.kind = below[n].kind /\ screen.rows = below[n].rows
       /\ screen.playlist = below[n].playlist /\ screen.sort = below[n].sort
       /\ screen.editing = below[n].editing /\ screen.marked = {}
  BY <1>9, <1>10, UnmarkedFacts
<1>12. stack' = [below EXCEPT ![n] = screen]
  BY <1>3, <1>9
<1> HIDE DEF screen
<1>13. /\ stack' \in Seq(Screens) /\ Len(stack') = n
       /\ \A k \in 1..n : stack'[k] = IF k = n THEN screen ELSE below[k]
  <2>1. screen \in Screens
    BY <1>11 DEF Sound
  <2>2. n \in 1..Len(below)
    BY <1>9, <1>10
  <2>3. /\ stack' \in Seq(Screens) /\ Len(stack') = Len(below)
        /\ \A k \in 1..Len(below) : stack'[k] = IF k = n THEN screen ELSE below[k]
    BY <1>9, <1>12, <2>1, <2>2, ExceptSeq
  <2>4. QED
    BY <1>9, <2>3
<1>14. DOMAIN stack' = 1..n /\ stack' # <<>>
  <2>1. DOMAIN stack' = 1..Len(stack') /\ Len(<<>>) = 0
    BY <1>13, LenProperties, EmptySeq
  <2>2. QED
    BY <1>8, <1>13, <2>1
<1>15. ASSUME NEW k \in 1..n
       PROVE  Sound(stack'[k]) /\ Placed(stack'[k], k, n) /\ Shows(stack'[k], contents')
  <2>1. Sound(below[k]) /\ Placed(below[k], k, n) /\ Shows(below[k], contents')
    <3>1. Sound(below[k]) /\ Placed(below[k], k, n) /\ Shows(below[k], contents)
      BY <1>9
    <3>2. QED
      BY <1>1, <1>7, <3>1, ShowsGrown
  <2>2. CASE k # n
    <3>1. stack'[k] = below[k]
      BY <1>13, <2>2
    <3>2. QED
      BY <2>1, <3>1
  <2>3. CASE k = n
    <3>1. stack'[k] = screen
      BY <1>13, <2>3
    <3>2. Placed(screen, k, n)
      BY <1>11, <2>1, <2>3 DEF Placed
    <3>3. Shows(screen, contents')
      BY <1>11, <2>1, <2>3 DEF Shows
    <3>4. QED
      BY <1>11, <3>1, <3>2, <3>3
  <2>4. QED
    BY <2>2, <2>3
<1>16. StackInv'
  BY <1>13, <1>14, <1>15 DEF StackInv
<1>17. ModeInv'
  BY <1>2, NoOverlay
<1>18. QED
  BY <1>5, <1>7, <1>16, <1>17 DEF TuiInv

\* What `d` on a playlist's songs is about to remove.
LEMMA RemovalFacts ==
  ASSUME StackInv, PlaylistsOK(contents), Top.kind = "SongList", Top.playlist # NoPlaylist,
         Top.marked # {} \/ HasRow
  PROVE  /\ Top.playlist \in DOMAIN contents
         /\ contents[Top.playlist] \in Seq(Songs)
         /\ RowsToRemove = MeantRows(Top.playlist)
         /\ RowsToRemove \in SUBSET DOMAIN contents[Top.playlist]
         /\ IsFiniteSet(RowsToRemove)
<1> DEFINE p == Top.playlist
           rows == Top.rows
<1>1. p \in DOMAIN contents /\ IsPrefix(rows, contents[p])
  BY TopFacts DEF Shows
<1>2. contents[p] \in Seq(Songs) /\ rows \in Seq(Songs)
  BY <1>1, RowTypes DEF PlaylistsOK
<1>3. Len(rows) <= Len(contents[p]) /\ \A i \in 1..Len(rows) : rows[i] = contents[p][i]
  BY <1>1, <1>2, PrefixFacts
<1>4. DOMAIN rows = 1..Len(rows) /\ DOMAIN contents[p] = 1..Len(contents[p])
  BY <1>2
<1>5. HasRow => Row \in DOMAIN rows
  BY RowFacts
<1>6. RowsToRemove \in SUBSET DOMAIN contents[p] /\ RowsToRemove = MeantRows(p)
  <2>1. \A i \in DOMAIN contents[p] : i <= Len(rows) <=> i \in DOMAIN rows
    BY <1>2, <1>4
  <2>2. DOMAIN rows \subseteq DOMAIN contents[p]
    BY <1>2, <1>3, <1>4
  <2>3. CASE Top.marked = {}
    BY <1>5, <2>2, <2>3 DEF RowsToRemove, MeantRows
  <2>4. CASE Top.marked # {}
    <3>1. RowsToRemove = {i \in DOMAIN rows : rows[i] \in Top.marked}
      BY <2>4 DEF RowsToRemove, MarkedRows
    <3>2. MeantRows(p) = {i \in DOMAIN contents[p] : i <= Len(rows) /\ contents[p][i] \in Top.marked}
      BY <2>4 DEF MeantRows
    <3>3. \A i \in DOMAIN rows : rows[i] = contents[p][i]
      BY <1>3, <1>4
    <3>4. QED
      BY <2>1, <2>2, <3>1, <3>2, <3>3
  <2>5. QED
    BY <2>3, <2>4
<1>7. IsFiniteSet(RowsToRemove)
  BY <1>2, <1>6, IndexSets
<1>8. QED
  BY <1>1, <1>2, <1>6, <1>7

LEMMA RemoveFromPlaylistStep == TuiInv /\ RemoveFromPlaylist => TuiInv'
<1> SUFFICES ASSUME TuiInv, RemoveFromPlaylist
             PROVE  TuiInv'
  OBVIOUS
<1> DEFINE p == Top.playlist
<1>1. StackInv /\ PlaylistsOK(contents) /\ Sound(Top)
  BY TopFacts DEF TuiInv
<1>2. /\ KeyTable /\ Reached /\ Top.kind = "SongList" /\ p # NoPlaylist
      /\ Top.marked # {} \/ HasRow
      /\ show_help' = FALSE /\ prompt' = NoPrompt /\ filter_editing' = FALSE /\ ~Top.editing
  BY ReachedFacts DEF RemoveFromPlaylist, KeyTable, modeVars
<1>3. PICK ok \in SUBSET RowsToRemove :
         LET left == RemoveInTurn(contents[p], RemovalOrder(ok)) IN
         /\ contents' = [contents EXCEPT ![p] = left]
         /\ failed' = Cardinality(RowsToRemove \ ok)
         /\ \E screen \in RefreshedPlaylist(Top, left) : SetTop(Unmarked(screen))
  BY DEF RemoveFromPlaylist
<1> DEFINE left == RemoveInTurn(contents[p], RemovalOrder(ok))
<1>4. /\ p \in DOMAIN contents /\ contents[p] \in Seq(Songs)
      /\ RowsToRemove \in SUBSET DOMAIN contents[p] /\ IsFiniteSet(RowsToRemove)
  BY <1>1, <1>2, RemovalFacts
<1>5. left \in Seq(Songs)
  <2>1. ok \in SUBSET DOMAIN contents[p]
    BY <1>4
  <2>2. left = At(contents[p], DOMAIN contents[p] \ ok)
    BY <1>4, <2>1, RemovesNamed
  <2>3. (DOMAIN contents[p] \ ok) \in SUBSET DOMAIN contents[p]
    OBVIOUS
  <2>4. At(contents[p], DOMAIN contents[p] \ ok) \in Seq(Songs)
    BY <1>4, <2>3, AtFacts
  <2>5. QED
    BY <2>2, <2>4
<1>6. failed' \in Nat
  <2>1. IsFiniteSet(RowsToRemove \ ok)
    BY <1>4, FS_Difference
  <2>2. QED
    BY <1>3, <2>1, FS_CardinalityType
<1>7. contents' = [contents EXCEPT ![p] = left] /\ \E s \in RefreshedPlaylist(Top, left) : SetTop(Unmarked(s))
  BY <1>3
<1> HIDE DEF left
<1>8. /\ DOMAIN contents' = DOMAIN contents /\ contents'[p] = left
      /\ \A q \in DOMAIN contents : q # p => contents'[q] = contents[q]
  BY <1>4, <1>7
<1>9. PlaylistsOK(contents')
  BY <1>1, <1>5, <1>8, <1>7 DEF PlaylistsOK
<1>10. PICK rows \in {left, <<>>} : SetTop(Unmarked(Refreshed(Top, rows)))
  BY <1>7 DEF RefreshedPlaylist
<1>11. rows \in Seq(Songs) /\ IsPrefix(rows, left)
  <2>1. <<>> \in Seq(Songs) /\ Len(<<>>) = 0 /\ Len(left) \in Nat
    BY <1>5
  <2>2. IsPrefix(left, left)
    BY <1>5, <2>1, PrefixFacts
  <2>3. IsPrefix(<<>>, left)
    <3> DEFINE none == <<>>
    <3>1. none \in Seq(Songs) /\ Len(none) <= Len(left) /\ \A k \in 1..Len(none) : none[k] = left[k]
      BY <2>1
    <3> HIDE DEF none
    <3>2. IsPrefix(none, left)
      BY <1>5, <3>1, PrefixFacts
    <3>3. QED
      BY <3>2 DEF none
  <2>4. QED
    BY <1>5, <2>1, <2>2, <2>3
<1> DEFINE refreshed == Refreshed(Top, rows)
           screen == Unmarked(refreshed)
<1>12. Rerowed(refreshed, Top, rows)
  BY <1>1, <1>2, <1>11, RefreshedFacts
<1> HIDE DEF refreshed
<1>13. /\ Sound(screen) /\ screen.kind = Top.kind /\ screen.rows = rows
       /\ screen.playlist = p /\ screen.sort = Top.sort /\ screen.editing = Top.editing
  BY <1>12, UnmarkedFields DEF Rerowed
<1>14. SetTop(screen)
  BY <1>10 DEF refreshed
<1> HIDE DEF screen
<1>15. SameScreen(screen)
  BY <1>2, <1>13 DEF SameScreen
<1>16. Shows(screen, contents')
  BY <1>2, <1>4, <1>8, <1>11, <1>13 DEF Shows
<1>17. \A k \in DOMAIN stack : k # Len(stack) => Shows(stack[k], contents')
  <2>1. ASSUME NEW k \in DOMAIN stack, k # Len(stack)
        PROVE  Shows(stack[k], contents')
    <3>1. Placed(stack[k], k, Len(stack)) /\ Shows(stack[k], contents)
      BY <1>1 DEF StackInv
    <3>2. Len(stack) = 2
      BY <1>1, <1>2, TopFacts DEF Placed
    <3>3. stack[k].playlist = NoPlaylist
      BY <2>1, <3>1, <3>2 DEF Placed
    <3>4. QED
      BY <1>8, <3>1, <3>3 DEF Shows
  <2>2. QED
    BY <2>1
<1>18. StackInv'
  BY <1>1, <1>13, <1>14, <1>15, <1>16, <1>17, EditTop
<1>19. ModeInv'
  BY <1>2, NoOverlay
<1>20. QED
  BY <1>6, <1>9, <1>18, <1>19 DEF TuiInv

LEMMA DeletePlaylistStep == TuiInv /\ DeletePlaylist => TuiInv'
<1> SUFFICES ASSUME TuiInv, DeletePlaylist
             PROVE  TuiInv'
  OBVIOUS
<1>1. KeyTable /\ Reached /\ UNCHANGED <<show_help, prompt>> /\ failed' = 0 /\ SwitchTab("PlaylistList")
  BY DEF DeletePlaylist, KeyTable
<1>2. show_help' = FALSE /\ prompt' = NoPrompt /\ failed' \in Nat
  BY <1>1, ReachedFacts
<1>3. PlaylistsOK(contents')
  <2>1. contents' = [p \in DOMAIN contents \ {Top.rows[Row]} |-> contents[p]]
    BY DEF DeletePlaylist
  <2>2. PlaylistsOK(contents)
    BY DEF TuiInv
  <2>3. QED
    BY <2>1, <2>2 DEF PlaylistsOK
<1>4. "PlaylistList" \in Roots
  BY DEF Roots
<1>5. QED
  BY <1>1, <1>2, <1>3, <1>4, SwitchTabStep

\* Steps of a prompt that leave the screens alone.
LEMMA PromptStep ==
  ASSUME TuiInv, UNCHANGED <<stack, filter_editing, show_help, contents>>, failed' = 0,
         ~show_help, ~filter_editing, ~SearchEditing,
         prompt' \in [action : {"none", "new", "rename", "save"},
                      id : Playlists \cup {NoPlaylist}, named : BOOLEAN],
         prompt'.action \in {"new", "rename"} => Top.kind = "PlaylistList",
         prompt'.action = "rename" => prompt'.id \in ToSet(Top.rows),
         prompt'.action = "save" => Top.kind = "Queue"
  PROVE  TuiInv'
<1>1. StackInv' /\ PlaylistsOK(contents') /\ failed' \in Nat
  BY DEF TuiInv, StackInv
<1>2. Top' = Top /\ SearchEditing' = SearchEditing
  BY DEF Top, SearchEditing
<1>3. filter_editing \in BOOLEAN /\ show_help \in BOOLEAN
  BY DEF TuiInv, ModeInv
<1>4. filter_editing' = FALSE /\ show_help' = FALSE /\ ~SearchEditing'
  BY <1>2, <1>3
<1>5. ModeInv'
  BY <1>2, <1>4 DEF ModeInv
<1>6. QED
  BY <1>1, <1>5 DEF TuiInv

LEMMA OpenPromptStep == TuiInv /\ OpenPrompt => TuiInv'
<1> SUFFICES ASSUME TuiInv, OpenPrompt
             PROVE  TuiInv'
  OBVIOUS
<1>1. /\ KeyTable /\ Reached /\ UNCHANGED <<stack, filter_editing, show_help, contents>> /\ failed' = 0
      /\ StackInv
  BY DEF OpenPrompt, KeyTable, TuiInv
<1>2. ~show_help /\ ~filter_editing /\ ~SearchEditing
  BY <1>1, ReachedFacts
<1>3. /\ prompt' \in [action : {"none", "new", "rename", "save"},
                      id : Playlists \cup {NoPlaylist}, named : BOOLEAN]
      /\ prompt'.action \in {"new", "rename"} => Top.kind = "PlaylistList"
      /\ prompt'.action = "rename" => prompt'.id \in ToSet(Top.rows)
      /\ prompt'.action = "save" => Top.kind = "Queue"
  <2>1. CASE Top.kind = "PlaylistList" /\ Prompt("new", NoPlaylist, FALSE)
    BY <2>1 DEF Prompt
  <2>2. CASE Top.kind = "PlaylistList" /\ HasRow /\ Prompt("rename", Top.rows[Row], TRUE)
    <3>1. Top.rows \in Seq(Playlists) /\ Row \in DOMAIN Top.rows
      BY <1>1, <2>2, RowTypes, RowFacts
    <3>2. Top.rows[Row] \in Playlists /\ Top.rows[Row] \in ToSet(Top.rows)
      BY <3>1 DEF ToSet
    <3>3. prompt' = [action |-> "rename", id |-> Top.rows[Row], named |-> TRUE]
      BY <2>2 DEF Prompt
    <3>4. QED
      BY <2>2, <3>2, <3>3
  <2>3. CASE Top.kind = "Queue" /\ Prompt("save", NoPlaylist, FALSE)
    BY <2>3 DEF Prompt
  <2>4. QED
    BY <2>1, <2>2, <2>3 DEF OpenPrompt
<1>4. QED
  BY <1>1, <1>2, <1>3, PromptStep

LEMMA PromptShown ==
  ASSUME TuiInv, prompt # NoPrompt
  PROVE  /\ ~show_help /\ ~filter_editing /\ ~SearchEditing
         /\ show_help = FALSE /\ filter_editing = FALSE
BY DEF TuiInv, ModeInv

LEMMA PromptKeySteps == TuiInv /\ (TypePrompt \/ ClosePrompt) => TuiInv'
<1> SUFFICES ASSUME TuiInv, TypePrompt \/ ClosePrompt
             PROVE  TuiInv'
  OBVIOUS
<1>1. /\ prompt # NoPrompt /\ UNCHANGED <<stack, filter_editing, show_help, contents>> /\ failed' = 0
  BY DEF TypePrompt, ClosePrompt
<1>2. ~show_help /\ ~filter_editing /\ ~SearchEditing
  BY <1>1, PromptShown
<1>3. /\ prompt \in [action : {"none", "new", "rename", "save"},
                     id : Playlists \cup {NoPlaylist}, named : BOOLEAN]
      /\ prompt.action \in {"new", "rename"} => Top.kind = "PlaylistList"
      /\ prompt.action = "rename" => prompt.id \in ToSet(Top.rows)
      /\ prompt.action = "save" => Top.kind = "Queue"
  BY DEF TuiInv, ModeInv
<1>4. CASE TypePrompt
  <2>1. PICK named \in BOOLEAN : prompt' = [prompt EXCEPT !.named = named]
    BY <1>4 DEF TypePrompt
  <2>2. /\ prompt' \in [action : {"none", "new", "rename", "save"},
                        id : Playlists \cup {NoPlaylist}, named : BOOLEAN]
        /\ prompt'.action = prompt.action /\ prompt'.id = prompt.id
    BY <1>3, <2>1
  <2>3. QED
    BY <1>1, <1>2, <1>3, <2>2, PromptStep
<1>5. CASE ClosePrompt
  <2>1. prompt' = [action |-> "none", id |-> NoPlaylist, named |-> FALSE]
    BY <1>5 DEF ClosePrompt, NoPrompt
  <2>2. /\ prompt' \in [action : {"none", "new", "rename", "save"},
                        id : Playlists \cup {NoPlaylist}, named : BOOLEAN]
        /\ prompt'.action = "none"
    BY <2>1
  <2>3. QED
    BY <1>1, <1>2, <2>2, PromptStep
<1>6. QED
  BY <1>4, <1>5

LEMMA SubmitPromptStep == TuiInv /\ SubmitPrompt => TuiInv'
<1> SUFFICES ASSUME TuiInv, SubmitPrompt
             PROVE  TuiInv'
  OBVIOUS
<1>1. prompt # NoPrompt /\ prompt' = NoPrompt /\ UNCHANGED show_help /\ failed' = 0
  BY DEF SubmitPrompt
<1>2. /\ show_help' = FALSE /\ filter_editing = FALSE /\ failed' \in Nat
      /\ StackInv /\ PlaylistsOK(contents) /\ "PlaylistList" \in Roots
  BY <1>1, PromptShown DEF TuiInv, Roots
<1>3. CASE CreatePlaylist(<<>>) /\ SwitchTab("PlaylistList")
  <2>1. <<>> \in Seq(Songs)
    OBVIOUS
  <2>2. PlaylistsOK(contents')
    BY <1>2, <1>3, <2>1, CreateFacts
  <2>3. QED
    BY <1>1, <1>2, <1>3, <2>2, SwitchTabStep
<1>4. CASE UNCHANGED contents /\ SwitchTab("PlaylistList")
  BY <1>1, <1>2, <1>4, SwitchTabStep
<1>5. CASE Top.kind = "Queue" /\ CreatePlaylist(Top.rows) /\ UNCHANGED <<stack, filter_editing>>
  <2>1. Top.rows \in Seq(Songs)
    BY <1>2, <1>5, RowTypes
  <2>2. /\ PlaylistsOK(contents') /\ DOMAIN contents \subseteq DOMAIN contents'
        /\ \A p \in DOMAIN contents : IsPrefix(contents[p], contents'[p])
    BY <1>2, <1>5, <2>1, CreateFacts
  <2>3. ASSUME NEW k \in DOMAIN stack
        PROVE  Shows(stack[k], contents')
    <3>1. Sound(stack[k]) /\ Placed(stack[k], k, Len(stack)) /\ Shows(stack[k], contents)
      BY <1>2 DEF StackInv
    <3>2. QED
      BY <1>2, <2>2, <3>1, ShowsGrown
  <2>4. StackInv'
    BY <1>2, <1>5, <2>3 DEF StackInv
  <2>5. filter_editing' = FALSE
    BY <1>2, <1>5
  <2>6. ModeInv'
    BY <1>1, <1>2, <2>5, NoOverlay
  <2>7. QED
    BY <1>2, <2>2, <2>4, <2>6 DEF TuiInv
<1>6. QED
  BY <1>3, <1>4, <1>5 DEF SubmitPrompt

-----------------------------------------------------------------------------
(* The theorems *)

LEMMA TuiStep == TuiInv /\ [Next]_vars => TuiInv'
<1> SUFFICES ASSUME TuiInv, [Next]_vars
             PROVE  TuiInv'
  OBVIOUS
<1>1. CASE ToggleHelp
  BY <1>1, ToggleHelpStep
<1>2. CASE TabKey \/ Slash
  BY <1>2, TabSteps
<1>3. CASE Back
  BY <1>3, BackStep
<1>4. ASSUME NEW delta \in {-1, 1}, MoveSelection(delta)
      PROVE  TuiInv'
  BY <1>4, MoveSelectionStep
<1>5. CASE Typing
  BY <1>5, TypeQueryStep, LeaveQueryStep, RunSearchStep, FilterSteps DEF Typing
<1>6. CASE Prompting
  BY <1>6, OpenPromptStep, PromptKeySteps, SubmitPromptStep DEF Prompting
<1>7. CASE Opening
  BY <1>7, OpenRowStep, EnterStaysStep, OpenSimilarStep, ExpandHomeSectionStep, ShowInfoStep,
     OpenPlaylistPickerStep DEF Opening
<1>8. CASE Editing
  <2>1. ASSUME NEW delta \in {-1, 1}, MoveQueueItem(delta)
        PROVE  TuiInv'
    BY <2>1, MoveQueueItemStep
  <2>2. CASE ToggleMark \/ ToggleAlbumSort \/ UseMarked
    BY <2>2, ToggleMarkStep, ToggleAlbumSortStep, UseMarkedStep
  <2>3. CASE AddToPlaylist \/ RemoveFromPlaylist \/ DeletePlaylist
    BY <2>3, AddToPlaylistStep, RemoveFromPlaylistStep, DeletePlaylistStep
  <2>4. CASE EditQueue
    BY <2>4, EditQueueStep
  <2>5. QED
    BY <1>8, <2>1, <2>2, <2>3, <2>4 DEF Editing
<1>9. CASE UNCHANGED vars
  <2>1. /\ stack' = stack /\ contents' = contents /\ failed' = failed
        /\ filter_editing' = filter_editing /\ show_help' = show_help /\ prompt' = prompt
    BY <1>9 DEF vars, modeVars
  <2>2. Top' = Top /\ (SearchEditing' <=> SearchEditing)
    BY <2>1 DEF Top, SearchEditing
  <2>3. StackInv' /\ PlaylistsOK(contents')
    BY <2>1 DEF TuiInv, StackInv
  <2>4. ModeInv'
    BY <2>1, <2>2 DEF TuiInv, ModeInv
  <2>5. QED
    BY <2>1, <2>3, <2>4 DEF TuiInv
<1>10. QED
  BY <1>1, <1>2, <1>3, <1>4, <1>5, <1>6, <1>7, <1>8, <1>9 DEF Next

\* Whatever the keys, and whatever the service answers: the stack, its
\* screens, their rows and what they show of the playlists, and who takes the
\* next key, are as TuiInv says.
THEOREM TuiInvariant == Spec => []TuiInv
<1>1. Init => TuiInv
  BY InitStep
<1>2. TuiInv /\ [Next]_vars => TuiInv'
  BY TuiStep
<1>3. QED
  BY <1>1, <1>2, PTL DEF Spec

\* Every variable has its type; at the bottom of the stack is a root of a tab,
\* and above it only what opens from a list, none of it sorted.
THEOREM StackTypes == Spec => []TypeOK
<1>1. TuiInv => TypeOK
  <2> SUFFICES ASSUME TuiInv
               PROVE  TypeOK
    OBVIOUS
  <2>1. ASSUME NEW k \in DOMAIN stack
        PROVE  /\ ScreenOK(stack[k])
               /\ IF k = 1 THEN stack[k].kind \in Roots
                  ELSE /\ stack[k].kind \in {"AlbumList", "SongList", "PlaylistPicker", "Info"}
                       /\ stack[k].sort = "none"
    <3>1. Sound(stack[k]) /\ Placed(stack[k], k, Len(stack))
      BY DEF TuiInv, StackInv
    <3>2. ScreenOK(stack[k])
      BY <3>1 DEF Sound, Screens, ScreenOK
    <3>3. QED
      BY <3>1, <3>2 DEF Placed
  <2>2. QED
    BY <2>1 DEF TypeOK, TuiInv, StackInv, ModeInv, PlaylistsOK
<1>2. QED
  BY <1>1, TuiInvariant, PTL

\* At most one of the help page, a prompt, a query and a filter takes the
\* keys, and it belongs to the screen on top (event_loop, submit_prompt).
THEOREM OneOverlay == Spec => []OneTakesKeys
<1>1. TuiInv => OneTakesKeys
  <2> SUFFICES ASSUME TuiInv
               PROVE  OneTakesKeys
    OBVIOUS
  <2>1. \A k \in DOMAIN stack : stack[k].editing => k = Len(stack)
    BY DEF TuiInv, StackInv, Placed
  <2>2. QED
    BY <2>1 DEF OneTakesKeys, TuiInv, ModeInv
<1>2. QED
  BY <1>1, TuiInvariant, PTL

\* On every screen of the stack the cursor is on a row as long as there are
\* rows and no filter, and what is marked is a row: no key slices a list past
\* its end, or plays marks of rows that are gone.
THEOREM CursorAndMarks == Spec => []SelectionOnRows
<1>1. TuiInv => SelectionOnRows
  BY DEF TuiInv, StackInv, Sound, SelectionOnRows
<1>2. QED
  BY <1>1, TuiInvariant, PTL

\* The k-th row of a playlist's songs is the k-th song of that playlist, so
\* that a removal by index removes the song that is shown.
THEOREM RowsArePlaylistSongs == Spec => []RowsArePlaylist
<1>1. TuiInv => RowsArePlaylist
  BY DEF TuiInv, StackInv, Shows, RowsArePlaylist
<1>2. QED
  BY <1>1, TuiInvariant, PTL

\* `d` takes from the playlist shown only rows whose song is marked, or the
\* one under the cursor, and all of them but those its message counts as
\* failed; the other playlists stay as they are, and no other key on that
\* screen changes a playlist (delete_selected).
THEOREM RemovalIsMeant == Spec => RemovesWhatIsMarked
<1> DEFINE Meant ==
             LET p == Top.playlist IN
             /\ p # NoPlaylist
             /\ \E gone \in SUBSET MeantRows(p) :
                   /\ contents' = [contents EXCEPT ![p] = Without(@, gone)]
                   /\ Cardinality(MeantRows(p) \ gone) = failed'
<1>1. TuiInv /\ [Next]_vars => (Top.kind = "SongList" /\ contents' # contents => Meant)
  <2> SUFFICES ASSUME TuiInv, [Next]_vars, Top.kind = "SongList", contents' # contents
               PROVE  Meant
    OBVIOUS
  <2>1. CASE RemoveFromPlaylist
    <3> DEFINE p == Top.playlist
    <3>1. StackInv /\ PlaylistsOK(contents) /\ p # NoPlaylist /\ (Top.marked # {} \/ HasRow)
      BY <2>1 DEF RemoveFromPlaylist, TuiInv
    <3>2. PICK ok \in SUBSET RowsToRemove :
             LET left == RemoveInTurn(contents[p], RemovalOrder(ok)) IN
             /\ contents' = [contents EXCEPT ![p] = left]
             /\ failed' = Cardinality(RowsToRemove \ ok)
             /\ \E screen \in RefreshedPlaylist(Top, left) : SetTop(Unmarked(screen))
      BY <2>1 DEF RemoveFromPlaylist
    <3>3. /\ contents[p] \in Seq(Songs) /\ RowsToRemove = MeantRows(p)
          /\ RowsToRemove \in SUBSET DOMAIN contents[p]
      BY <3>1, RemovalFacts
    <3>4. ok \in SUBSET DOMAIN contents[p]
      BY <3>3
    <3>5. RemoveInTurn(contents[p], RemovalOrder(ok)) = Without(contents[p], ok)
      BY <3>3, <3>4, RemovesNamed DEF Without
    <3>6. contents' = [contents EXCEPT ![p] = Without(@, ok)]
      BY <3>2, <3>5
    <3>7. QED
      BY <3>1, <3>2, <3>3, <3>6
  <2>2. ~AddToPlaylist /\ ~DeletePlaylist
    BY DEF AddToPlaylist, DeletePlaylist
  <2>3. ~SubmitPrompt
    <3>1. prompt.action \in {"new", "rename"} => Top.kind = "PlaylistList"
      BY DEF TuiInv, ModeInv
    <3>2. QED
      BY <3>1 DEF SubmitPrompt
  <2>4. ~(ToggleHelp \/ TabKey \/ Slash \/ Back \/ Typing)
    BY DEF ToggleHelp, TabKey, Slash, Back, Typing, TypeQuery, LeaveQuery, RunSearch, FilterType,
       FilterErase, FilterCancel
  <2>5. ~(OpenPrompt \/ TypePrompt \/ ClosePrompt)
    BY DEF OpenPrompt, TypePrompt, ClosePrompt
  <2>6. ~Opening
    BY DEF Opening, OpenRow, EnterStays, OpenSimilar, ExpandHomeSection, ShowInfo, OpenPlaylistPicker
  <2>7. ~(ToggleMark \/ ToggleAlbumSort \/ UseMarked \/ EditQueue)
    BY DEF ToggleMark, ToggleAlbumSort, UseMarked, EditQueue
  <2>8. \A delta \in {-1, 1} : ~MoveSelection(delta) /\ ~MoveQueueItem(delta)
    BY DEF MoveSelection, MoveQueueItem
  <2>9. ~UNCHANGED vars
    BY DEF vars
  <2>10. RemoveFromPlaylist
    BY <2>2, <2>3, <2>4, <2>5, <2>6, <2>7, <2>8, <2>9 DEF Next, Prompting, Editing
  <2>11. QED
    BY <2>1, <2>10
<1>2. QED
  BY <1>1, TuiInvariant, PTL DEF Spec, RemovesWhatIsMarked
=============================================================================
