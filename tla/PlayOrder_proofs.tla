-------------------------- MODULE PlayOrder_proofs --------------------------
(***************************************************************************)
(* Proofs about the play orders of PlayOrder, for queues of any length:    *)
(* first about sequences edited entry by entry; then that every operation  *)
(* on a play order returns a play order; then what each edit does to the   *)
(* line, the entries in the order they are played in; and last that the    *)
(* operators are the iterator chains of the source, whatever the bounds of *)
(* PlayOrderCheck.                                                         *)
(***************************************************************************)
EXTENDS PlayOrderCheck, SequenceTheorems, WellFoundedInduction, TLAPS

-----------------------------------------------------------------------------
(* Sequences, entry by entry *)

\* What RemoveAt and InsertAt return, entry by entry.
LEMMA RemoveAtFacts ==
    ASSUME NEW T, NEW s \in Seq(T), NEW i \in 1..Len(s)
    PROVE  /\ RemoveAt(s, i) \in Seq(T)
           /\ Len(RemoveAt(s, i)) = Len(s) - 1
           /\ \A k \in 1..(Len(s) - 1) :
                 RemoveAt(s, i)[k] = IF k < i THEN s[k] ELSE s[k + 1]
<1> DEFINE n == Len(s)
           before == SubSeq(s, 1, i - 1)
           after  == SubSeq(s, i + 1, n)
           rest   == before \o after
<1>1. n \in Nat /\ i \in 1..n
  OBVIOUS
<1>2. /\ before \in Seq(T) /\ Len(before) = i - 1
      /\ \A k \in 1..(i - 1) : before[k] = s[k]
  BY SubSeqProperties
<1>3. /\ after \in Seq(T) /\ Len(after) = n - i
      /\ \A k \in 1..(n - i) : after[k] = s[i + k]
  <2>1. \A k \in 1..(n - (i + 1) + 1) : after[k] = s[(i + 1) + k - 1]
    BY SubSeqProperties
  <2>2. \A k \in 1..(n - i) : (i + 1) + k - 1 = i + k
    OBVIOUS
  <2>3. QED
    BY <2>1, <2>2, SubSeqProperties
<1>4. RemoveAt(s, i) = rest
  BY DEF RemoveAt
<1> HIDE DEF before, after
<1>5. /\ rest \in Seq(T) /\ Len(rest) = Len(before) + Len(after)
      /\ \A k \in 1..(Len(before) + Len(after)) :
            rest[k] = IF k <= Len(before) THEN before[k] ELSE after[k - Len(before)]
  BY <1>2, <1>3, ConcatProperties
<1> HIDE DEF rest, n
<1>6. ASSUME NEW k \in 1..(n - 1) PROVE rest[k] = IF k < i THEN s[k] ELSE s[k + 1]
  <2>1. k \in 1..(Len(before) + Len(after)) /\ Len(before) = i - 1
    BY <1>1, <1>2, <1>3
  <2>2. CASE k < i
    <3>1. k \in 1..(i - 1) /\ k <= Len(before)
      BY <1>1, <2>1, <2>2
    <3>2. QED
      BY <1>2, <1>5, <2>1, <2>2, <3>1
  <2>3. CASE ~(k < i)
    <3>1. /\ k - (i - 1) \in 1..(n - i) /\ ~(k <= Len(before))
          /\ i + (k - (i - 1)) = k + 1
      BY <1>1, <2>1, <2>3
    <3>2. rest[k] = after[k - (i - 1)]
      BY <1>5, <2>1, <3>1
    <3>3. after[k - (i - 1)] = s[k + 1]
      BY <1>3, <3>1
    <3>4. QED
      BY <2>3, <3>2, <3>3
  <2>4. QED
    BY <2>2, <2>3
<1>7. QED
  BY <1>1, <1>2, <1>3, <1>4, <1>5, <1>6 DEF n

LEMMA InsertAtFacts ==
    ASSUME NEW T, NEW s \in Seq(T), NEW i \in 1..(Len(s) + 1), NEW t \in T
    PROVE  /\ InsertAt(s, i, t) \in Seq(T)
           /\ Len(InsertAt(s, i, t)) = Len(s) + 1
           /\ \A k \in 1..(Len(s) + 1) :
                 InsertAt(s, i, t)[k] = IF k < i THEN s[k]
                                        ELSE IF k = i THEN t ELSE s[k - 1]
<1> DEFINE n == Len(s)
           before == SubSeq(s, 1, i - 1)
           single == <<t>>
           upto   == before \o single
           after  == SubSeq(s, i, n)
           longer == upto \o after
<1>1. n \in Nat /\ i \in 1..(n + 1)
  OBVIOUS
<1>2. /\ before \in Seq(T) /\ Len(before) = i - 1
      /\ \A k \in 1..(i - 1) : before[k] = s[k]
  BY SubSeqProperties
<1>3. /\ after \in Seq(T) /\ Len(after) = n - i + 1
      /\ \A k \in 1..(n - i + 1) : after[k] = s[i + k - 1]
  BY SubSeqProperties
<1>4. InsertAt(s, i, t) = longer
  BY DEF InsertAt
<1>5. single \in Seq(T) /\ Len(single) = 1 /\ single[1] = t
  OBVIOUS
<1> HIDE DEF before, single, after
<1>6. /\ upto \in Seq(T) /\ Len(upto) = Len(before) + Len(single)
      /\ \A k \in 1..(Len(before) + Len(single)) :
            upto[k] = IF k <= Len(before) THEN before[k] ELSE single[k - Len(before)]
  BY <1>2, <1>5, ConcatProperties
<1> HIDE DEF upto
<1>7. upto \in Seq(T) /\ after \in Seq(T)
  BY <1>3, <1>6
<1>8. /\ longer \in Seq(T) /\ Len(longer) = Len(upto) + Len(after)
      /\ \A k \in 1..(Len(upto) + Len(after)) :
            longer[k] = IF k <= Len(upto) THEN upto[k] ELSE after[k - Len(upto)]
  BY <1>7, ConcatProperties
<1> HIDE DEF longer, n
<1>9. /\ Len(upto) = i
      /\ \A k \in 1..i : upto[k] = IF k < i THEN s[k] ELSE t
  BY <1>1, <1>2, <1>5, <1>6
<1>10. ASSUME NEW k \in 1..(n + 1)
       PROVE  longer[k] = IF k < i THEN s[k] ELSE IF k = i THEN t ELSE s[k - 1]
  <2>1. CASE k <= i
    BY <2>1, <1>1, <1>3, <1>8, <1>9
  <2>2. CASE k > i
    <3>1. /\ k \in 1..(Len(upto) + Len(after)) /\ ~(k <= Len(upto))
          /\ k - Len(upto) \in 1..(n - i + 1) /\ i + (k - Len(upto)) - 1 = k - 1
      BY <2>2, <1>1, <1>3, <1>9
    <3>2. longer[k] = s[k - 1]
      BY <3>1, <1>3, <1>8
    <3>3. QED
      BY <3>2, <2>2, <1>1
  <2>3. QED
    BY <2>1, <2>2, <1>1
<1>11. Len(longer) = n + 1
  BY <1>1, <1>3, <1>8, <1>9
<1>12. QED
  BY <1>4, <1>8, <1>10, <1>11 DEF n

\* The queue after "play next": the batch between the current entry and the rest.
LEMMA SpliceFacts ==
    ASSUME NEW T, NEW s \in Seq(T), NEW i \in 1..Len(s), NEW tracks \in Seq(T),
           NEW rest \in Seq(T), Len(rest) = Len(s) - i
    PROVE  /\ SubSeq(s, 1, i) \o tracks \o rest \in Seq(T)
           /\ Len(SubSeq(s, 1, i) \o tracks \o rest) = Len(s) + Len(tracks)
           /\ (SubSeq(s, 1, i) \o tracks \o rest)[i] = s[i]
<1> DEFINE before == SubSeq(s, 1, i)
           upto   == before \o tracks
           longer == upto \o rest
<1>1. Len(s) \in Nat /\ i \in 1..Len(s) /\ Len(tracks) \in Nat
  OBVIOUS
<1>2. before \in Seq(T) /\ Len(before) = i /\ before[i] = s[i]
  BY SubSeqProperties
<1>3. rest \in Seq(T) /\ Len(rest) = Len(s) - i
  OBVIOUS
<1> HIDE DEF before
<1>4. /\ upto \in Seq(T) /\ Len(upto) = Len(before) + Len(tracks)
      /\ \A k \in 1..(Len(before) + Len(tracks)) :
            k <= Len(before) => upto[k] = before[k]
  BY <1>2, ConcatProperties
<1> HIDE DEF upto
<1>5. upto \in Seq(T) /\ rest \in Seq(T)
  BY <1>3, <1>4
<1>6. /\ longer \in Seq(T) /\ Len(longer) = Len(upto) + Len(rest)
      /\ \A k \in 1..(Len(upto) + Len(rest)) :
            k <= Len(upto) => longer[k] = upto[k]
  BY <1>5, ConcatProperties
<1> HIDE DEF longer
<1>7. upto[i] = s[i] /\ Len(upto) = i + Len(tracks)
  BY <1>1, <1>2, <1>4
<1>8. i \in 1..(Len(upto) + Len(rest)) /\ i <= Len(upto)
  BY <1>1, <1>3, <1>7
<1>9. longer[i] = s[i] /\ Len(longer) = Len(s) + Len(tracks)
  BY <1>1, <1>3, <1>6, <1>7, <1>8
<1>10. QED
  BY <1>6, <1>9 DEF before, upto, longer


LEMMA ConcatEntries ==
    ASSUME NEW T, NEW s \in Seq(T), NEW t \in Seq(T)
    PROVE  /\ s \o t \in Seq(T)
           /\ s \o t = [k \in 1..(Len(s) + Len(t)) |->
                           IF k <= Len(s) THEN s[k] ELSE t[k - Len(s)]]
<1> DEFINE longer == s \o t
<1>1. /\ longer \in Seq(T) /\ Len(longer) = Len(s) + Len(t)
      /\ \A k \in 1..(Len(s) + Len(t)) :
            longer[k] = IF k <= Len(s) THEN s[k] ELSE t[k - Len(s)]
  BY ConcatProperties
<1> HIDE DEF longer
<1>2. longer = [k \in 1..(Len(s) + Len(t)) |-> longer[k]]
  BY <1>1
<1>3. QED
  BY <1>1, <1>2 DEF longer

LEMMA SpliceLength ==
    ASSUME NEW T, NEW s \in Seq(T), NEW i \in 1..Len(s), NEW tracks \in Seq(T)
    PROVE  /\ SubSeq(s, 1, i) \o tracks \o SubSeq(s, i + 1, Len(s)) \in Seq(T)
           /\ Len(SubSeq(s, 1, i) \o tracks \o SubSeq(s, i + 1, Len(s)))
                = Len(s) + Len(tracks)
<1> DEFINE rest == SubSeq(s, i + 1, Len(s))
<1>1. rest \in Seq(T) /\ Len(rest) = Len(s) - i
  BY SubSeqProperties
<1> HIDE DEF rest
<1>2. /\ SubSeq(s, 1, i) \o tracks \o rest \in Seq(T)
      /\ Len(SubSeq(s, 1, i) \o tracks \o rest) = Len(s) + Len(tracks)
  BY <1>1, SpliceFacts
<1>3. QED
  BY <1>2 DEF rest

\* A sequence with others spliced in, entry by entry.
LEMMA SpliceEntries ==
    ASSUME NEW T, NEW s \in Seq(T), NEW i \in 1..Len(s), NEW tracks \in Seq(T)
    PROVE  \A k \in 1..(Len(s) + Len(tracks)) :
              (SubSeq(s, 1, i) \o tracks \o SubSeq(s, i + 1, Len(s)))[k]
                = IF k <= i THEN s[k]
                  ELSE IF k <= i + Len(tracks) THEN tracks[k - i]
                  ELSE s[k - Len(tracks)]
<1> DEFINE before == SubSeq(s, 1, i)
           rest   == SubSeq(s, i + 1, Len(s))
           upto   == before \o tracks
           longer == upto \o rest
           b == Len(tracks)
           n == Len(s)
<1>1. n \in Nat /\ i \in 1..n /\ b \in Nat /\ tracks \in Seq(T)
  OBVIOUS
<1>2. /\ before \in Seq(T) /\ Len(before) = i
      /\ \A k \in 1..i : before[k] = s[k]
  BY SubSeqProperties
<1>3. /\ rest \in Seq(T) /\ Len(rest) = n - i
      /\ \A k \in 1..(n - i) : rest[k] = s[i + k]
  <2>1. \A k \in 1..(n - (i + 1) + 1) : rest[k] = s[(i + 1) + k - 1]
    BY SubSeqProperties
  <2>2. \A k \in 1..(n - i) : (i + 1) + k - 1 = i + k
    OBVIOUS
  <2>3. QED
    BY <2>1, <2>2, SubSeqProperties
<1> HIDE DEF before, rest
<1>4. /\ upto \in Seq(T)
      /\ upto = [k \in 1..(i + b) |-> IF k <= i THEN before[k] ELSE tracks[k - i]]
  BY <1>2, ConcatEntries
<1> HIDE DEF upto, b, n
<1>5. Len(upto) = i + b
  BY <1>1, <1>4
<1>6. longer = [k \in 1..(n + b) |-> IF k <= i + b THEN upto[k] ELSE rest[k - (i + b)]]
  <2>1. longer = [k \in 1..(Len(upto) + Len(rest)) |->
                     IF k <= Len(upto) THEN upto[k] ELSE rest[k - Len(upto)]]
    <3>1. upto \in Seq(T) /\ rest \in Seq(T)
      BY <1>3, <1>4
    <3>2. QED
      BY <3>1, ConcatEntries
  <2>2. Len(upto) + Len(rest) = n + b
    BY <1>1, <1>3, <1>5
  <2>3. QED
    BY <1>5, <2>1, <2>2
<1> HIDE DEF longer
<1>7. ASSUME NEW k \in 1..(n + b)
      PROVE  longer[k] = IF k <= i THEN s[k] ELSE IF k <= i + b THEN tracks[k - i] ELSE s[k - b]
  <2>1. CASE k <= i
    BY <2>1, <1>1, <1>2, <1>4, <1>6
  <2>2. CASE k > i /\ k <= i + b
    BY <2>2, <1>1, <1>4, <1>6
  <2>3. CASE k > i + b
    <3>1. k - (i + b) \in 1..(n - i) /\ i + (k - (i + b)) = k - b
      BY <2>3, <1>1
    <3>2. longer[k] = rest[k - (i + b)]
      BY <2>3, <1>1, <1>6
    <3>3. longer[k] = s[k - b]
      BY <3>1, <3>2, <1>3
    <3>4. QED
      BY <3>3, <2>3, <1>1
  <2>4. QED
    BY <2>1, <2>2, <2>3, <1>1
<1>8. QED
  BY <1>7 DEF longer, upto, before, rest, b, n

-----------------------------------------------------------------------------
(* Every operation on a play order returns a play order of the edited queue, *)
(* for queues of any length                                                  *)

LEMMA PlayOrderType ==
    ASSUME NEW n \in Nat, NEW order, IsPlayOrder(order, n)
    PROVE  order \in Seq(Nat) /\ Len(order) = n
BY DEF IsPlayOrder, QueueIndices

\* Where Position finds an index of the queue, the order has that index.
LEMMA PositionInOrder ==
    ASSUME NEW n \in Nat, NEW order, IsPlayOrder(order, n),
           NEW i \in QueueIndices(n), NEW default
    PROVE  /\ Position(order, i, default) \in QueueIndices(n)
           /\ order[Position(order, i, default) + 1] = i
<1>1. DOMAIN order = 1..n
  BY DEF IsPlayOrder
<1>2. \E k \in DOMAIN order : order[k] = i
  BY <1>1 DEF IsPlayOrder
<1> DEFINE k == CHOOSE j \in DOMAIN order : order[j] = i
<1>3. k \in 1..n /\ order[k] = i
  BY <1>1, <1>2
<1>4. Position(order, i, default) = k - 1
  BY <1>2 DEF Position
<1>5. QED
  BY <1>3, <1>4 DEF QueueIndices

LEMMA IdentityIsPlayOrder ==
    ASSUME NEW n \in Nat
    PROVE  IsPlayOrder(IdentityOrder(n), n)
<1>1. IdentityOrder(n) \in [1..n -> QueueIndices(n)]
  BY DEF IdentityOrder, QueueIndices
<1>2. ASSUME NEW i \in QueueIndices(n)
      PROVE  \E k \in 1..n : IdentityOrder(n)[k] = i
  <2>1. i + 1 \in 1..n
    BY DEF QueueIndices
  <2>2. IdentityOrder(n)[i + 1] = i
    BY <2>1 DEF IdentityOrder, QueueIndices
  <2>3. QED
    BY <2>1, <2>2
<1>3. ASSUME NEW j \in 1..n, NEW k \in 1..n, IdentityOrder(n)[j] = IdentityOrder(n)[k]
      PROVE  j = k
  BY <1>3 DEF IdentityOrder
<1>4. QED
  BY <1>1, <1>2, <1>3 DEF IsPlayOrder

\* The shuffle, whatever it is anchored to, returns a play order.
LEMMA ShuffledIsPlayOrder ==
    ASSUME NEW n \in Nat, NEW on, NEW anchor,
           NEW order \in ShuffledOrders(n, on, anchor)
    PROVE  IsPlayOrder(order, n)
BY IdentityIsPlayOrder DEF ShuffledOrders

LEMMA NewQueueIsPlayOrder ==
    ASSUME NEW n \in Nat \ {0}, NEW on, NEW start,
           NEW order \in NewQueueOrders(n, on, start)
    PROVE  IsPlayOrder(order, n)
BY ShuffledIsPlayOrder DEF NewQueueOrders

LEMMA AfterMoveIsPlayOrder ==
    ASSUME NEW n \in Nat, NEW order, IsPlayOrder(order, n),
           NEW from \in QueueIndices(n), NEW to \in QueueIndices(n)
    PROVE  IsPlayOrder(AfterMove(order, from, to), n)
<1> DEFINE Remap(i) == RemapIndexAfterMove(i, from, to)
           moved == AfterMove(order, from, to)
<1>1. DOMAIN order = 1..n /\ \A k \in 1..n : order[k] \in QueueIndices(n)
  BY DEF IsPlayOrder
<1>2. \A k \in 1..n : moved[k] = Remap(order[k])
  BY <1>1 DEF AfterMove
<1>3. \A i \in QueueIndices(n) : Remap(i) \in QueueIndices(n)
  BY DEF RemapIndexAfterMove, QueueIndices
<1>4. \A i, j \in QueueIndices(n) : Remap(i) = Remap(j) => i = j
  BY DEF RemapIndexAfterMove, QueueIndices
<1>5. \A i \in QueueIndices(n) : \E j \in QueueIndices(n) : Remap(j) = i
  \* The inverse of a move is the move back.
  <2>1. TAKE i \in QueueIndices(n)
  <2>2. RemapIndexAfterMove(i, to, from) \in QueueIndices(n)
    BY DEF RemapIndexAfterMove, QueueIndices
  <2>3. Remap(RemapIndexAfterMove(i, to, from)) = i
    BY DEF RemapIndexAfterMove, QueueIndices
  <2>4. QED
    BY <2>2, <2>3
<1>6. moved \in [1..n -> QueueIndices(n)]
  BY <1>1, <1>3 DEF AfterMove
<1>7. ASSUME NEW i \in QueueIndices(n)
      PROVE  \E k \in 1..n : moved[k] = i
  <2>1. PICK j \in QueueIndices(n) : Remap(j) = i
    BY <1>5
  <2>2. PICK k \in 1..n : order[k] = j
    BY DEF IsPlayOrder
  <2>3. QED
    BY <2>1, <2>2, <1>2
<1>8. ASSUME NEW j \in 1..n, NEW k \in 1..n, moved[j] = moved[k]
      PROVE  j = k
  <2>1. order[j] = order[k]
    BY <1>8, <1>1, <1>2, <1>4
  <2>2. QED
    BY <2>1 DEF IsPlayOrder
<1>9. QED
  BY <1>6, <1>7, <1>8 DEF IsPlayOrder

\* Removing a queue entry leaves an order of the shorter queue: the indices
\* past it close the gap, and nothing is named twice or missed.
LEMMA AfterRemoveIsPlayOrder ==
    ASSUME NEW n \in Nat \ {0}, NEW order, IsPlayOrder(order, n),
           NEW removed \in QueueIndices(n)
    PROVE  IsPlayOrder(AfterRemove(order, removed), n - 1)
<1> DEFINE p == Position(order, removed, n) + 1
           Shift(i) == IF i > removed THEN i - 1 ELSE i
           Kept(k) == IF k < p THEN k ELSE k + 1
           rest == AfterRemove(order, removed)
<1>1. order \in [1..n -> QueueIndices(n)] /\ Len(order) = n
  BY DEF IsPlayOrder
<1>2. p \in 1..n /\ order[p] = removed
  BY PositionInOrder DEF QueueIndices
<1>3. rest = [k \in 1..(n - 1) |-> Shift(order[Kept(k)])]
  BY <1>1 DEF AfterRemove
<1>4. \A k \in 1..(n - 1) : Kept(k) \in 1..n /\ Kept(k) # p
  BY <1>2
<1>5. \A k \in 1..(n - 1) : order[Kept(k)] \in QueueIndices(n) \ {removed}
  BY <1>1, <1>2, <1>4 DEF IsPlayOrder
<1>6. \A i \in QueueIndices(n) \ {removed} : Shift(i) \in QueueIndices(n - 1)
  BY DEF QueueIndices
<1>7. rest \in [1..(n - 1) -> QueueIndices(n - 1)]
  BY <1>3, <1>5, <1>6
<1>8. ASSUME NEW i \in QueueIndices(n - 1)
      PROVE  \E k \in 1..(n - 1) : rest[k] = i
  <2> DEFINE old == IF i >= removed THEN i + 1 ELSE i
  <2>1. old \in QueueIndices(n) /\ old # removed /\ Shift(old) = i
    BY DEF QueueIndices
  <2>2. PICK j \in 1..n : order[j] = old
    BY <2>1 DEF IsPlayOrder
  <2>3. j # p
    BY <2>1, <2>2, <1>2
  <2> DEFINE k == IF j < p THEN j ELSE j - 1
  <2>4. k \in 1..(n - 1) /\ Kept(k) = j
    BY <2>3, <1>2
  <2>5. rest[k] = i
    BY <2>1, <2>2, <2>4, <1>3
  <2>6. QED
    BY <2>4, <2>5
<1>9. ASSUME NEW j \in 1..(n - 1), NEW k \in 1..(n - 1), rest[j] = rest[k]
      PROVE  j = k
  <2>1. Shift(order[Kept(j)]) = Shift(order[Kept(k)])
    BY <1>9, <1>3
  <2>2. order[Kept(j)] = order[Kept(k)]
    BY <2>1, <1>5 DEF QueueIndices
  <2>3. Kept(j) = Kept(k)
    BY <2>2, <1>4 DEF IsPlayOrder
  <2>4. QED
    BY <2>3, <1>2
<1>10. n - 1 \in Nat
  OBVIOUS
<1>11. QED
  BY <1>7, <1>8, <1>9 DEF IsPlayOrder

\* Appending keeps the cursor's entry where it is and names the new entries.
LEMMA AfterAppendIsPlayOrder ==
    ASSUME NEW n \in Nat, NEW order, IsPlayOrder(order, n), NEW count \in Nat
    PROVE  /\ IsPlayOrder(AfterAppend(order, count), n + count)
           /\ \A k \in 1..n : AfterAppend(order, count)[k] = order[k]
<1> DEFINE longer == AfterAppend(order, count)
<1>1. order \in [1..n -> QueueIndices(n)] /\ Len(order) = n
  BY DEF IsPlayOrder
<1>2. longer = [k \in 1..(n + count) |-> IF k <= n THEN order[k] ELSE k - 1]
  BY <1>1 DEF AfterAppend
<1>3. longer \in [1..(n + count) -> QueueIndices(n + count)]
  BY <1>1, <1>2 DEF QueueIndices
<1>4. ASSUME NEW i \in QueueIndices(n + count)
      PROVE  \E k \in 1..(n + count) : longer[k] = i
  <2>1. CASE i < n
    <3>1. PICK k \in 1..n : order[k] = i
      BY <2>1 DEF IsPlayOrder, QueueIndices
    <3>2. QED
      BY <3>1, <1>2
  <2>2. CASE i >= n
    <3>1. i + 1 \in 1..(n + count) /\ ~(i + 1 <= n)
      BY <2>2 DEF QueueIndices
    <3>2. longer[i + 1] = i
      BY <3>1, <1>2 DEF QueueIndices
    <3>3. QED
      BY <3>1, <3>2
  <2>3. QED
    BY <2>1, <2>2 DEF QueueIndices
<1>5. ASSUME NEW j \in 1..(n + count), NEW k \in 1..(n + count), longer[j] = longer[k]
      PROVE  j = k
  <2>1. \A m \in 1..n : order[m] < n
    BY <1>1 DEF QueueIndices
  <2>2. QED
    BY <1>5, <1>1, <1>2, <2>1 DEF IsPlayOrder, QueueIndices
<1>6. QED
  BY <1>2, <1>3, <1>4, <1>5 DEF IsPlayOrder

\* "Play next" splices the new indices in right after the cursor; every entry
\* up to the cursor is at or before it and keeps pointing at the same track.
LEMMA PlayNextIsPlayOrder ==
    ASSUME NEW n \in Nat \ {0}, NEW order, IsPlayOrder(order, n),
           NEW cursor \in QueueIndices(n), NEW count \in Nat
    PROVE  /\ IsPlayOrder(PlayNextInsertion(order, cursor, order[cursor + 1], count),
                          n + count)
           /\ PlayNextInsertion(order, cursor, order[cursor + 1], count)[cursor + 1]
                = order[cursor + 1]
<1> DEFINE at == order[cursor + 1]
           cut == cursor + 1
           longer == PlayNextInsertion(order, cursor, at, count)
           Up(i) == IF i >= at + 1 THEN i + count ELSE i
<1>1. /\ order \in [1..n -> QueueIndices(n)] /\ Len(order) = n
      /\ cut \in 1..n /\ at \in QueueIndices(n)
  BY DEF IsPlayOrder, QueueIndices
<1>2. longer = [k \in 1..(n + count) |->
                   IF k <= cut THEN Up(order[k])
                   ELSE IF k <= cut + count THEN at + (k - cut)
                   ELSE Up(order[k - count])]
  <2>1. \A k \in 1..n : AfterInsert(order, at + 1, count)[k] = Up(order[k])
    BY <1>1 DEF AfterInsert
  <2>2. \A k \in 1..(n + count) :
           /\ k <= cut => k \in 1..n
           /\ k > cut + count => k - count \in 1..n
           /\ (k > cut) => at + 1 + (k - cut - 1) = at + (k - cut)
    BY <1>1 DEF QueueIndices
  <2>3. QED
    BY <1>1, <2>1, <2>2 DEF PlayNextInsertion
<1> HIDE DEF at, longer
<1>3. \A i \in QueueIndices(n) : Up(i) \in QueueIndices(n + count) \ ((at + 1)..(at + count))
  BY <1>1 DEF QueueIndices
<1>4. \A i, j \in QueueIndices(n) : Up(i) = Up(j) => i = j
  BY <1>1 DEF QueueIndices
<1>5. longer \in [1..(n + count) -> QueueIndices(n + count)]
  <2>1. ASSUME NEW k \in 1..(n + count) PROVE longer[k] \in QueueIndices(n + count)
    <3>1. CASE k <= cut
      BY <3>1, <1>1, <1>2, <1>3
    <3>2. CASE k > cut /\ k <= cut + count
      BY <3>2, <1>1, <1>2 DEF QueueIndices
    <3>3. CASE k > cut + count
      <4>1. k - count \in 1..n
        BY <3>3, <1>1
      <4>2. QED
        BY <4>1, <3>3, <1>1, <1>2, <1>3
    <3>4. QED
      BY <3>1, <3>2, <3>3, <1>1
  <2>2. QED
    BY <2>1, <1>2
<1>6. ASSUME NEW i \in QueueIndices(n + count)
      PROVE  \E k \in 1..(n + count) : longer[k] = i
  <2>1. CASE i \in (at + 1)..(at + count)
    <3>1. cut + (i - at) \in 1..(n + count) /\ cut + (i - at) > cut
           /\ cut + (i - at) <= cut + count
      BY <2>1, <1>1 DEF QueueIndices
    <3>2. longer[cut + (i - at)] = i
      BY <3>1, <2>1, <1>1, <1>2 DEF QueueIndices
    <3>3. QED
      BY <3>1, <3>2
  <2>2. CASE i \notin (at + 1)..(at + count)
    <3> DEFINE old == IF i > at THEN i - count ELSE i
    <3>1. old \in QueueIndices(n) /\ Up(old) = i
      BY <2>2, <1>1 DEF QueueIndices
    <3>2. PICK j \in 1..n : order[j] = old
      BY <3>1 DEF IsPlayOrder
    <3> DEFINE k == IF j <= cut THEN j ELSE j + count
    <3>3. k \in 1..(n + count) /\ (j > cut => k > cut + count /\ k - count = j)
      BY <1>1
    <3>4. longer[k] = i
      BY <3>1, <3>2, <3>3, <1>1, <1>2
    <3>5. QED
      BY <3>3, <3>4
  <2>3. QED
    BY <2>1, <2>2
<1>7. ASSUME NEW j \in 1..(n + count), NEW k \in 1..(n + count), longer[j] = longer[k]
      PROVE  j = k
  <2> DEFINE New(m) == m > cut /\ m <= cut + count
             Old(m) == IF m <= cut THEN m ELSE m - count
  <2>1. \A m \in 1..(n + count) : ~New(m) => Old(m) \in 1..n /\ longer[m] = Up(order[Old(m)])
    BY <1>1, <1>2
  <2>2. \A m \in 1..(n + count) : New(m) => longer[m] = at + (m - cut)
    BY <1>1, <1>2
  <2>3. \A m \in 1..(n + count) :
           New(m) <=> longer[m] \in (at + 1)..(at + count)
    <3>1. TAKE m \in 1..(n + count)
    <3>2. CASE New(m)
      BY <3>2, <2>2, <1>1 DEF QueueIndices
    <3>3. CASE ~New(m)
      BY <3>3, <2>1, <1>1, <1>3
    <3>4. QED
      BY <3>2, <3>3
  <2>4. CASE New(j)
    <3>1. New(k)
      BY <2>3, <2>4, <1>7
    <3>2. at + (j - cut) = at + (k - cut)
      BY <2>2, <2>4, <3>1, <1>7
    <3>3. QED
      BY <3>2, <1>1 DEF QueueIndices
  <2>5. CASE ~New(j)
    <3>1. ~New(k)
      BY <2>5, <2>3, <1>7
    <3>2. Up(order[Old(j)]) = Up(order[Old(k)])
      BY <2>5, <3>1, <2>1, <1>7
    <3>3. Old(j) = Old(k)
      BY <3>2, <2>5, <3>1, <2>1, <1>1, <1>4 DEF IsPlayOrder
    <3>4. QED
      BY <3>3, <2>5, <3>1, <1>1
  <2>6. QED
    BY <2>4, <2>5
<1>8. longer[cut] = at
  <2>1. longer[cut] = Up(order[cut])
    BY <1>1, <1>2
  <2>2. order[cut] = at
    BY DEF at
  <2>3. Up(at) = at
    BY <1>1 DEF QueueIndices
  <2>4. QED
    BY <2>1, <2>2, <2>3
<1>9. QED
  BY <1>5, <1>6, <1>7, <1>8 DEF IsPlayOrder, at, longer

\* What a removal leaves of a play order: the entries but the one that named
\* the removed index, in their order, each closing the gap.
LEMMA AfterRemoveEntries ==
    ASSUME NEW n \in Nat \ {0}, NEW order, IsPlayOrder(order, n),
           NEW removed \in QueueIndices(n), NEW p \in 1..n, order[p] = removed
    PROVE  AfterRemove(order, removed) =
              [k \in 1..(n - 1) |->
                  LET i == order[IF k < p THEN k ELSE k + 1]
                  IN  IF i > removed THEN i - 1 ELSE i]
<1>1. Len(order) = n
  BY PlayOrderType
<1>2. Position(order, removed, n) \in QueueIndices(n)
        /\ order[Position(order, removed, n) + 1] = removed
  BY PositionInOrder
<1>3. Position(order, removed, n) + 1 = p
  BY <1>2 DEF IsPlayOrder, QueueIndices
<1>4. QED
  BY <1>1, <1>3 DEF AfterRemove

-----------------------------------------------------------------------------
(* What an edit of the queue and of its order does to the line *)

\* The line has the length of the queue, and each of its entries is the one
\* the order names there.
LEMMA LineFacts ==
    ASSUME NEW T, NEW s \in Seq(T), NEW order, IsPlayOrder(order, Len(s))
    PROVE  /\ Line(s, order) \in Seq(T) /\ Len(Line(s, order)) = Len(s)
           /\ Len(order) = Len(s)
           /\ Line(s, order) = [k \in 1..Len(s) |-> s[order[k] + 1]]
           /\ \A k \in 1..Len(s) : order[k] \in 0..(Len(s) - 1)
<1> DEFINE n == Len(s)
<1>1. n \in Nat /\ Len(order) = n /\ DOMAIN order = 1..n
  BY PlayOrderType DEF IsPlayOrder
<1>2. \A k \in 1..n : order[k] \in 0..(n - 1)
  BY DEF IsPlayOrder, QueueIndices
<1>3. \A i \in 0..(n - 1) : s[i + 1] \in T
  BY <1>1
<1>4. Line(s, order) = [k \in 1..n |-> s[order[k] + 1]]
  BY <1>1 DEF Line
<1> HIDE DEF n
<1>5. Line(s, order) \in [1..n -> T]
  BY <1>2, <1>3, <1>4
<1>6. Line(s, order) \in Seq(T) /\ Len(Line(s, order)) = n
  BY <1>1, <1>5
<1>7. QED
  BY <1>1, <1>2, <1>4, <1>6 DEF n

\* Appended entries come at the end of the line.
LEMMA LineAfterAppend ==
    ASSUME NEW T, NEW s \in Seq(T), NEW order, IsPlayOrder(order, Len(s)),
           NEW added \in Seq(T)
    PROVE  Line(s \o added, AfterAppend(order, Len(added))) = Line(s, order) \o added
<1> DEFINE n == Len(s)
           b == Len(added)
           line == Line(s, order)
           longer == s \o added
           longOrder == AfterAppend(order, b)
<1>1. n \in Nat /\ b \in Nat
  OBVIOUS
<1>2. /\ line \in Seq(T) /\ Len(line) = n /\ Len(order) = n
      /\ line = [k \in 1..n |-> s[order[k] + 1]]
      /\ \A k \in 1..n : order[k] \in 0..(n - 1)
  BY LineFacts
<1>3. longer = [k \in 1..(n + b) |-> IF k <= n THEN s[k] ELSE added[k - n]]
  BY ConcatEntries
<1>4. longOrder = [k \in 1..(n + b) |-> IF k <= n THEN order[k] ELSE k - 1]
  BY <1>2 DEF AfterAppend
<1>5. line \o added = [k \in 1..(n + b) |-> IF k <= n THEN line[k] ELSE added[k - n]]
  <2>1. line \o added = [k \in 1..(Len(line) + b) |->
                            IF k <= Len(line) THEN line[k] ELSE added[k - Len(line)]]
    BY <1>2, ConcatEntries
  <2>2. QED
    BY <1>2, <2>1
<1>6. Line(longer, longOrder) = [k \in 1..(n + b) |-> longer[longOrder[k] + 1]]
  BY <1>4 DEF Line
<1> HIDE DEF n, b, line, longer, longOrder
<1>7. ASSUME NEW k \in 1..(n + b)
      PROVE  longer[longOrder[k] + 1] = IF k <= n THEN line[k] ELSE added[k - n]
  <2>1. CASE k <= n
    <3> DEFINE i == order[k]
    <3>1. k \in 1..n /\ i \in 0..(n - 1) /\ longOrder[k] = i /\ line[k] = s[i + 1]
      BY <1>1, <1>2, <1>4, <2>1
    <3> HIDE DEF i
    <3>2. longer[i + 1] = s[i + 1]
      BY <1>1, <1>3, <3>1
    <3>3. QED
      BY <2>1, <3>1, <3>2
  <2>2. CASE ~(k <= n)
    <3>1. longOrder[k] + 1 = k
      BY <1>1, <1>4, <2>2
    <3>2. QED
      BY <1>3, <2>2, <3>1
  <2>3. QED
    BY <2>1, <2>2
<1>8. QED
  BY <1>5, <1>6, <1>7 DEF line, longer, longOrder, b

\* "Play next" puts its entries right behind the cursor, and behind them what
\* was behind it before, wherever in the queue the order has each of them.
LEMMA LineAfterPlayNext ==
    ASSUME NEW T, NEW s \in Seq(T), NEW order, IsPlayOrder(order, Len(s)),
           NEW cursor \in QueueIndices(Len(s)), NEW added \in Seq(T)
    PROVE  LET i == order[cursor + 1] + 1
               longer == SubSeq(s, 1, i) \o added \o SubSeq(s, i + 1, Len(s))
           IN  Line(longer, PlayNextInsertion(order, cursor, order[cursor + 1], Len(added)))
                 = SubSeq(Line(s, order), 1, cursor + 1) \o added
                     \o SubSeq(Line(s, order), cursor + 2, Len(s))
<1> DEFINE n == Len(s)
           b == Len(added)
           at == cursor + 1
           now == order[at]
           i == now + 1
           line == Line(s, order)
           longer == SubSeq(s, 1, i) \o added \o SubSeq(s, i + 1, n)
           longLine == SubSeq(line, 1, at) \o added \o SubSeq(line, at + 1, n)
           longOrder == PlayNextInsertion(order, cursor, now, b)
           shifted == AfterInsert(order, i, b)
<1>1. n \in Nat \ {0} /\ b \in Nat /\ cursor \in 0..(n - 1) /\ at \in 1..n
  BY DEF QueueIndices
<1>2. /\ line \in Seq(T) /\ Len(line) = n /\ Len(order) = n
      /\ line = [k \in 1..n |-> s[order[k] + 1]]
      /\ \A k \in 1..n : order[k] \in 0..(n - 1)
  BY LineFacts
<1>3. now \in 0..(n - 1) /\ i \in 1..n
  BY <1>1, <1>2
<1>4. DOMAIN order = 1..n
  BY DEF IsPlayOrder
<1>5. longOrder = [k \in 1..(n + b) |->
                      IF k <= at THEN shifted[k]
                      ELSE IF k <= at + b THEN i + (k - at - 1) ELSE shifted[k - b]]
  BY <1>2 DEF PlayNextInsertion
<1>6. \A k \in 1..n : shifted[k] = IF order[k] >= i THEN order[k] + b ELSE order[k]
  BY <1>4 DEF AfterInsert
<1> HIDE DEF n, b, i, at
<1>7. /\ Len(longer) = n + b
      /\ \A k \in 1..(n + b) :
            longer[k] = IF k <= i THEN s[k] ELSE IF k <= i + b THEN added[k - i] ELSE s[k - b]
  BY <1>3, SpliceLength, SpliceEntries DEF n, b
<1>8. /\ longLine \in Seq(T) /\ Len(longLine) = n + b
      /\ \A k \in 1..(n + b) :
            longLine[k] = IF k <= at THEN line[k] ELSE IF k <= at + b THEN added[k - at] ELSE line[k - b]
  <2> HIDE DEF line
  <2>1. /\ line \in Seq(T) /\ at \in 1..Len(line) /\ Len(line) = n
        /\ longLine = SubSeq(line, 1, at) \o added \o SubSeq(line, at + 1, Len(line))
    BY <1>1, <1>2
  <2> HIDE DEF longLine
  <2>2. longLine \in Seq(T) /\ Len(longLine) = Len(line) + Len(added)
    BY <2>1, SpliceLength
  <2>3. \A k \in 1..(Len(line) + Len(added)) :
           longLine[k] = IF k <= at THEN line[k]
                         ELSE IF k <= at + Len(added) THEN added[k - at]
                         ELSE line[k - Len(added)]
    BY <2>1, SpliceEntries
  <2>4. QED
    BY <2>1, <2>2, <2>3 DEF b
<1> HIDE DEF line, longer, longLine, longOrder, shifted
<1>9. Line(longer, longOrder) = [k \in 1..(n + b) |-> longer[longOrder[k] + 1]]
  BY <1>5 DEF Line
<1>10. ASSUME NEW k \in 1..n, NEW l \in 1..(n + b),
              longOrder[l] = shifted[k]
       PROVE  longer[longOrder[l] + 1] = line[k]
  <2> DEFINE j == order[k]
  <2>1. j \in 0..(n - 1) /\ line[k] = s[j + 1] /\ shifted[k] = IF j >= i THEN j + b ELSE j
    BY <1>2, <1>6
  <2> HIDE DEF j
  <2>2. CASE j >= i
    <3> DEFINE m == j + b + 1
    <3>1. m \in 1..(n + b) /\ ~(m <= i) /\ ~(m <= i + b) /\ m - b = j + 1
      BY <1>1, <1>3, <2>1, <2>2
    <3>2. longOrder[l] + 1 = m
      BY <1>1, <1>10, <2>1, <2>2
    <3> HIDE DEF m
    <3>3. longer[m] = s[j + 1]
      BY <1>7, <3>1
    <3>4. QED
      BY <2>1, <3>2, <3>3
  <2>3. CASE ~(j >= i)
    <3>1. j + 1 \in 1..(n + b) /\ j + 1 <= i
      BY <1>1, <1>3, <2>1, <2>3
    <3>2. longer[j + 1] = s[j + 1]
      BY <1>7, <3>1
    <3>3. QED
      BY <1>10, <2>1, <2>3, <3>2
  <2>4. QED
    BY <2>2, <2>3
<1>11. ASSUME NEW k \in 1..(n + b)
       PROVE  longer[longOrder[k] + 1] = longLine[k]
  <2>1. CASE k <= at
    <3>1. k \in 1..n /\ longOrder[k] = shifted[k] /\ longLine[k] = line[k]
      BY <1>1, <1>5, <1>8, <2>1
    <3>2. QED
      BY <1>10, <2>1, <3>1
  <2>2. CASE ~(k <= at) /\ k <= at + b
    <3> DEFINE m == i + (k - at)
    <3>1. /\ m \in 1..(n + b) /\ ~(m <= i) /\ m <= i + b /\ m - i = k - at
          /\ i + (k - at - 1) + 1 = m
      BY <1>1, <1>3, <2>2
    <3>2. longOrder[k] + 1 = m
      BY <1>5, <2>2, <3>1
    <3> HIDE DEF m
    <3>3. longer[m] = added[k - at]
      BY <1>7, <3>1
    <3>4. QED
      BY <1>8, <2>2, <3>2, <3>3
  <2>3. CASE ~(k <= at + b)
    <3>1. k - b \in 1..n /\ ~(k <= at)
      BY <1>1, <2>3
    <3>2. longOrder[k] = shifted[k - b] /\ longLine[k] = line[k - b]
      BY <1>5, <1>8, <2>3, <3>1
    <3>3. QED
      BY <1>10, <3>1, <3>2
  <2>4. QED
    BY <2>1, <2>2, <2>3
<1>12. longLine = [k \in 1..(n + b) |-> longLine[k]]
  BY <1>8
<1>13. Line(longer, longOrder) = longLine
  BY <1>9, <1>11, <1>12
<1>14. at + 1 = cursor + 2
  BY <1>1 DEF at
<1>15. QED
  BY <1>13, <1>14 DEF line, longer, longLine, longOrder, i, b, n, at

\* A removal takes the entry's place out of the line.
LEMMA LineAfterRemove ==
    ASSUME NEW T, NEW s \in Seq(T), NEW order, IsPlayOrder(order, Len(s)),
           NEW p \in 1..Len(s)
    PROVE  Line(RemoveAt(s, order[p] + 1), AfterRemove(order, order[p]))
             = RemoveAt(Line(s, order), p)
<1> DEFINE n == Len(s)
           removed == order[p]
           line == Line(s, order)
           rest == RemoveAt(s, removed + 1)
           restOrder == AfterRemove(order, removed)
           restLine == RemoveAt(line, p)
           Kept(k) == IF k < p THEN k ELSE k + 1
           Shift(j) == IF j > removed THEN j - 1 ELSE j
<1>1. n \in Nat \ {0} /\ p \in 1..n
  OBVIOUS
<1>2. /\ line \in Seq(T) /\ Len(line) = n /\ Len(order) = n
      /\ line = [k \in 1..n |-> s[order[k] + 1]]
      /\ \A k \in 1..n : order[k] \in 0..(n - 1)
  BY LineFacts
<1>3. \A j, k \in 1..n : order[j] = order[k] => j = k
  BY DEF IsPlayOrder
<1>4. removed \in 0..(n - 1)
  BY <1>1, <1>2
<1>5. restOrder = [k \in 1..(n - 1) |-> Shift(order[Kept(k)])]
  BY <1>1, <1>4, AfterRemoveEntries DEF QueueIndices
<1> HIDE DEF n, line, removed
<1>6. \A k \in 1..(n - 1) : rest[k] = IF k < removed + 1 THEN s[k] ELSE s[k + 1]
  <2>1. removed + 1 \in 1..n
    BY <1>1, <1>4
  <2>2. QED
    BY <2>1, RemoveAtFacts DEF n
<1>7. restLine = [k \in 1..(n - 1) |-> line[Kept(k)]]
  <2>1. /\ restLine \in Seq(T) /\ Len(restLine) = n - 1
        /\ \A k \in 1..(n - 1) : restLine[k] = IF k < p THEN line[k] ELSE line[k + 1]
    <3>1. line \in Seq(T) /\ p \in 1..Len(line)
      BY <1>1, <1>2
    <3>2. /\ restLine \in Seq(T) /\ Len(restLine) = Len(line) - 1
          /\ \A k \in 1..(Len(line) - 1) :
                restLine[k] = IF k < p THEN line[k] ELSE line[k + 1]
      BY <3>1, RemoveAtFacts
    <3>3. QED
      BY <1>2, <3>2
  <2> HIDE DEF restLine
  <2>2. restLine = [k \in 1..(n - 1) |-> restLine[k]]
    BY <2>1
  <2>3. QED
    BY <2>1, <2>2
<1> HIDE DEF rest, restOrder, restLine
<1>8. Line(rest, restOrder) = [k \in 1..(n - 1) |-> rest[restOrder[k] + 1]]
  BY <1>5 DEF Line
<1>9. ASSUME NEW k \in 1..(n - 1)
      PROVE  rest[restOrder[k] + 1] = line[Kept(k)]
  <2> DEFINE j == order[Kept(k)]
  <2>1. Kept(k) \in 1..n /\ Kept(k) # p
    BY <1>1
  <2>2. j \in 0..(n - 1) /\ j # removed /\ restOrder[k] = Shift(j) /\ line[Kept(k)] = s[j + 1]
    BY <1>1, <1>2, <1>3, <1>5, <2>1 DEF removed
  <2> HIDE DEF j
  <2>3. Shift(j) + 1 \in 1..(n - 1)
    BY <1>1, <1>4, <2>2
  <2>4. rest[Shift(j) + 1] = s[j + 1]
    BY <1>1, <1>4, <1>6, <2>2, <2>3
  <2>5. QED
    BY <2>2, <2>4
<1>10. QED
  BY <1>7, <1>8, <1>9 DEF line, rest, restOrder, restLine, removed

\* A move changes the queue and leaves the line as it is.
LEMMA LineAfterMove ==
    ASSUME NEW T, NEW s \in Seq(T), NEW order, IsPlayOrder(order, Len(s)),
           NEW from \in QueueIndices(Len(s)), NEW to \in QueueIndices(Len(s))
    PROVE  Line(InsertAt(RemoveAt(s, from + 1), to + 1, s[from + 1]),
                AfterMove(order, from, to)) = Line(s, order)
<1> DEFINE n == Len(s)
           rest == RemoveAt(s, from + 1)
           moved == InsertAt(rest, to + 1, s[from + 1])
           movedOrder == AfterMove(order, from, to)
<1>1. n \in Nat \ {0} /\ from \in 0..(n - 1) /\ to \in 0..(n - 1)
  BY DEF QueueIndices
<1>2. /\ Line(s, order) = [k \in 1..n |-> s[order[k] + 1]]
      /\ \A k \in 1..n : order[k] \in 0..(n - 1)
  BY LineFacts
<1>3. movedOrder = [k \in 1..n |-> RemapIndexAfterMove(order[k], from, to)]
  BY DEF AfterMove, IsPlayOrder
<1> HIDE DEF n
<1>4. /\ rest \in Seq(T) /\ Len(rest) = n - 1 /\ s[from + 1] \in T
      /\ \A k \in 1..(n - 1) : rest[k] = IF k < from + 1 THEN s[k] ELSE s[k + 1]
  <2>1. from + 1 \in 1..n
    BY <1>1
  <2>2. QED
    BY <2>1, RemoveAtFacts DEF n
<1> HIDE DEF rest
<1>5. \A k \in 1..n : moved[k] = IF k < to + 1 THEN rest[k]
                                 ELSE IF k = to + 1 THEN s[from + 1] ELSE rest[k - 1]
  <2>1. to + 1 \in 1..(Len(rest) + 1) /\ Len(rest) + 1 = n
    BY <1>1, <1>4
  <2>2. PICK r \in Seq(T), place \in Int, taken \in T :
           /\ r = rest /\ place = to + 1 /\ taken = s[from + 1]
           /\ place \in 1..(Len(r) + 1)
    BY <1>4, <2>1
  <2>3. place \in 1..(Len(r) + 1)
    BY <2>2
  <2>4. \A k \in 1..(Len(r) + 1) :
           InsertAt(r, place, taken)[k] = IF k < place THEN r[k]
                                          ELSE IF k = place THEN taken ELSE r[k - 1]
    BY <2>3, InsertAtFacts
  <2>5. QED
    BY <2>1, <2>2, <2>4
<1> HIDE DEF moved, movedOrder
<1>6. ASSUME NEW i \in 0..(n - 1)
      PROVE  moved[RemapIndexAfterMove(i, from, to) + 1] = s[i + 1]
  <2>1. CASE i = from
    <3>1. RemapIndexAfterMove(i, from, to) = to
      BY <2>1 DEF RemapIndexAfterMove
    <3>2. to + 1 \in 1..n
      BY <1>1
    <3>3. QED
      BY <1>1, <1>5, <2>1, <3>1, <3>2
  <2>2. CASE i # from
    <3> DEFINE j == IF i < from THEN i ELSE i - 1
    <3>1. j \in 0..(n - 2) /\ j + 1 \in 1..(n - 1) /\ rest[j + 1] = s[i + 1]
      BY <1>1, <1>4, <2>2
    <3>2. RemapIndexAfterMove(i, from, to) = IF j < to THEN j ELSE j + 1
      BY <1>1, <2>2 DEF RemapIndexAfterMove
    <3> HIDE DEF j
    <3>3. CASE j < to
      <4>1. j + 1 \in 1..n /\ j + 1 < to + 1
        BY <1>1, <3>1, <3>3
      <4>2. QED
        BY <1>5, <3>1, <3>2, <3>3, <4>1
    <3>4. CASE ~(j < to)
      <4> DEFINE l == j + 2
      <4>1. l \in 1..n /\ ~(l < to + 1) /\ l # to + 1 /\ l - 1 = j + 1
        BY <1>1, <3>1, <3>4
      <4>2. RemapIndexAfterMove(i, from, to) + 1 = l
        BY <3>1, <3>2, <3>4
      <4> HIDE DEF l
      <4>3. moved[l] = rest[j + 1]
        BY <1>5, <4>1
      <4>4. QED
        BY <3>1, <4>2, <4>3
    <3>5. QED
      BY <3>3, <3>4
  <2>3. QED
    BY <2>1, <2>2
<1>7. Line(moved, movedOrder) = [k \in 1..n |-> moved[movedOrder[k] + 1]]
  BY <1>3 DEF Line
<1>8. \A k \in 1..n : moved[movedOrder[k] + 1] = s[order[k] + 1]
  BY <1>2, <1>3, <1>6
<1>9. QED
  BY <1>2, <1>7, <1>8 DEF moved, movedOrder, rest

-----------------------------------------------------------------------------
(* The filter of play_order_after_remove *)

\* A set of naturals has a least one: induction, without a predicate for a
\* parameter.
LEMMA LeastNat ==
    ASSUME NEW S \in SUBSET Nat, S # {}
    PROVE  \E n \in S : \A m \in S : n <= m
<1>1. IsWellFoundedOn(OpToRel(<, Nat), Nat)
  BY NatLessThanWellFounded
<1>2. PICK n \in S : \A m \in S : ~(<<m, n>> \in OpToRel(<, Nat))
  BY <1>1, WFMin
<1>3. \A m \in S : ~(m < n)
  BY <1>2 DEF OpToRel
<1>4. QED
  BY <1>3

\* What the filter has kept of the first m entries, when the entry it drops
\* is the one at p: its recursion is solved by the sequence without place p.
LEMMA FilterOutEntries ==
    ASSUME NEW n \in Nat, NEW order, IsPlayOrder(order, n), NEW p \in 1..n
    PROVE  FilterOut(order, order[p])
             = [k \in 1..(n - 1) |-> order[IF k < p THEN k ELSE k + 1]]
<1> DEFINE removed == order[p]
           Kept(m) == IF m < p THEN m ELSE m - 1
           g == [m \in 0..n |-> [k \in 1..Kept(m) |-> order[IF k < p THEN k ELSE k + 1]]]
<1>1. /\ n \in Nat \ {0} /\ p \in 1..n /\ Len(order) = n
      /\ \A k \in 1..n : order[k] \in Nat
      /\ \A j \in 1..n : order[j] = removed => j = p
  BY PlayOrderType DEF IsPlayOrder, QueueIndices
<1>2. ASSUME NEW m \in 1..n
      PROVE  g[m] = IF order[m] = removed THEN g[m - 1] ELSE Append(g[m - 1], order[m])
  <2>1. m \in 0..n /\ m - 1 \in 0..n /\ Kept(m) \in 0..n /\ Kept(m - 1) \in 0..n
    BY <1>1
  <2> DEFINE h == g[m - 1]
             j == Kept(m - 1)
  <2>2. g[m] = [k \in 1..Kept(m) |-> order[IF k < p THEN k ELSE k + 1]]
    BY <2>1
  <2>3. h = [k \in 1..j |-> order[IF k < p THEN k ELSE k + 1]]
    BY <2>1
  <2> HIDE DEF g
  <2>4. CASE order[m] = removed
    <3>1. m = p
      BY <1>1, <2>4
    <3>2. Kept(m) = j
      BY <1>1, <3>1
    <3>3. QED
      BY <2>2, <2>3, <2>4, <3>2
  <2>5. CASE order[m] # removed
    <3>1. m # p
      BY <2>5
    <3>2. Kept(m) = j + 1 /\ (IF j + 1 < p THEN j + 1 ELSE j + 1 + 1) = m /\ j \in Nat
      BY <1>1, <2>1, <3>1
    <3> HIDE DEF j, h
    <3>3. \A k \in 1..j : (IF k < p THEN k ELSE k + 1) \in 1..n
      BY <1>1, <3>2
    <3>4. h \in Seq(Nat) /\ Len(h) = j
      <4>1. h \in [1..j -> Nat]
        BY <1>1, <2>3, <3>3
      <4>2. QED
        BY <3>2, <4>1
    <3>5. /\ Append(h, order[m]) \in Seq(Nat) /\ Len(Append(h, order[m])) = j + 1
          /\ \A k \in 1..j : Append(h, order[m])[k] = h[k]
          /\ Append(h, order[m])[j + 1] = order[m]
      BY <1>1, <3>4, AppendProperties
    <3> DEFINE longer == Append(h, order[m])
    <3> HIDE DEF longer
    <3>6. longer = [k \in 1..(j + 1) |-> longer[k]]
      BY <3>5 DEF longer
    <3>7. \A k \in 1..(j + 1) : longer[k] = order[IF k < p THEN k ELSE k + 1]
      <4>1. ASSUME NEW k \in 1..(j + 1)
            PROVE  longer[k] = order[IF k < p THEN k ELSE k + 1]
        <5>1. CASE k \in 1..j
          BY <2>3, <3>5, <5>1 DEF longer
        <5>2. CASE k = j + 1
          BY <3>2, <3>5, <5>2 DEF longer
        <5>3. QED
          BY <3>2, <5>1, <5>2
      <4>2. QED
        BY <4>1
    <3>8. longer = g[m]
      BY <2>2, <3>2, <3>6, <3>7
    <3>9. QED
      BY <2>5, <3>8 DEF longer, h
  <2>6. QED
    BY <2>4, <2>5
<1>3. g[0] = <<>>
  <2>1. Kept(0) = 0 /\ 0 \in 0..n
    BY <1>1
  <2>2. QED
    BY <2>1
<1> DEFINE f == CHOOSE kept : kept = [m \in 0..Len(order) |->
                   IF m = 0 THEN <<>>
                   ELSE IF order[m] = removed THEN kept[m - 1] ELSE Append(kept[m - 1], order[m])]
<1>4. f = [m \in 0..n |->
              IF m = 0 THEN <<>>
              ELSE IF order[m] = removed THEN f[m - 1] ELSE Append(f[m - 1], order[m])]
  <2>1. g = [m \in 0..n |-> g[m]]
    OBVIOUS
  <2> HIDE DEF g
  <2>2. \A m \in 0..n : m = 0 \/ m \in 1..n
    BY <1>1
  <2>3. g = [m \in 0..n |->
              IF m = 0 THEN <<>>
              ELSE IF order[m] = removed THEN g[m - 1] ELSE Append(g[m - 1], order[m])]
    BY <1>2, <1>3, <2>1, <2>2
  <2>4. \E kept : kept = [m \in 0..Len(order) |->
              IF m = 0 THEN <<>>
              ELSE IF order[m] = removed THEN kept[m - 1] ELSE Append(kept[m - 1], order[m])]
    BY <1>1, <2>3
  <2>5. QED
    BY <1>1, <2>4
<1>5. FilterOut(order, removed) = f[n]
  <2>1. FilterOut(order, removed) = f[Len(order)]
    BY Zenon DEF FilterOut
  <2>2. QED
    BY <1>1, <2>1
<1>6. g[n] = [k \in 1..(n - 1) |-> order[IF k < p THEN k ELSE k + 1]]
  BY <1>1
<1> HIDE DEF f, g, removed
<1>7. f[n] = g[n]
  <2> DEFINE differ == {m \in 0..n : f[m] # g[m]}
  <2>1. SUFFICES ASSUME differ # {}
                 PROVE  FALSE
    BY <1>1
  <2>2. PICK m \in differ : \A l \in differ : m <= l
    <3>1. differ \in SUBSET Nat
      BY <1>1
    <3>2. QED
      BY <2>1, <3>1, LeastNat
  <2>3. f[0] = <<>>
    BY <1>1, <1>4
  <2>4. m \in 1..n /\ m - 1 \in 0..n /\ m - 1 \notin differ
    BY <1>1, <1>3, <2>2, <2>3
  <2>5. f[m - 1] = g[m - 1]
    BY <2>4
  <2>6. f[m] = IF order[m] = removed THEN f[m - 1] ELSE Append(f[m - 1], order[m])
    <3>1. m \in 0..n /\ m # 0
      BY <1>1, <2>4
    <3>2. f[m] = IF m = 0 THEN <<>>
                 ELSE IF order[m] = removed THEN f[m - 1] ELSE Append(f[m - 1], order[m])
      BY Zenon, <1>4, <3>1
    <3>3. QED
      BY <3>1, <3>2
  <2>7. f[m] = g[m]
    BY <1>2, <2>4, <2>5, <2>6
  <2>8. QED
    BY <2>2, <2>7
<1>8. QED
  BY <1>5, <1>6, <1>7 DEF removed

-----------------------------------------------------------------------------
(* The theorems *)

\* The invariant: what is checked is a play order of as many entries.
CheckInv == Len(checked) \in Nat /\ IsPlayOrder(checked, Len(checked))

LEMMA OrderKept ==
    ASSUME NEW n \in Nat, IsPlayOrder(checked', n)
    PROVE  CheckInv'
BY PlayOrderType DEF CheckInv

LEMMA CheckInductive == CheckInv /\ [CheckNext]_checked => CheckInv'
<1>1. SUFFICES ASSUME CheckInv, [CheckNext]_checked
               PROVE  CheckInv'
  OBVIOUS
<1> DEFINE n == Len(checked)
<1>2. /\ n \in Nat /\ IsPlayOrder(checked, n)
      /\ Indices \subseteq Nat /\ Counts \subseteq Nat
  BY <1>1, CheckAssumption DEF CheckInv, Indices, Counts
<1>3. ASSUME NEW count \in Counts, AppendTo(count)
      PROVE  CheckInv'
  <2>1. IsPlayOrder(checked', n + count) /\ n + count \in Nat
    BY <1>2, <1>3, AfterAppendIsPlayOrder DEF AppendTo
  <2>2. QED
    BY <2>1, OrderKept
<1>4. ASSUME NEW order_pos \in Indices, NEW count \in Counts, PlayNextAt(order_pos, count)
      PROVE  CheckInv'
  <2>1. n \in Nat \ {0} /\ order_pos \in QueueIndices(n) /\ count \in Nat
    BY <1>2, <1>4 DEF PlayNextAt, QueueIndices
  <2>2. IsPlayOrder(checked', n + count) /\ n + count \in Nat
    BY <1>2, <1>4, <2>1, PlayNextIsPlayOrder DEF PlayNextAt
  <2>3. QED
    BY <2>2, OrderKept
<1>5. ASSUME NEW removed \in Indices, RemoveEntry(removed)
      PROVE  CheckInv'
  <2>1. n \in Nat \ {0} /\ removed \in QueueIndices(n)
    BY <1>2, <1>5 DEF RemoveEntry, QueueIndices
  <2>2. IsPlayOrder(checked', n - 1) /\ n - 1 \in Nat
    BY <1>2, <1>5, <2>1, AfterRemoveIsPlayOrder DEF RemoveEntry
  <2>3. QED
    BY <2>2, OrderKept
<1>6. ASSUME NEW from \in Indices, NEW to \in Indices, MoveEntry(from, to)
      PROVE  CheckInv'
  <2>1. from \in QueueIndices(n) /\ to \in QueueIndices(n)
    BY <1>2, <1>6 DEF MoveEntry, QueueIndices
  <2>2. IsPlayOrder(checked', n)
    BY <1>2, <1>6, <2>1, AfterMoveIsPlayOrder DEF MoveEntry
  <2>3. QED
    BY <1>2, <2>2, OrderKept
<1>7. ASSUME NEW anchor \in Indices, Shuffle(anchor)
      PROVE  CheckInv'
  <2>1. IsPlayOrder(checked', n)
    BY <1>2, <1>7, ShuffledIsPlayOrder DEF Shuffle
  <2>2. QED
    BY <1>2, <2>1, OrderKept
<1>8. CASE UNCHANGED checked
  BY <1>1, <1>8 DEF CheckInv
<1>9. QED
  BY <1>1, <1>3, <1>4, <1>5, <1>6, <1>7, <1>8 DEF CheckNext

\* Every order that appends, "play next", removals, moves and shuffles lead to,
\* from an empty queue, names each index of its queue once.
THEOREM OrdersStayOrders == CheckSpec => []CheckInv
<1>1. CheckInit => CheckInv
  BY DEF CheckInit, CheckInv, IsPlayOrder, QueueIndices
<1>2. QED
  BY <1>1, CheckInductive, PTL DEF CheckSpec

\* The chain of play_order_after_remove closes the gap as AfterRemove does.
LEMMA FilterAndShiftIsRemove ==
    ASSUME NEW n \in Nat, NEW order, IsPlayOrder(order, n), NEW removed \in QueueIndices(n)
    PROVE  AfterRemove(order, removed) = FilterAndShift(order, removed)
<1> DEFINE kept == FilterOut(order, removed)
<1>1. n \in Nat \ {0}
  BY DEF QueueIndices
<1>2. PICK p \in 1..n : order[p] = removed
  BY DEF IsPlayOrder
<1>3. kept = [k \in 1..(n - 1) |-> order[IF k < p THEN k ELSE k + 1]]
  BY <1>2, FilterOutEntries
<1>4. AfterRemove(order, removed) =
         [k \in 1..(n - 1) |-> LET i == order[IF k < p THEN k ELSE k + 1]
                               IN  IF i > removed THEN i - 1 ELSE i]
  BY <1>1, <1>2, AfterRemoveEntries
<1>5. FilterAndShift(order, removed) =
         [k \in DOMAIN kept |-> IF kept[k] > removed THEN kept[k] - 1 ELSE kept[k]]
  BY DEF FilterAndShift
<1> HIDE DEF kept
<1>6. QED
  BY <1>3, <1>4, <1>5

\* The chain of play_next_insertion, which shifts and then splices, is
\* PlayNextInsertion.
LEMMA ShiftAndSpliceIsInsertion ==
    ASSUME NEW n \in Nat, NEW order, IsPlayOrder(order, n),
           NEW cursor \in QueueIndices(n), NEW count \in Nat
    PROVE  PlayNextInsertion(order, cursor, order[cursor + 1], count)
             = ShiftAndSplice(order, cursor, order[cursor + 1] + 1, count)
<1> DEFINE i == order[cursor + 1] + 1
           at == cursor + 1
           shifted == AfterInsert(order, i, count)
           added == [k \in 1..count |-> i + k - 1]
           spliced == SubSeq(shifted, 1, at) \o added \o SubSeq(shifted, at + 1, n)
           longer == PlayNextInsertion(order, cursor, order[cursor + 1], count)
<1>1. /\ n \in Nat \ {0} /\ cursor \in 0..(n - 1) /\ at \in 1..n /\ at + 1 = cursor + 2
      /\ Len(order) = n /\ DOMAIN order = 1..n /\ \A k \in 1..n : order[k] \in Nat
  BY PlayOrderType DEF IsPlayOrder, QueueIndices
<1>2. i \in Nat
  BY <1>1
<1>3. ShiftAndSplice(order, cursor, i, count) = spliced
  BY <1>1 DEF ShiftAndSplice
<1>4. longer = [k \in 1..(n + count) |->
                   IF k <= at THEN shifted[k]
                   ELSE IF k <= at + count THEN i + (k - at - 1) ELSE shifted[k - count]]
  BY <1>1 DEF PlayNextInsertion
<1>5. shifted \in Seq(Nat) /\ Len(shifted) = n
  <2>1. shifted \in [1..n -> Nat]
    BY <1>1, <1>2 DEF AfterInsert
  <2>2. QED
    BY <2>1
<1> HIDE DEF i, shifted
<1>6. /\ added \in Seq(Nat) /\ Len(added) = count
      /\ \A k \in 1..count : added[k] = i + k - 1
  <2>1. added \in [1..count -> Nat]
    BY <1>2
  <2>2. QED
    BY <2>1
<1> HIDE DEF added, at
<1> DEFINE whole == SubSeq(shifted, 1, at) \o added \o SubSeq(shifted, at + 1, Len(shifted))
<1>7. shifted \in Seq(Nat) /\ at \in 1..Len(shifted) /\ added \in Seq(Nat)
  BY <1>1, <1>5, <1>6
<1>8. whole \in Seq(Nat) /\ Len(whole) = Len(shifted) + Len(added)
  BY <1>7, SpliceLength
<1>9. \A k \in 1..(Len(shifted) + Len(added)) :
          whole[k] = IF k <= at THEN shifted[k]
                     ELSE IF k <= at + Len(added) THEN added[k - at]
                     ELSE shifted[k - Len(added)]
  BY <1>7, SpliceEntries
<1>10. whole = spliced
  BY <1>5
<1> HIDE DEF whole, spliced
<1>11. spliced \in Seq(Nat) /\ Len(spliced) = n + count
  BY <1>5, <1>6, <1>8, <1>10
<1>12. \A k \in 1..(n + count) :
         spliced[k] = IF k <= at THEN shifted[k]
                      ELSE IF k <= at + count THEN added[k - at] ELSE shifted[k - count]
  BY <1>5, <1>6, <1>9, <1>10
<1> HIDE DEF spliced, longer
<1>13. \A k \in 1..(n + count) : ~(k <= at) /\ k <= at + count => added[k - at] = i + (k - at - 1)
  BY <1>1, <1>2, <1>6
<1>14. \A k \in 1..(n + count) : spliced[k] = longer[k]
  BY <1>4, <1>12, <1>13
<1>15. spliced = longer
  BY <1>4, <1>11, <1>14
<1>16. QED
  BY <1>3, <1>15 DEF i, longer

\* The closed forms this project reasons with are the iterator chains that the
\* source writes, for queues and batches of any size.
THEOREM ClosedFormsMatchSource == CheckSpec => []MatchesSource
<1>1. CheckInv => MatchesSource
  <2>1. SUFFICES ASSUME CheckInv
                 PROVE  MatchesSource
    OBVIOUS
  <2>2. Len(checked) \in Nat /\ IsPlayOrder(checked, Len(checked)) /\ Counts \subseteq Nat
    BY <2>1, CheckAssumption DEF CheckInv, Counts
  <2>3. QED
    BY <2>2, FilterAndShiftIsRemove, ShiftAndSpliceIsInsertion DEF MatchesSource
<1>2. QED
  BY <1>1, OrdersStayOrders, PTL

\* The entries told apart by their indices: their line is the order itself.
LEMMA IndicesAsQueue ==
    ASSUME CheckInv
    PROVE  /\ Queue \in Seq(Nat) /\ Len(Queue) = Len(checked)
           /\ checked \in Seq(Nat)
           /\ Line(Queue, checked) = checked
           /\ \A i \in QueueIndices(Len(checked)) : Queue[i + 1] = i
<1> DEFINE n == Len(checked)
<1>1. n \in Nat /\ IsPlayOrder(checked, n)
  BY DEF CheckInv
<1>2. Queue = [k \in 1..n |-> k - 1]
  BY DEF Queue, IdentityOrder
<1>3. Queue \in [1..n -> Nat]
  BY <1>1, <1>2
<1>4. Queue \in Seq(Nat) /\ Len(Queue) = n
  BY <1>1, <1>3
<1>5. checked \in [1..n -> QueueIndices(n)]
  BY <1>1 DEF IsPlayOrder
<1>6. \A i \in QueueIndices(n) : Queue[i + 1] = i
  BY <1>1, <1>2 DEF QueueIndices
<1>7. Line(Queue, checked) = checked
  BY <1>5, <1>6 DEF Line
<1>8. checked \in Seq(Nat)
  BY <1>1, PlayOrderType
<1>9. QED
  BY <1>4, <1>6, <1>7, <1>8

LEMMA FreshType ==
    ASSUME CheckInv, NEW count \in Nat
    PROVE  Fresh(count) \in Seq(Nat) /\ Len(Fresh(count)) = count
<1>1. Fresh(count) \in [1..count -> Nat]
  BY DEF CheckInv, Fresh
<1>2. QED
  BY <1>1

\* An append adds to the end of the line, "play next" right behind the cursor,
\* a removal takes its own entry out and a move changes nothing: so for queues
\* and batches of any size, and for every order a shuffle may have made.
THEOREM EditsDoAsTheySay == CheckSpec => EditsKeepLine
<1>1. ASSUME CheckInv, NEW count \in Counts, AppendTo(count)
      PROVE  Line(Queue \o Fresh(count), checked') = checked \o Fresh(count)
  <2>1. count \in Nat /\ IsPlayOrder(checked, Len(Queue))
    BY <1>1, IndicesAsQueue, CheckAssumption DEF CheckInv, Counts
  <2>2. /\ Queue \in Seq(Nat) /\ Fresh(count) \in Seq(Nat) /\ Len(Fresh(count)) = count
        /\ Line(Queue, checked) = checked
    BY <1>1, <2>1, IndicesAsQueue, FreshType
  <2>3. Queue \in Seq(Nat) /\ Fresh(count) \in Seq(Nat) /\ IsPlayOrder(checked, Len(Queue))
    BY <2>1, <2>2
  <2>4. Line(Queue \o Fresh(count), AfterAppend(checked, Len(Fresh(count))))
          = Line(Queue, checked) \o Fresh(count)
    BY <2>3, LineAfterAppend
  <2>5. QED
    BY <1>1, <2>2, <2>4 DEF AppendTo
<1>2. ASSUME CheckInv, NEW order_pos \in Indices, NEW count \in Counts,
             PlayNextAt(order_pos, count)
      PROVE  LET at == checked[order_pos + 1] + 1
                 longer == SubSeq(Queue, 1, at) \o Fresh(count)
                             \o SubSeq(Queue, at + 1, Len(Queue))
             IN  Line(longer, checked') = SubSeq(checked, 1, order_pos + 1) \o Fresh(count)
                                          \o SubSeq(checked, order_pos + 2, Len(checked))
  <2>1. /\ count \in Nat /\ IsPlayOrder(checked, Len(Queue))
        /\ Len(Queue) = Len(checked) /\ order_pos \in QueueIndices(Len(Queue))
    BY <1>2, IndicesAsQueue, CheckAssumption
    DEF CheckInv, Counts, Indices, PlayNextAt, QueueIndices
  <2>2. /\ Queue \in Seq(Nat) /\ Fresh(count) \in Seq(Nat) /\ Len(Fresh(count)) = count
        /\ Line(Queue, checked) = checked
    BY <1>2, <2>1, IndicesAsQueue, FreshType
  <2> DEFINE at == checked[order_pos + 1] + 1
             longer == SubSeq(Queue, 1, at) \o Fresh(count)
                         \o SubSeq(Queue, at + 1, Len(Queue))
  <2>3. /\ Queue \in Seq(Nat) /\ Fresh(count) \in Seq(Nat) /\ IsPlayOrder(checked, Len(Queue))
        /\ order_pos \in QueueIndices(Len(Queue))
    BY <2>1, <2>2
  <2>4. Line(longer, PlayNextInsertion(checked, order_pos, checked[order_pos + 1],
                                       Len(Fresh(count))))
          = SubSeq(Line(Queue, checked), 1, order_pos + 1) \o Fresh(count)
              \o SubSeq(Line(Queue, checked), order_pos + 2, Len(Queue))
    BY <2>3, LineAfterPlayNext
  <2>5. QED
    BY <1>2, <2>1, <2>2, <2>4 DEF PlayNextAt
<1>3. ASSUME CheckInv, NEW removed \in Indices, RemoveEntry(removed)
      PROVE  Line(RemoveAt(Queue, removed + 1), checked') = FilterOut(checked, removed)
  <2> DEFINE n == Len(checked)
  <2>1. /\ n \in Nat /\ IsPlayOrder(checked, n) /\ removed \in QueueIndices(n)
        /\ Len(Queue) = n /\ Queue \in Seq(Nat) /\ checked \in Seq(Nat)
        /\ Line(Queue, checked) = checked
    BY <1>3, IndicesAsQueue, CheckAssumption DEF CheckInv, Indices, RemoveEntry, QueueIndices
  <2>2. PICK p \in 1..n : checked[p] = removed
    BY <2>1 DEF IsPlayOrder
  <2>3. Line(RemoveAt(Queue, removed + 1), AfterRemove(checked, removed)) = RemoveAt(checked, p)
    <3>1. Queue \in Seq(Nat) /\ IsPlayOrder(checked, Len(Queue)) /\ p \in 1..Len(Queue)
      BY <2>1
    <3>2. Line(RemoveAt(Queue, checked[p] + 1), AfterRemove(checked, checked[p]))
            = RemoveAt(Line(Queue, checked), p)
      BY <3>1, LineAfterRemove
    <3>3. QED
      BY <2>1, <2>2, <3>2
  <2>4. FilterOut(checked, removed) = [k \in 1..(n - 1) |-> checked[IF k < p THEN k ELSE k + 1]]
    BY <2>1, <2>2, FilterOutEntries
  <2>5. /\ RemoveAt(checked, p) \in Seq(Nat) /\ Len(RemoveAt(checked, p)) = n - 1
        /\ \A k \in 1..(n - 1) :
              RemoveAt(checked, p)[k] = IF k < p THEN checked[k] ELSE checked[k + 1]
    BY <2>1, RemoveAtFacts
  <2> DEFINE rest == RemoveAt(checked, p)
  <2> HIDE DEF rest
  <2>6. rest = [k \in 1..(n - 1) |-> rest[k]]
    BY <2>5 DEF rest
  <2>7. rest = FilterOut(checked, removed)
    BY <2>4, <2>5, <2>6 DEF rest
  <2>8. QED
    BY <1>3, <2>3, <2>7 DEF RemoveEntry, rest
<1>4. ASSUME CheckInv, NEW from \in Indices, NEW to \in Indices, MoveEntry(from, to)
      PROVE  Line(InsertAt(RemoveAt(Queue, from + 1), to + 1, from), checked') = checked
  <2>1. /\ IsPlayOrder(checked, Len(Queue)) /\ Queue \in Seq(Nat)
        /\ Len(Queue) = Len(checked) /\ Line(Queue, checked) = checked
    BY <1>4, IndicesAsQueue DEF CheckInv
  <2>2. from \in QueueIndices(Len(Queue)) /\ to \in QueueIndices(Len(Queue))
    BY <1>4, <2>1, CheckAssumption DEF CheckInv, Indices, MoveEntry, QueueIndices
  <2>3. Queue[from + 1] = from
    BY <1>4, <2>1, <2>2, IndicesAsQueue
  <2>4. Line(InsertAt(RemoveAt(Queue, from + 1), to + 1, Queue[from + 1]),
             AfterMove(checked, from, to)) = Line(Queue, checked)
    BY <2>1, <2>2, LineAfterMove
  <2>5. QED
    BY <1>4, <2>1, <2>3, <2>4 DEF MoveEntry
<1> DEFINE KeepsLine ==
       /\ \A count \in Counts : AppendTo(count) =>
             Line(Queue \o Fresh(count), checked') = checked \o Fresh(count)
       /\ \A order_pos \in Indices, count \in Counts : PlayNextAt(order_pos, count) =>
             LET at == checked[order_pos + 1] + 1
                 longer == SubSeq(Queue, 1, at) \o Fresh(count)
                             \o SubSeq(Queue, at + 1, Len(Queue))
             IN  Line(longer, checked') = SubSeq(checked, 1, order_pos + 1) \o Fresh(count)
                                          \o SubSeq(checked, order_pos + 2, Len(checked))
       /\ \A removed \in Indices : RemoveEntry(removed) =>
             Line(RemoveAt(Queue, removed + 1), checked')
               = FilterOut(checked, removed)
       /\ \A from, to \in Indices : MoveEntry(from, to) =>
             Line(InsertAt(RemoveAt(Queue, from + 1), to + 1, from), checked') = checked
<1>5. CheckInv => KeepsLine
  BY <1>1, <1>2, <1>3, <1>4
<1>6. CheckInv => [KeepsLine]_checked
  BY <1>5
<1>7. QED
  BY <1>6, OrdersStayOrders, PTL DEF EditsKeepLine

=============================================================================
