-------------------------- MODULE RangeReader_proofs --------------------------
(***************************************************************************)
(* RangeReader is a byte stream, for every length, buffer and chunk size.  *)
(***************************************************************************)
EXTENDS RangeReader, TLAPS

\* What is still to be skipped of an open body leads to the position.
BodyReachesPosition == ~body.over => body.next + pending_skip = pos /\ body.next < Length

\* A body that has run out has run out at the end, or was cut.
OverOnlyAtEnd == body # NoBody /\ body.over => pos >= Length \/ cut

ReaderInv == TypeOK /\ BodyReachesPosition /\ OverOnlyAtEnd

LEMMA InitInv == Init => ReaderInv
<1> SUFFICES ASSUME Init
             PROVE  ReaderInv
  OBVIOUS
<1>1. cut \in BOOLEAN
  BY Zenon DEF Init
<1>2. /\ pos = 0 /\ len = Unknown /\ pending_skip = 0 /\ buffer = 0
      /\ body = [next |-> -1, over |-> TRUE]
  BY DEF Init, NoBody
<1>3. QED
  BY ReaderAssumption, <1>1, <1>2
     DEF ReaderInv, TypeOK, BodyReachesPosition, OverOnlyAtEnd, NoBody

\* A body opened, or taken from, is described by the byte it is at.
LEMMA BodyFromType ==
    ASSUME NEW first \in 0..MaxOffset
    PROVE  /\ BodyFrom(first) \in [next : -1..MaxOffset, over : BOOLEAN]
           /\ BodyFrom(first).next = first
           /\ BodyFrom(first).over <=> first >= Length
<1>1. first \in -1..MaxOffset
  BY ReaderAssumption
<1>2. CASE first >= Length
  <2>1. (first >= Length) = TRUE
    BY <1>2
  <2>2. BodyFrom(first) = [next |-> first, over |-> TRUE]
    BY <2>1, Zenon DEF BodyFrom
  <2>3. QED
    BY <1>1, <1>2, <2>2
<1>3. CASE ~(first >= Length)
  <2>1. (first >= Length) = FALSE
    BY <1>3
  <2>2. BodyFrom(first) = [next |-> first, over |-> FALSE]
    BY <2>1, Zenon DEF BodyFrom
  <2>3. QED
    BY <1>1, <1>3, <2>2
<1>4. QED
  BY <1>2, <1>3

\* A position a seek ends up at is a position.
LEMMA OffsetInRange ==
    ASSUME TypeOK, NEW seek \in Stream!Seeks, NEW target \in Offset(seek)
    PROVE  target \in 0..MaxOffset
BY ReaderAssumption DEF Stream!Seeks, Offset

\* It is the one the stream's seek asks for.
LEMMA OffsetIsTarget ==
    ASSUME TypeOK, NEW seek \in Stream!Seeks, NEW target \in Offset(seek)
    PROVE  target = Stream!Target(seek)
BY ReaderAssumption DEF Stream!Seeks, Offset, Stream!Target, TypeOK

\* A seek that fails has no target, or is one from the end.
LEMMA NoOffsetNoTarget ==
    ASSUME TypeOK, NEW seek \in Stream!Seeks, Offset(seek) = {}
    PROVE  Stream!Target(seek) \notin 0..MaxOffset \/ seek[1] = "end"
BY ReaderAssumption DEF Stream!Seeks, Offset, Stream!Target, TypeOK

LEMMA StepInv ==
    ASSUME ReaderInv, [Next]_vars
    PROVE  ReaderInv'
<1> USE ReaderAssumption
<1> DEFINE Bodies == [next : -1..MaxOffset, over : BOOLEAN]
<1>0. /\ TypeOK /\ BodyReachesPosition /\ OverOnlyAtEnd
      /\ pos \in 0..MaxOffset /\ pending_skip \in 0..MaxOffset /\ body \in Bodies
  BY DEF ReaderInv, TypeOK
<1>1. CASE CallRead
  BY <1>0, <1>1 DEF CallRead, ReaderInv, TypeOK, BodyReachesPosition, OverOnlyAtEnd
<1>2. CASE OpenRange
  <2>1. /\ body' = BodyFrom(pos) /\ pending_skip' = 0 /\ pos' = pos /\ buffer' = buffer /\ cut' = cut
        /\ len' \in {Unknown, Length}
    BY <1>0, <1>2 DEF OpenRange, LearnLength, TypeOK
  <2>2. body' \in Bodies /\ body'.next = pos /\ (body'.over <=> pos >= Length)
    BY <1>0, <2>1, BodyFromType
  <2>3. TypeOK'
    BY <1>0, <2>1, <2>2 DEF TypeOK
  <2>4. BodyReachesPosition' /\ OverOnlyAtEnd'
    BY <1>0, <2>1, <2>2 DEF BodyReachesPosition, OverOnlyAtEnd
  <2>5. QED
    BY <2>3, <2>4 DEF ReaderInv
<1>3. CASE OpenWhole
  <2>1. /\ body' = BodyFrom(0) /\ pending_skip' = pos /\ pos' = pos /\ buffer' = buffer /\ cut' = cut
        /\ len' \in {Unknown, Length}
    BY <1>0, <1>3 DEF OpenWhole, LearnLength, TypeOK
  <2>2. body' \in Bodies /\ body'.next = 0 /\ (body'.over <=> 0 >= Length)
    BY <1>0, <2>1, BodyFromType
  <2>3. TypeOK'
    BY <1>0, <2>1, <2>2 DEF TypeOK
  <2>4. BodyReachesPosition' /\ OverOnlyAtEnd'
    BY <1>0, <2>1, <2>2 DEF BodyReachesPosition, OverOnlyAtEnd
  <2>5. QED
    BY <2>3, <2>4 DEF ReaderInv
<1>4. CASE OpenFails
  BY <1>0, <1>4 DEF OpenFails, Return, ReaderInv, TypeOK, BodyReachesPosition, OverOnlyAtEnd
<1>5. CASE Skip
  <2>1. PICK n \in 1..Smaller(Smaller(pending_skip, ChunkSize), Length - body.next) :
            body' = BodyFrom(body.next + n) /\ pending_skip' = pending_skip - n
    BY <1>5 DEF Skip
  <2>2. ~body.over /\ UNCHANGED <<pos, len, buffer, cut>> /\ body.next + pending_skip = pos
    BY <1>0, <1>5 DEF Skip, BodyReachesPosition
  <2>3. /\ body.next \in Int /\ n \in Int /\ n >= 1 /\ n <= pending_skip
        /\ n <= Length - body.next
    BY <1>0, <2>1 DEF Smaller
  <2>4. body.next + n \in 0..MaxOffset
    BY <1>0, <2>2, <2>3
  <2>5. /\ body' \in Bodies /\ body'.next = body.next + n
        /\ body'.over <=> body.next + n >= Length
    BY <2>1, <2>4, BodyFromType
  <2>6. TypeOK'
    BY <1>0, <2>1, <2>2, <2>3, <2>5 DEF TypeOK
  <2>7. BodyReachesPosition' /\ OverOnlyAtEnd'
    BY <1>0, <2>1, <2>2, <2>3, <2>5 DEF BodyReachesPosition, OverOnlyAtEnd
  <2>8. QED
    BY <2>6, <2>7 DEF ReaderInv
<1>6. CASE SkipEnds
  <2>1. body.over /\ pending_skip' = 0 /\ buffer' = 0 /\ UNCHANGED <<pos, len, body, cut>>
    BY <1>6 DEF SkipEnds, Return
  <2>2. QED
    BY <1>0, <2>1 DEF ReaderInv, TypeOK, BodyReachesPosition, OverOnlyAtEnd
<1>7. CASE ReadBytes
  <2>1. PICK n \in 1..Smaller(buffer, Length - body.next) :
            body' = BodyFrom(body.next + n) /\ pos' = pos + n
    BY <1>7 DEF ReadBytes
  <2>0. cut' \in BOOLEAN
    BY <1>7, Zenon DEF ReadBytes
  <2>2. /\ ~body.over /\ pending_skip = 0 /\ buffer' = 0
        /\ UNCHANGED <<len, pending_skip>> /\ body.next = pos
    BY <1>0, <1>7 DEF ReadBytes, Reading, Return, BodyReachesPosition
  <2>3. n \in Int /\ n >= 1 /\ n <= Length - pos /\ pos + n \in 0..MaxOffset
    BY <1>0, <2>1, <2>2 DEF Smaller, TypeOK
  <2>4. body' \in Bodies /\ body'.next = pos + n /\ (body'.over <=> pos + n >= Length)
    BY <2>1, <2>2, <2>3, BodyFromType
  <2>5. TypeOK'
    BY <1>0, <2>0, <2>1, <2>2, <2>3, <2>4 DEF TypeOK
  <2>6. BodyReachesPosition' /\ OverOnlyAtEnd'
    BY <1>0, <2>1, <2>2, <2>3, <2>4 DEF BodyReachesPosition, OverOnlyAtEnd
  <2>7. QED
    BY <2>5, <2>6 DEF ReaderInv
<1>8. CASE ReadEnds
  <2>1. body' = NoBody /\ buffer' = 0 /\ UNCHANGED <<pos, len, pending_skip, cut>>
    BY <1>8 DEF ReadEnds, Return
  <2>2. NoBody \in Bodies /\ NoBody.over
    BY DEF NoBody
  <2>3. QED
    BY <1>0, <2>1, <2>2 DEF ReaderInv, TypeOK, BodyReachesPosition, OverOnlyAtEnd
<1>9. CASE ReadFails \/ BodyBreaks
  <2>1. /\ body' = [body EXCEPT !.over = TRUE] /\ cut' = TRUE
        /\ buffer' \in {0, buffer} /\ UNCHANGED <<pos, len, pending_skip>>
    BY <1>9 DEF ReadFails, BodyBreaks, Break, Return
  <2>2. body' \in Bodies /\ body'.over
    BY <1>0, <2>1
  <2>3. QED
    BY <1>0, <2>1, <2>2 DEF ReaderInv, TypeOK, BodyReachesPosition, OverOnlyAtEnd
<1>10. ASSUME NEW seek \in Stream!Seeks, Seek(seek)
       PROVE  ReaderInv'
  <2>1. PICK target \in Offset(seek) : MoveTo(target)
    BY <1>10 DEF Seek
  <2>2. target \in 0..MaxOffset /\ UNCHANGED <<len, buffer>>
    BY <1>0, <1>10, OffsetInRange DEF Seek
  <2>3. CASE UNCHANGED <<pos, body, pending_skip, cut>>
    BY <1>0, <2>2, <2>3 DEF ReaderInv, TypeOK, BodyReachesPosition, OverOnlyAtEnd
  <2>4. CASE pos' = target /\ body' = NoBody /\ pending_skip' = 0 /\ cut' = FALSE
    <3>1. NoBody \in Bodies /\ NoBody.over
      BY DEF NoBody
    <3>2. cut' \in BOOLEAN
      BY <2>4, Zenon
    <3>3. pos' = target /\ body' = NoBody /\ pending_skip' = 0
      BY <2>4
    <3>4. QED
      BY <1>0, <2>2, <3>1, <3>2, <3>3 DEF ReaderInv, TypeOK, BodyReachesPosition, OverOnlyAtEnd
  <2>5. QED
    BY <2>1, <2>3, <2>4 DEF MoveTo
<1>11. ASSUME NEW seek \in Stream!Seeks, SeekFails(seek)
       PROVE  ReaderInv'
  BY <1>0, <1>11 DEF SeekFails, ReaderInv, TypeOK, BodyReachesPosition, OverOnlyAtEnd
<1>12. CASE UNCHANGED vars
  BY <1>0, <1>12 DEF vars, ReaderInv, TypeOK, BodyReachesPosition, OverOnlyAtEnd
<1>13. QED
  BY <1>1, <1>2, <1>3, <1>4, <1>5, <1>6, <1>7, <1>8, <1>9, <1>10, <1>11, <1>12
     DEF Next, Open, Take

\* Every step of the reader is one of the stream, or moves nothing it shows.
LEMMA StepRefines ==
    ASSUME ReaderInv, [Next]_vars
    PROVE  [Stream!Next]_(Stream!vars)
<1> USE ReaderAssumption
<1>0. TypeOK /\ BodyReachesPosition /\ OverOnlyAtEnd
  BY DEF ReaderInv
<1>1. CASE CallRead \/ OpenRange \/ OpenWhole \/ Skip \/ UNCHANGED vars
  BY <1>1 DEF CallRead, OpenRange, OpenWhole, Skip, vars, Stream!vars
<1>2. CASE OpenFails
  <2>1. Stream!ReadFails
    BY <1>2 DEF OpenFails, Return, Stream!ReadFails
  <2>2. QED
    BY <2>1 DEF Stream!Next
<1>3. CASE SkipEnds \/ ReadEnds
  <2>1. body # NoBody /\ body.over /\ result' = Stream!End /\ UNCHANGED <<pos, cut>>
    BY <1>3 DEF SkipEnds, ReadEnds, Skipping, Reading, Return
  <2>2. Stream!ReadEnd
    BY <1>0, <2>1 DEF OverOnlyAtEnd, Stream!ReadEnd
  <2>3. QED
    BY <2>2 DEF Stream!Next
<1>4. CASE ReadBytes
  <2>1. PICK n \in 1..Smaller(buffer, Length - body.next) :
            pos' = pos + n /\ result' = Stream!Bytes(body.next, n) /\ cut' = FALSE
    BY <1>4 DEF ReadBytes, Return
  <2>2. body.next = pos
    BY <1>0, <1>4 DEF ReadBytes, Reading, BodyReachesPosition, TypeOK
  <2>3. n \in 1..(Length - pos)
    BY <1>0, <2>1, <2>2 DEF Smaller, TypeOK
  <2>4. Stream!ReadBytes
    BY <2>1, <2>2, <2>3 DEF Stream!ReadBytes
  <2>5. QED
    BY <2>4 DEF Stream!Next
<1>5. CASE ReadFails
  <2>1. Stream!ReadFails
    BY <1>5 DEF ReadFails, Break, Return, Stream!ReadFails
  <2>2. QED
    BY <2>1 DEF Stream!Next
<1>6. CASE BodyBreaks
  BY <1>6 DEF BodyBreaks, Break, Stream!Next, Stream!Cut
<1>7. ASSUME NEW seek \in Stream!Seeks, Seek(seek)
      PROVE  Stream!Seek
  <2>1. PICK target \in Offset(seek) : MoveTo(target)
    BY <1>7 DEF Seek
  <2>2. target \in 0..MaxOffset /\ target = Stream!Target(seek)
    BY <1>0, OffsetInRange, OffsetIsTarget
  <2>3. pos' = target /\ result' = Stream!At(seek) /\ cut' = (cut /\ pos' = pos)
    BY <1>0, <1>7, <2>1, Zenon DEF MoveTo, Seek, TypeOK
  <2>4. QED
    BY <2>2, <2>3 DEF Stream!Seek
<1>8. ASSUME NEW seek \in Stream!Seeks, SeekFails(seek)
      PROVE  Stream!SeekFails
  <2>1. result' = Stream!Failed /\ UNCHANGED <<pos, cut>> /\ Offset(seek) = {}
    BY <1>8 DEF SeekFails
  <2>2. Stream!Target(seek) \notin 0..MaxOffset \/ seek[1] = "end"
    BY <1>0, <2>1, NoOffsetNoTarget
  <2>3. QED
    BY <2>1, <2>2 DEF Stream!SeekFails
<1>9. QED
  BY <1>1, <1>2, <1>3, <1>4, <1>5, <1>6, <1>7, <1>8 DEF Next, Open, Take, Stream!Next

\* The invariant, with the types: no position under zero or past the largest.
THEOREM ReaderInvariant == Spec => []ReaderInv
<1>1. QED
  BY InitInv, StepInv, PTL DEF Spec

THEOREM ReaderTypeCorrect == Spec => []TypeOK
<1>1. ReaderInv => TypeOK
  BY DEF ReaderInv
<1>2. QED
  BY <1>1, ReaderInvariant, PTL

\* Whatever mix of ranges honoured and ignored, broken bodies and retries a
\* server produces, the decoder reads the bytes that lie at the position and
\* sees an end only behind the last byte or behind a cut.
THEOREM IsByteStream == Spec => ImplementsByteStream
<1>1. Init => Stream!Init
  BY DEF Init, Stream!Init
<1>2. QED
  BY <1>1, StepRefines, ReaderInvariant, PTL DEF Spec, ImplementsByteStream, Stream!Spec
=============================================================================
