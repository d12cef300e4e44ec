----------------------------- MODULE RangeReader -----------------------------
(***************************************************************************)
(* RangeReader of daemon/src/range_reader.rs: Read and Seek over HTTP      *)
(* Range requests, for a server that may honour them or not.               *)
(*                                                                         *)
(* A call of read() is its loop, an iteration a step; nothing but the      *)
(* network moves meanwhile, since the decoder owns the reader.  The bytes  *)
(* of a body are known by their offsets in the resource.                   *)
(***************************************************************************)
EXTENDS Integers

CONSTANTS
    Length, MaxOffset,  \* as in ByteStream
    MaxBuffer,          \* bound: the largest buffer given to read()
    ChunkSize           \* the 8192 bytes of `sink`

ASSUME ReaderAssumption ==
    /\ Length \in Nat /\ MaxOffset \in Nat /\ Length <= MaxOffset
    /\ MaxBuffer \in Nat \ {0} /\ ChunkSize \in Nat \ {0}

Smaller(a, b) == IF a < b THEN a ELSE b

VARIABLES
    pos,           \* where the next byte returned lies
    len,           \* the length, once a response told it
    body,          \* the open body: its next byte, and whether it is over
    pending_skip,
    buffer,        \* bytes the read() under way may return, 0 between calls
    result,        \* what the last call returned
    cut            \* history: the open body was cut

vars == <<pos, len, body, pending_skip, buffer, result, cut>>

\* What a correct reader does.
Stream == INSTANCE ByteStream WITH Length <- Length, MaxOffset <- MaxOffset,
                                 pos <- pos, result <- result, cut <- cut

Unknown == -1
NoBody == [next |-> -1, over |-> TRUE]
BodyFrom(first) == [next |-> first, over |-> first >= Length]

Init ==
    /\ pos = 0 /\ len = Unknown /\ body = NoBody /\ pending_skip = 0
    /\ buffer = 0 /\ result = Stream!Nothing /\ cut = FALSE

-----------------------------------------------------------------------------
(* read(): opening a body *)

Return(value) == buffer' = 0 /\ result' = value

CallRead ==
    /\ buffer = 0
    /\ buffer' \in 1..MaxBuffer
    /\ UNCHANGED <<pos, len, body, pending_skip, result, cut>>

NeedsBody == buffer > 0 /\ body = NoBody

\* The header with the length may be missing; a length once learned stays.
LearnLength == len' \in IF len = Unknown THEN {Unknown, Length} ELSE {len}

\* 206: the body starts at `pos`; behind the end it is empty.
OpenRange ==
    /\ NeedsBody
    /\ body' = BodyFrom(pos) /\ pending_skip' = 0
    /\ LearnLength
    /\ UNCHANGED <<pos, buffer, result, cut>>

\* The whole resource, taken for the range asked for.
OpenWholeUnskipped ==
    /\ NeedsBody
    /\ body' = BodyFrom(0) /\ pending_skip' = 0
    /\ LearnLength
    /\ UNCHANGED <<pos, buffer, result, cut>>

\* 200: the server ignored the range, the body starts at byte 0.
OpenWhole ==
    /\ NeedsBody
    /\ body' = BodyFrom(0) /\ pending_skip' = pos
    /\ LearnLength
    /\ UNCHANGED <<pos, buffer, result, cut>>

\* No answer, or another status: 416 for a range that begins behind the end.
OpenFails ==
    /\ NeedsBody
    /\ Return(Stream!Failed)
    /\ UNCHANGED <<pos, len, body, pending_skip, cut>>

-----------------------------------------------------------------------------
(* read(): taking bytes from it *)

Skipping == buffer > 0 /\ body # NoBody /\ pending_skip > 0
Reading  == buffer > 0 /\ body # NoBody /\ pending_skip = 0

\* One discarding body.read().
Skip ==
    /\ Skipping /\ ~body.over
    /\ \E n \in 1..Smaller(Smaller(pending_skip, ChunkSize), Length - body.next) :
        /\ body' = BodyFrom(body.next + n)
        /\ pending_skip' = pending_skip - n
    /\ UNCHANGED <<pos, len, buffer, result, cut>>

\* "treat as EOF rather than looping forever": looping forever.
SkipEndsLooping == Skipping /\ body.over /\ UNCHANGED vars

SkipEnds ==
    /\ Skipping /\ body.over
    /\ pending_skip' = 0 /\ Return(Stream!End)
    /\ UNCHANGED <<pos, len, body, cut>>

ReadBytes ==
    /\ Reading /\ ~body.over
    /\ \E n \in 1..Smaller(buffer, Length - body.next) :
        /\ body' = BodyFrom(body.next + n)
        /\ pos' = pos + n
        /\ Return(Stream!Bytes(body.next, n))
    /\ cut' = FALSE
    /\ UNCHANGED <<len, pending_skip>>

ReadEnds ==
    /\ Reading /\ body.over
    /\ body' = NoBody /\ Return(Stream!End)
    /\ UNCHANGED <<pos, len, pending_skip, cut>>

\* The connection breaks in the middle of a body.  With a length announced the
\* read under way fails, and the body ends there; without one the body just
\* ends, at any time.
Break == ~body.over /\ body' = [body EXCEPT !.over = TRUE] /\ cut' = TRUE

ReadFails ==
    /\ buffer > 0 /\ Break
    /\ Return(Stream!Failed)
    /\ UNCHANGED <<pos, len, pending_skip>>

BodyBreaks == Break /\ UNCHANGED <<pos, len, pending_skip, buffer, result>>

-----------------------------------------------------------------------------
(* seek() *)

\* None is an error: no such position, or the length is not yet known.
OffsetUnchecked(seek) ==
    CASE seek[1] = "start"   -> {seek[2]}
      [] seek[1] = "current" -> {pos + seek[2]}
      [] seek[1] = "end"     -> IF len = Unknown THEN {} ELSE {len + seek[2]}

Offset(seek) ==
    CASE seek[1] = "start"   -> {seek[2]}
      [] seek[1] = "current" -> {pos + seek[2]} \cap 0..MaxOffset
      [] seek[1] = "end"     ->
            IF len = Unknown THEN {} ELSE {len + seek[2]} \cap 0..MaxOffset

MoveTo(target) ==
    IF target = pos THEN UNCHANGED <<pos, body, pending_skip, cut>>
    ELSE pos' = target /\ body' = NoBody /\ pending_skip' = 0 /\ cut' = FALSE

Seek(seek) ==
    /\ buffer = 0
    /\ \E target \in Offset(seek) : MoveTo(target)
    /\ result' = Stream!At(seek)
    /\ UNCHANGED <<len, buffer>>

SeekFails(seek) ==
    /\ buffer = 0
    /\ Offset(seek) = {}
    /\ result' = Stream!Failed
    /\ UNCHANGED <<pos, len, body, pending_skip, buffer, cut>>

-----------------------------------------------------------------------------
Open == OpenRange \/ OpenWhole \/ OpenFails
Take == Skip \/ SkipEnds \/ ReadBytes \/ ReadEnds \/ ReadFails

Next ==
    \/ CallRead \/ Open \/ Take \/ BodyBreaks
    \/ \E seek \in Stream!Seeks : Seek(seek) \/ SeekFails(seek)

\* The blocking client answers a request, or a read of a body, or times out.
Spec == Init /\ [][Next]_vars /\ WF_vars(Open) /\ WF_vars(Take)

-----------------------------------------------------------------------------
(* Properties *)

\* The types; in particular a position is never negative nor past u64::MAX.
TypeOK ==
    /\ pos \in 0..MaxOffset
    /\ len \in {Unknown, Length}
    /\ body \in [next : -1..MaxOffset, over : BOOLEAN]
    /\ pending_skip \in 0..MaxOffset
    /\ buffer \in 0..MaxBuffer
    /\ cut \in BOOLEAN

\* Bytes come from where the reader says it is and seeks go where they are
\* asked to, in any mix of honoured and ignored ranges, broken bodies and
\* retries: "playback stays *correct* even when it can't be as cheap".  No end
\* is reported before the last byte unless the body was cut.
ImplementsByteStream == Stream!Spec

\* A read returns: it never loops on a body that is over.
ReadsReturn == buffer > 0 ~> buffer = 0
=============================================================================
