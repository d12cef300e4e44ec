----------------------------- MODULE ByteStream -----------------------------
(***************************************************************************)
(* What the decoder is promised by the reader it is given: Read and Seek   *)
(* over a resource of Length bytes, as if it were a file.  A byte is known *)
(* by its offset in the resource.                                          *)
(***************************************************************************)
EXTENDS Integers

CONSTANTS
    Length,    \* bytes in the resource
    MaxOffset  \* the largest position, u64::MAX in the source

VARIABLES
    pos,     \* the position
    result,  \* what the last call returned
    cut      \* the connection broke, and no byte was read since

vars == <<pos, result, cut>>

Whences == {"start", "current", "end"}
Seeks == {"start"} \X (0..MaxOffset) \cup {"current", "end"} \X (-MaxOffset..MaxOffset)

\* The position a seek asks for; it may be no position at all.
Target(seek) ==
    CASE seek[1] = "start"   -> seek[2]
      [] seek[1] = "current" -> pos + seek[2]
      [] seek[1] = "end"     -> Length + seek[2]

Nothing == [kind |-> "nothing"]
Bytes(first, count) == [kind |-> "bytes", first |-> first, count |-> count]
End == [kind |-> "end"]
Failed == [kind |-> "failed"]
At(seek) == [kind |-> "at", seek |-> seek]

Init == pos = 0 /\ result = Nothing /\ cut = FALSE

\* A read returns bytes that lie at the position, and moves it behind them.
ReadBytes ==
    /\ \E n \in 1..(Length - pos) : pos' = pos + n /\ result' = Bytes(pos, n)
    /\ cut' = FALSE

\* It returns none only behind the last byte, or because of a cut.
ReadEnd ==
    /\ pos >= Length \/ cut
    /\ result' = End /\ UNCHANGED <<pos, cut>>

\* A read may fail, for a request refused or a connection broken.
ReadFails ==
    /\ result' = Failed /\ cut' \in {cut, TRUE}
    /\ UNCHANGED pos

Cut == cut' = TRUE /\ UNCHANGED <<pos, result>>

\* A seek goes where it is asked to and leaves a cut connection behind.
Seek == \E seek \in Seeks :
    /\ Target(seek) \in 0..MaxOffset
    /\ pos' = Target(seek) /\ result' = At(seek)
    /\ cut' = (cut /\ pos' = pos)

\* Or it says that there is no such position, or that it does not know the
\* length, and leaves the position alone.
SeekFails == \E seek \in Seeks :
    /\ Target(seek) \notin 0..MaxOffset \/ seek[1] = "end"
    /\ result' = Failed /\ UNCHANGED <<pos, cut>>

Next == ReadBytes \/ ReadEnd \/ ReadFails \/ Cut \/ Seek \/ SeekFails

Spec == Init /\ [][Next]_vars
=============================================================================
