------------------------------ MODULE PlayLine ------------------------------
(***************************************************************************)
(* What a listener is promised of the queue: a line of tracks in the order *)
(* they are played in, a place in it, and the track that is heard, which   *)
(* is the one at that place.  There is no queue behind the line, no order  *)
(* of indices and no cursor into one: what shuffles, moves and splices do  *)
(* to those shows here only as what becomes of the line.                   *)
(***************************************************************************)
EXTENDS Integers, Sequences, SequencesExt, Functions

CONSTANTS
    Tracks,      \* what can be played
    NoTrack,     \* what is heard when nothing is
    Additions,   \* what may be added to the line at once
    Replacements \* what may take its place

VARIABLES
    line,    \* the tracks, in the order they are played in
    at,      \* the place in the line, from 0
    heard    \* the track that is heard, or NoTrack

vars == <<line, at, heard>>

Init == line = <<>> /\ at = 0 /\ heard = NoTrack

Silent == heard' = NoTrack

-----------------------------------------------------------------------------
(* While something is heard, it goes on *)

AddLast(tracks) == line' = line \o tracks /\ UNCHANGED <<at, heard>>

\* "Play next": right behind the place, whatever comes after it.
AddNext(tracks) ==
    /\ line # <<>>
    /\ line' = SubSeq(line, 1, at + 1) \o tracks \o SubSeq(line, at + 2, Len(line))
    /\ UNCHANGED <<at, heard>>

\* A track other than the one at the place leaves the line.
TakeOut(k) ==
    /\ k \in DOMAIN line /\ k # at + 1
    /\ line' = RemoveAt(line, k)
    /\ at' = IF k <= at THEN at - 1 ELSE at
    /\ UNCHANGED heard

Rearrangements(tracks) == Bijection(DOMAIN tracks, DOMAIN tracks)
Rearranged(tracks, f)  == [k \in DOMAIN tracks |-> tracks[f[k]]]

\* The same tracks in another order; the place goes where its track goes.
Reorder(f) ==
    /\ f \in Rearrangements(line) /\ line' = Rearranged(line, f)
    /\ at' + 1 \in DOMAIN line /\ f[at' + 1] = at + 1
    /\ UNCHANGED heard

-----------------------------------------------------------------------------
(* It stops, and another place in the line may be taken *)

Silence == Silent /\ UNCHANGED <<line, at>>

GoTo(place) == Silent /\ place + 1 \in DOMAIN line /\ at' = place /\ UNCHANGED line

\* One place on.
Forward == GoTo(at + 1)

\* Behind the last place: from the first again, in any order.
Wrap(f) ==
    /\ at + 1 = Len(line)
    /\ f \in Rearrangements(line) /\ line' = Rearranged(line, f)
    /\ at' = 0 /\ Silent

\* With nothing heard, the first track added is gone to.
AddAndGo(tracks) ==
    /\ heard = NoTrack /\ Silent
    /\ line' = line \o tracks /\ at' = Len(line)

\* The track at the place leaves the line, and one of those left is gone to.
TakeOutHere ==
    /\ line # <<>> /\ line' = RemoveAt(line, at + 1)
    /\ at' + 1 \in DOMAIN line' /\ Silent

\* Other tracks, in any order, from the one asked for; and the same when what
\* was asked for is not known.
Replace(tracks, f, first) ==
    /\ f \in Rearrangements(tracks) /\ line' = Rearranged(tracks, f)
    /\ at' + 1 \in DOMAIN tracks /\ f[at' + 1] = first
    /\ Silent

Renew == line' \in Replacements /\ at' + 1 \in DOMAIN line' /\ Silent

Clear == line' = <<>> /\ at' = 0 /\ Silent

-----------------------------------------------------------------------------
(* It begins: what is heard is what is at the place *)

Hear ==
    /\ heard = NoTrack /\ line # <<>>
    /\ heard' = line[at + 1] /\ UNCHANGED <<line, at>>

Next ==
    \/ Hear \/ Silence \/ Clear \/ Renew \/ TakeOutHere
    \/ \E k \in DOMAIN line : TakeOut(k) \/ GoTo(k - 1)
    \/ \E tracks \in Additions : AddLast(tracks) \/ AddNext(tracks) \/ AddAndGo(tracks)
    \/ \E f \in Rearrangements(line) : Reorder(f) \/ Wrap(f)

Spec == Init /\ [][Next]_vars
=============================================================================
