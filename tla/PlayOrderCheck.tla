--------------------------- MODULE PlayOrderCheck ---------------------------
(***************************************************************************)
(* The operators of PlayOrder, applied to every order they can reach, are  *)
(* compared with the iterator chains the source writes and with what they  *)
(* are for: the entries of a queue, read through its order, are the line   *)
(* that is played, and an edit does to the line what its doc says.         *)
(*                                                                         *)
(* The queue itself is no variable: its entries are told apart by the      *)
(* index they have before the edit: its line is then `checked` itself.     *)
(***************************************************************************)
EXTENDS PlayOrder, SequencesExt

CONSTANTS
    MaxLength,  \* bound: entries in the queue
    MaxCount    \* bound: entries added at once

ASSUME CheckAssumption == MaxLength \in Nat /\ MaxCount \in Nat

VARIABLE checked   \* an order that edits and shuffles lead to

Queue == IdentityOrder(Len(checked))
Fresh(count) == [k \in 1..count |-> Len(checked) + k - 1]   \* entries new to Queue

Indices == 0..(MaxLength - 1)
Counts  == 1..MaxCount

AppendTo(count) ==
    /\ Len(checked) + count <= MaxLength
    /\ checked' = AfterAppend(checked, count)

PlayNextAt(order_pos, count) ==
    /\ order_pos < Len(checked)
    /\ Len(checked) + count <= MaxLength
    /\ checked' = PlayNextInsertion(checked, order_pos, checked[order_pos + 1], count)

RemoveEntry(removed) == removed < Len(checked) /\ checked' = AfterRemove(checked, removed)

MoveEntry(from, to) ==
    /\ from < Len(checked) /\ to < Len(checked) /\ from # to
    /\ checked' = AfterMove(checked, from, to)

Shuffle(anchor) == checked' \in ShuffledOrders(Len(checked), TRUE, anchor)

CheckInit == checked = <<>>

CheckNext ==
    \/ \E count \in Counts : AppendTo(count)
    \/ \E order_pos \in Indices, count \in Counts : PlayNextAt(order_pos, count)
    \/ \E removed \in Indices : RemoveEntry(removed)
    \/ \E from, to \in Indices : MoveEntry(from, to)
    \/ \E anchor \in Indices : Shuffle(anchor)

CheckSpec == CheckInit /\ [][CheckNext]_checked

-----------------------------------------------------------------------------
\* play_order_after_remove: filter the removed index out, then shift the
\* larger ones down.  play_next_insertion: shift, then splice the new indices
\* in behind the cursor.  (The filter is no SelectSeq, which takes a predicate
\* and which no proof could unfold.)
FilterOut(o, removed) ==
    LET kept[n \in 0..Len(o)] ==
            IF n = 0 THEN <<>>
            ELSE IF o[n] = removed THEN kept[n - 1] ELSE Append(kept[n - 1], o[n])
    IN  kept[Len(o)]

FilterAndShift(o, removed) ==
    LET kept == FilterOut(o, removed)
    IN  [k \in DOMAIN kept |-> IF kept[k] > removed THEN kept[k] - 1 ELSE kept[k]]

ShiftAndSplice(o, order_pos, insert_at, count) ==
    LET shifted == AfterInsert(o, insert_at, count)
    IN  SubSeq(shifted, 1, order_pos + 1)
          \o [k \in 1..count |-> insert_at + k - 1]
          \o SubSeq(shifted, order_pos + 2, Len(o))

\* PlayOrder's closed forms are the chains of the source.
MatchesSource ==
    /\ \A removed \in QueueIndices(Len(checked)) :
          AfterRemove(checked, removed) = FilterAndShift(checked, removed)
    /\ \A order_pos \in QueueIndices(Len(checked)), count \in Counts :
          PlayNextInsertion(checked, order_pos, checked[order_pos + 1], count)
            = ShiftAndSplice(checked, order_pos, checked[order_pos + 1] + 1, count)

\* The docs of the operators: a removal takes one entry out of the line and a
\* move none ("the existing traversal order survives"), an append adds behind
\* it, and "play next" adds right behind the cursor "regardless of shuffle".
EditsKeepLine ==
    [][/\ \A count \in Counts : AppendTo(count) =>
             Line(Queue \o Fresh(count), checked') = checked \o Fresh(count)
       /\ \A order_pos \in Indices, count \in Counts : PlayNextAt(order_pos, count) =>
             LET at == checked[order_pos + 1] + 1
                 longer == SubSeq(Queue, 1, at) \o Fresh(count)
                             \o SubSeq(Queue, at + 1, Len(Queue))
             IN  Line(longer, checked') = SubSeq(checked, 1, order_pos + 1) \o Fresh(count)
                                          \o SubSeq(checked, order_pos + 2, Len(checked))
       /\ \A removed \in Indices : RemoveEntry(removed) =>
             Line(RemoveAt(Queue, removed + 1), checked')
               = FilterOut(checked, removed)
       /\ \A from, to \in Indices : MoveEntry(from, to) =>
             Line(InsertAt(RemoveAt(Queue, from + 1), to + 1, from), checked') = checked]_checked
=============================================================================
