----------------------------- MODULE PlayOrder -----------------------------
(***************************************************************************)
(* The pure play-order arithmetic of daemon/src/playback.rs: the sequence  *)
(* of queue indices that Next and Previous step through, and what each     *)
(* edit of the queue does to it.                                           *)
(*                                                                         *)
(* The code's indices are 0-based.  So are the ELEMENTS of an order here,  *)
(* and so is a cursor into one (order_pos); only TLA+'s own way of reading *)
(* a sequence is 1-based, hence order[order_pos + 1].                      *)
(***************************************************************************)
EXTENDS Integers, Sequences

QueueIndices(n) == 0 .. (n - 1)

\* What every order has to be: each index of a queue of n entries, once.
IsPlayOrder(order, n) ==
    /\ order \in [1..n -> QueueIndices(n)]
    /\ \A i \in QueueIndices(n) : \E k \in 1..n : order[k] = i
    /\ \A j, k \in 1..n : order[j] = order[k] => j = k

\* order.iter().position(|&x| x == i).unwrap_or(default): the first match,
\* which is the only one in an order that names an index once.
Position(order, i, default) ==
    IF \E k \in DOMAIN order : order[k] = i
    THEN (CHOOSE k \in DOMAIN order : order[k] = i) - 1
    ELSE default

IdentityOrder(n) == [k \in 1..n |-> k - 1]

\* The entries of a queue in the order they are played in.
Line(entries, order) == [k \in DOMAIN order |-> entries[order[k] + 1]]

\* Every order the random shuffle can return for n entries: all of them, or,
\* when the anchor is an index of the queue, those that begin with it.
ShuffledOrders(n, shuffle, anchor) ==
    IF ~shuffle \/ n = 0
    THEN {IdentityOrder(n)}
    ELSE {order \in [1..n -> QueueIndices(n)] :
             /\ IsPlayOrder(order, n)
             /\ anchor \in QueueIndices(n) => order[1] = anchor}

\* The anchor `None`: no index of any queue.
NoAnchor == -1

\* A new queue's order; unpinned, it may put entries before the first track.
NewQueueOrdersUnpinned(n, shuffle, start) ==
    IF n = 0 THEN {<<>>} ELSE ShuffledOrders(n, shuffle, NoAnchor)

NewQueueOrders(n, shuffle, start) ==
    IF n = 0 THEN {<<>>}
    ELSE ShuffledOrders(n, shuffle, IF start < n THEN start ELSE n - 1)

\* "Thrown away" after a removal, where the source keeps what is left of it.
RebuiltAfterRemove(order, removed) == IdentityOrder(Len(order) - 1)

\* The entry `removed` is dropped and the larger indices close the gap.  An
\* order names each index once, so there is one entry to drop; PlayOrderCheck
\* compares this with the filter-and-map the code writes.
AfterRemove(order, removed) ==
    LET p == Position(order, removed, Len(order)) + 1
        Shift(i) == IF i > removed THEN i - 1 ELSE i
    IN  [k \in 1..(Len(order) - 1) |->
            Shift(IF k < p THEN order[k] ELSE order[k + 1])]

\* The forward branch of remap_index_after_move, one short at `to`.
RemapShortOfTarget(i, from, to) ==
    IF i = from THEN to
    ELSE IF from < to /\ i > from /\ i < to THEN i - 1
    ELSE IF to < from /\ i >= to /\ i < from THEN i + 1
    ELSE i

\* Where queue index i lands after queue[from] moves to position `to`.
RemapIndexAfterMove(i, from, to) ==
    IF i = from THEN to
    ELSE IF from < to /\ i > from /\ i <= to THEN i - 1
    ELSE IF to < from /\ i >= to /\ i < from THEN i + 1
    ELSE i

AfterMove(order, from, to) ==
    [k \in DOMAIN order |-> RemapIndexAfterMove(order[k], from, to)]

\* The entries from insert_at on make room; one short, insert_at itself stays.
AfterInsertShort(order, insert_at, count) ==
    [k \in DOMAIN order |-> IF order[k] > insert_at
                            THEN order[k] + count ELSE order[k]]

AfterInsert(order, insert_at, count) ==
    [k \in DOMAIN order |-> IF order[k] >= insert_at
                            THEN order[k] + count ELSE order[k]]

\* `count` new entries join the end of the order.
AfterAppend(order, count) ==
    [k \in 1..(Len(order) + count) |-> IF k <= Len(order) THEN order[k] ELSE k - 1]

\* The new entries at the order's end, where an append puts them.
PlayNextAtEnd(order, order_pos, current_index, count) ==
    LET shifted == AfterInsert(order, current_index + 1, count)
    IN  [k \in 1..(Len(order) + count) |->
            IF k <= Len(order) THEN shifted[k] ELSE current_index + k - Len(order)]

\* "Play next": the queue gains `count` entries right after current_index and
\* the order visits them right after order_pos.
PlayNextInsertion(order, order_pos, current_index, count) ==
    LET insert_at == current_index + 1
        shifted == AfterInsert(order, insert_at, count)
        at == order_pos + 1
    IN  [k \in 1..(Len(order) + count) |->
            IF k <= at THEN shifted[k]
            ELSE IF k <= at + count THEN insert_at + (k - at - 1)
            ELSE shifted[k - count]]
=============================================================================
