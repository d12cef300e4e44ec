----------------------- MODULE PlaybackEngine_proofs -----------------------
(***************************************************************************)
(* Proofs about PlaybackEngine, for any tracks, queue bound, batch bound   *)
(* and thresholds: first that the engine keeps its types and its play      *)
(* order (PlayOrder_proofs says why); then what it promises about          *)
(* the sink and what it publishes of it (the entry it is playing, the      *)
(* volume, the status, the position in the queue, that no listen goes      *)
(* unreported, that what changes is announced); then what an edit does to  *)
(* the tracks still to come, and that the engine implements PlayLine.      *)
(*                                                                         *)
(* The last part is about MprisBridge, which puts the two D-Bus interfaces *)
(* around the engine: what waits in the event channel brings the bus to    *)
(* what the engine has, and what is proved of the engine holds there too.  *)
(***************************************************************************)
EXTENDS MprisBridge, PlayOrder_proofs

\* The invariant the proofs are by induction on: the types, the play order,
\* that what is loading is in the queue, and that a sink plays from one (else
\* "play next" would insert past the end of an empty queue).
IInv == TypeOK /\ PlayOrderInv /\ LoadTargetExists /\ SinkHasQueue

-----------------------------------------------------------------------------
(* Facts about the data *)

LEMMA BoundedSeqType ==
    ASSUME NEW n \in Nat, NEW tracks \in BoundedSeq(Tracks, n)
    PROVE  tracks \in Seq(Tracks)
BY DEF BoundedSeq, SeqOf

LEMMA BatchType ==
    ASSUME NEW tracks \in Batches
    PROVE  tracks \in Seq(Tracks) /\ Len(tracks) \in Nat \ {0}
BY BoundedSeqType, BoundAssumption DEF Batches

\* An operation that leaves the cursor on a play order's own entry.
LEMMA CursorKeepsOrder ==
    ASSUME queue' \in Seq(Tracks), IsPlayOrder(play_order', Len(queue')),
           index' \in QueueIndices(Len(queue')),
           NEW default, order_pos' = Position(play_order', index', default)
    PROVE  PlayOrderInv'
BY PositionInOrder DEF PlayOrderInv, OrderNonEmpty, OrderEmpty, QueueIndices

\* Beginning a load of an entry of the queue puts the cursor on it.
LEMMA BeginLoadKeepsOrder ==
    ASSUME queue' \in Seq(Tracks), IsPlayOrder(play_order', Len(queue')),
           NEW i \in QueueIndices(Len(queue')), NEW outgoing, BeginLoad(i, outgoing)
    PROVE  PlayOrderInv' /\ LoadTargetExists' /\ index' = i
<1>1. i < Len(queue')
  BY DEF QueueIndices
<1>2. index' = i /\ order_pos' = Position(play_order', i, i)
  BY <1>1 DEF BeginLoad
<1>3. QED
  BY <1>2, CursorKeepsOrder DEF LoadTargetExists

\* What PlayOrderInv says of a queue that is not empty.
LEMMA CursorInQueue ==
    ASSUME IInv, queue # <<>>
    PROVE  /\ Len(queue) \in Nat \ {0}
           /\ order_pos \in QueueIndices(Len(queue))
           /\ index \in QueueIndices(Len(queue))
           /\ play_order[order_pos + 1] = index
<1>1. Len(queue) \in Nat \ {0}
  BY DEF IInv, TypeOK
<1>2. order_pos \in QueueIndices(Len(queue)) /\ play_order[order_pos + 1] = index
  BY DEF IInv, PlayOrderInv, OrderNonEmpty
<1>3. order_pos + 1 \in 1..Len(queue)
  BY <1>1, <1>2 DEF QueueIndices
<1>4. QED
  BY <1>1, <1>2, <1>3 DEF IInv, PlayOrderInv, IsPlayOrder

-----------------------------------------------------------------------------
(* Every step keeps the play order *)

\* The part of IInv this section is about.
OrderInv == queue \in Seq(Tracks) /\ PlayOrderInv /\ LoadTargetExists

\* Steps that leave the order alone and load nothing new.
LEMMA SameOrderKeepsOrder ==
    ASSUME IInv, UNCHANGED orderVars, pc' \in {pc, "idle", "exited"}
    PROVE  OrderInv'
BY DEF IInv, TypeOK, OrderInv, PlayOrderInv, OrderNonEmpty, OrderEmpty,
       LoadTargetExists, orderVars

\* Steps that empty the queue.
LEMMA EmptyQueueKeepsOrder ==
    ASSUME queue' = <<>>, play_order' = <<>>, index' = 0, order_pos' = 0, pc' = "idle"
    PROVE  OrderInv'
<1>1. IsPlayOrder(<<>>, 0)
  BY DEF IsPlayOrder, QueueIndices
<1>2. QED
  BY <1>1 DEF OrderInv, PlayOrderInv, OrderNonEmpty, OrderEmpty, LoadTargetExists

\* Steps that replace or edit the queue.
LEMMA EditQueueKeepsOrder ==
    ASSUME IInv, EditQueue
    PROVE  OrderInv'
<1>1. /\ queue \in Seq(Tracks) /\ Len(queue) \in Nat /\ IsPlayOrder(play_order, Len(queue))
      /\ Len(play_order) = Len(queue) /\ InputIndices \subseteq Nat
  BY PlayOrderType, BoundAssumption DEF IInv, TypeOK, PlayOrderInv, InputIndices
<1>2. ASSUME PlayQueueEmpty
      PROVE  OrderInv'
  BY <1>2, EmptyQueueKeepsOrder DEF PlayQueueEmpty
<1>3. ASSUME NEW tracks \in BoundedSeq(Tracks, MaxQueue), NEW start \in InputIndices,
             PlayQueue(tracks, start)
      PROVE  OrderInv'
  <2> DEFINE n == Len(tracks)
             first == IF start < n THEN start ELSE n - 1
  <2>1. tracks \in Seq(Tracks) /\ n \in Nat \ {0} /\ queue' = tracks
    BY <1>3, BoundedSeqType, BoundAssumption DEF PlayQueue
  <2>2. first \in QueueIndices(n)
    BY <2>1, <1>1 DEF QueueIndices
  <2>3. IsPlayOrder(play_order', n)
    BY <1>3, <2>1, NewQueueIsPlayOrder DEF PlayQueue
  <2>4. BeginLoad(first, current)
    BY <1>3 DEF PlayQueue, StartPlaybackAt
  <2>5. QED
    BY <2>1, <2>2, <2>3, <2>4, BeginLoadKeepsOrder DEF OrderInv
<1>4. ASSUME NEW tracks \in Batches, AppendAndStart(tracks)
      PROVE  OrderInv'
  <2>1. queue' \in Seq(Tracks) /\ Len(queue') = Len(queue) + Len(tracks)
    BY <1>1, <1>4, BatchType, ConcatProperties DEF AppendAndStart
  <2>2. IsPlayOrder(play_order', Len(queue'))
    BY <1>1, <1>4, <2>1, BatchType, AfterAppendIsPlayOrder DEF AppendAndStart
  <2>3. Len(queue) \in QueueIndices(Len(queue'))
    BY <1>1, <2>1, BatchType DEF QueueIndices
  <2>4. BeginLoad(Len(queue), current)
    BY <1>4 DEF AppendAndStart, StartPlaybackAt
  <2>5. QED
    BY <2>1, <2>2, <2>3, <2>4, BeginLoadKeepsOrder DEF OrderInv
<1>5. ASSUME NEW tracks \in Batches, AppendBehind(tracks)
      PROVE  OrderInv'
  <2>1. queue' \in Seq(Tracks) /\ Len(queue') = Len(queue) + Len(tracks)
    BY <1>1, <1>5, BatchType, ConcatProperties DEF AppendBehind
  <2>2. /\ IsPlayOrder(play_order', Len(queue'))
        /\ \A k \in 1..Len(queue) : play_order'[k] = play_order[k]
    BY <1>1, <1>5, <2>1, BatchType, AfterAppendIsPlayOrder DEF AppendBehind
  <2>3. UNCHANGED <<index, order_pos, pc>> /\ pc = "idle" /\ queue # <<>>
    BY <1>5 DEF AppendBehind, IInv, SinkHasQueue
  <2>4. QED
    BY <2>1, <2>2, <2>3, BatchType, CursorInQueue
    DEF OrderInv, PlayOrderInv, OrderNonEmpty, OrderEmpty, LoadTargetExists, QueueIndices
<1>6. ASSUME NEW tracks \in Batches, PlayNextBehind(tracks)
      PROVE  OrderInv'
  <2>1. UNCHANGED <<index, order_pos, pc>> /\ pc = "idle" /\ queue # <<>>
    BY <1>6 DEF PlayNextBehind, IInv, SinkHasQueue
  <2>2. index \in Nat /\ index + 1 \in 1..Len(queue)
    BY <2>1, CursorInQueue DEF QueueIndices
  <2>3. queue' \in Seq(Tracks) /\ Len(queue') = Len(queue) + Len(tracks)
    <3>1. queue' = SubSeq(queue, 1, index + 1) \o tracks
                     \o SubSeq(queue, index + 2, Len(queue))
      BY <1>6 DEF PlayNextBehind
    <3>2. index + 2 = (index + 1) + 1
      BY <2>2
    <3>3. tracks \in Seq(Tracks)
      BY BatchType
    <3> DEFINE rest == SubSeq(queue, (index + 1) + 1, Len(queue))
    <3>4. rest \in Seq(Tracks) /\ Len(rest) = Len(queue) - (index + 1)
      BY <1>1, <2>2, SubSeqProperties
    <3>5. queue' = SubSeq(queue, 1, index + 1) \o tracks \o rest
      BY <3>1, <3>2
    <3> HIDE DEF rest
    <3>6. QED
      BY <3>3, <3>4, <3>5, <2>2, <1>1, SpliceFacts
  <2>4. IsPlayOrder(play_order', Len(queue')) /\ play_order'[order_pos + 1] = index
    <3>1. play_order' = PlayNextInsertion(play_order, order_pos,
                                          play_order[order_pos + 1], Len(tracks))
      BY <1>6, <2>1, CursorInQueue DEF PlayNextBehind
    <3>2. /\ Len(queue) \in Nat \ {0} /\ IsPlayOrder(play_order, Len(queue))
          /\ order_pos \in QueueIndices(Len(queue)) /\ Len(tracks) \in Nat
          /\ play_order[order_pos + 1] = index
      BY <1>1, <2>1, BatchType, CursorInQueue
    <3>3. QED
      BY <3>1, <3>2, <2>3, PlayNextIsPlayOrder
  <2>5. QED
    BY <2>1, <2>3, <2>4, BatchType, CursorInQueue
    DEF OrderInv, PlayOrderInv, OrderNonEmpty, OrderEmpty, LoadTargetExists, QueueIndices
<1>7. ASSUME NEW i \in InputIndices, RemoveLastEntry(i)
      PROVE  OrderInv'
  BY <1>7, EmptyQueueKeepsOrder DEF RemoveLastEntry
<1>8. ASSUME NEW i \in InputIndices, RemoveCurrent(i)
      PROVE  OrderInv'
  <2> DEFINE n == Len(queue) - 1
             next == IF i < Len(queue) - 1 THEN i ELSE Len(queue) - 2
  <2>1. i \in QueueIndices(Len(queue)) /\ n \in Nat \ {0} /\ next \in QueueIndices(n)
    BY <1>8, <1>1 DEF RemoveCurrent, QueueIndices
  <2>2. queue' \in Seq(Tracks) /\ Len(queue') = n
    BY <1>8, <1>1, <2>1, RemoveAtFacts DEF RemoveCurrent, QueueIndices
  <2>3. IsPlayOrder(play_order', Len(queue'))
    BY <1>8, <1>1, <2>1, <2>2, AfterRemoveIsPlayOrder DEF RemoveCurrent
  <2>4. BeginLoad(next, NoTrack)
    BY <1>8 DEF RemoveCurrent
  <2>5. QED
    BY <2>1, <2>2, <2>3, <2>4, BeginLoadKeepsOrder DEF OrderInv
<1>9. ASSUME NEW i \in InputIndices, RemoveOther(i)
      PROVE  OrderInv'
  <2> DEFINE n == Len(queue) - 1
  <2>1. /\ i \in QueueIndices(Len(queue)) /\ i # index /\ queue # <<>>
        /\ pc' = "idle"
    BY <1>9, <1>1 DEF RemoveOther, IndexAfterRemove, QueueIndices
  <2>2. index \in QueueIndices(Len(queue))
    BY <2>1, CursorInQueue
  <2>3. queue' \in Seq(Tracks) /\ Len(queue') = n /\ n \in Nat \ {0}
    <3>1. queue' = RemoveAt(queue, i + 1)
      BY <1>9 DEF RemoveOther, IndexAfterRemove
    <3>2. i + 1 \in 1..Len(queue) /\ n \in Nat \ {0}
      BY <1>1, <2>1, <2>2 DEF QueueIndices
    <3>3. QED
      BY <3>1, <3>2, <1>1, RemoveAtFacts
  <2>4. IsPlayOrder(play_order', Len(queue'))
    BY <1>9, <1>1, <2>1, <2>3, AfterRemoveIsPlayOrder DEF RemoveOther, IndexAfterRemove
  <2>5. index' \in QueueIndices(n) /\ order_pos' = Position(play_order', index', 0)
    BY <1>9, <1>1, <2>1, <2>2 DEF RemoveOther, IndexAfterRemove, QueueIndices
  <2>6. QED
    BY <2>1, <2>3, <2>4, <2>5, CursorKeepsOrder DEF OrderInv, LoadTargetExists
<1>10. ASSUME NEW from \in InputIndices, NEW to \in InputIndices, MoveInQueue(from, to)
       PROVE  OrderInv'
  <2>1. /\ from \in QueueIndices(Len(queue)) /\ to \in QueueIndices(Len(queue))
        /\ queue # <<>> /\ pc' = "idle"
    BY <1>10, <1>1 DEF MoveInQueue, QueueIndices
  <2>2. index \in QueueIndices(Len(queue))
    BY <2>1, CursorInQueue
  <2>3. queue' \in Seq(Tracks) /\ Len(queue') = Len(queue)
    <3> DEFINE rest == RemoveAt(queue, from + 1)
    <3>1. rest \in Seq(Tracks) /\ Len(rest) = Len(queue) - 1 /\ QueueEntry(from) \in Tracks
      BY <1>1, <2>1, RemoveAtFacts DEF QueueIndices, QueueEntry
    <3>2. queue' = InsertAt(rest, to + 1, QueueEntry(from))
      BY <1>10 DEF MoveInQueue
    <3> HIDE DEF rest
    <3>3. to + 1 \in 1..(Len(rest) + 1)
      BY <1>1, <2>1, <3>1 DEF QueueIndices
    <3>4. queue' \in Seq(Tracks) /\ Len(queue') = Len(rest) + 1
      BY <3>1, <3>2, <3>3, InsertAtFacts
    <3>5. QED
      BY <1>1, <3>1, <3>4
  <2>4. IsPlayOrder(play_order', Len(queue'))
    BY <1>10, <1>1, <2>1, <2>3, AfterMoveIsPlayOrder DEF MoveInQueue
  <2>5. /\ index' \in QueueIndices(Len(queue'))
        /\ order_pos' = Position(play_order', index', 0)
    BY <1>10, <1>1, <2>1, <2>2, <2>3
    DEF MoveInQueue, RemapIndexAfterMove, QueueIndices
  <2>6. QED
    BY <2>1, <2>3, <2>4, <2>5, CursorKeepsOrder DEF OrderInv, LoadTargetExists
<1>11. ASSUME ClearQueue
       PROVE  OrderInv'
  BY <1>11, EmptyQueueKeepsOrder DEF ClearQueue
<1>12. QED
  BY <1>2, <1>3, <1>4, <1>5, <1>6, <1>7, <1>8, <1>9, <1>10, <1>11
  DEF EditQueue, AppendQueue, PlayNext, RemoveFromQueue

\* Loading another entry of the same queue, in the same order or another.
LEMMA LoadKeepsOrder ==
    ASSUME IInv, UNCHANGED queue, IsPlayOrder(play_order', Len(queue)),
           NEW i \in QueueIndices(Len(queue)), StartPlaybackAt(i)
    PROVE  OrderInv'
BY BeginLoadKeepsOrder DEF OrderInv, IInv, TypeOK, StartPlaybackAt

\* Next, and the poll at the end of a track: the target is an entry.
LEMMA AdvanceKeepsOrder ==
    ASSUME IInv, Advance
    PROVE  OrderInv'
<1>1. Len(queue) \in Nat /\ IsPlayOrder(play_order, Len(queue)) /\ UNCHANGED queue
  BY DEF IInv, TypeOK, PlayOrderInv, Advance
<1>2. Len(play_order) = Len(queue) /\ order_pos \in Nat
  BY <1>1, PlayOrderType DEF IInv, TypeOK
<1>3. CASE HasSuccessor
  <2>1. UNCHANGED play_order /\ StartPlaybackAt(play_order[order_pos + 2])
    BY <1>3 DEF Advance
  <2>2. order_pos + 2 \in 1..Len(queue)
    BY <1>2, <1>3 DEF HasSuccessor
  <2>3. play_order[order_pos + 2] \in QueueIndices(Len(queue))
    BY <1>1, <2>2 DEF IsPlayOrder
  <2>4. QED
    BY <1>1, <2>1, <2>3, LoadKeepsOrder
<1>4. CASE ~HasSuccessor
  <2>1. play_order # <<>> /\ StartPlaybackAt(play_order'[1])
    BY <1>4 DEF Advance
  <2>2. play_order' \in IF shuffle
                        THEN ShuffledOrders(Len(queue), shuffle, NoAnchor)
                        ELSE {play_order}
    BY <1>4 DEF Advance
  <2>3. IsPlayOrder(play_order', Len(queue))
    BY <1>1, <2>2, ShuffledIsPlayOrder
  <2>4. Len(queue) # 0
    BY <1>1, <1>2, <2>1, PlayOrderType
  <2>5. play_order'[1] \in QueueIndices(Len(queue))
    BY <1>1, <2>3, <2>4 DEF IsPlayOrder
  <2>6. QED
    BY <1>1, <2>1, <2>3, <2>5, LoadKeepsOrder
<1>5. QED
  BY <1>3, <1>4

\* Steps that move through the queue.
LEMMA NavigateKeepsOrder ==
    ASSUME IInv, Navigate
    PROVE  OrderInv'
<1>1. /\ Len(queue) \in Nat /\ IsPlayOrder(play_order, Len(queue))
      /\ Len(play_order) = Len(queue) /\ InputIndices \subseteq Nat
  BY PlayOrderType, BoundAssumption DEF IInv, TypeOK, PlayOrderInv, InputIndices
<1>2. ASSUME NEW i \in InputIndices, PlayAt(i)
      PROVE  OrderInv'
  <2>1. i \in QueueIndices(Len(queue))
    BY <1>1, <1>2 DEF PlayAt, QueueIndices
  <2>2. QED
    BY <1>1, <1>2, <2>1, LoadKeepsOrder DEF PlayAt
<1>3. ASSUME NextTrack
      PROVE  OrderInv'
  BY <1>3, AdvanceKeepsOrder DEF NextTrack
<1>4. ASSUME NEW ok \in BOOLEAN, PreviousRestart(ok)
      PROVE  OrderInv'
  BY <1>4, SameOrderKeepsOrder DEF PreviousRestart
<1>5. ASSUME PreviousTrack
      PROVE  OrderInv'
  <2>1. queue # <<>>
    BY <1>5 DEF PreviousTrack, RestartsCurrent, IInv, PlayOrderInv, OrderEmpty
  <2>2. order_pos \in 1..Len(queue)
    BY <1>5, <1>1, <2>1, CursorInQueue DEF PreviousTrack, RestartsCurrent, QueueIndices
  <2>3. play_order[order_pos] \in QueueIndices(Len(queue))
    BY <1>1, <2>2 DEF IsPlayOrder
  <2>4. QED
    BY <1>1, <1>5, <2>3, LoadKeepsOrder DEF PreviousTrack
<1>6. QED
  BY <1>2, <1>3, <1>4, <1>5 DEF Navigate

\* Commands on the sink and the modes.
LEMMA ControlKeepsOrder ==
    ASSUME IInv, Control
    PROVE  OrderInv'
<1>1. ASSUME Resume
      PROVE  OrderInv'
  <2>1. CASE ResumeSink
    BY <2>1, SameOrderKeepsOrder DEF ResumeSink
  <2>2. CASE ResumeReload
    <3> DEFINE i == IF index < Len(queue) THEN index ELSE Len(queue) - 1
    <3>1. queue # <<>> /\ UNCHANGED <<queue, play_order>> /\ StartPlaybackAt(i)
      BY <2>2 DEF ResumeReload
    <3>2. i \in QueueIndices(Len(queue))
      BY <3>1, CursorInQueue DEF QueueIndices
    <3>3. IsPlayOrder(play_order, Len(queue))
      BY DEF IInv, PlayOrderInv
    <3>4. QED
      BY <3>1, <3>2, <3>3, LoadKeepsOrder
  <2>3. QED
    BY <1>1, <2>1, <2>2 DEF Resume
<1>2. ASSUME NEW on \in BOOLEAN, SetShuffle(on)
      PROVE  OrderInv'
  <2>1. UNCHANGED <<queue, index, pc>> /\ pc = "idle"
    BY <1>2 DEF SetShuffle
  <2>2. CASE on = shuffle
    BY <1>2, <2>1, <2>2, SameOrderKeepsOrder DEF SetShuffle, orderVars
  <2>3. CASE on # shuffle
    <3>1. /\ play_order' \in ShuffledOrders(Len(queue), on, index)
          /\ order_pos' = Position(play_order', index', 0)
      BY <1>2, <2>1, <2>3 DEF SetShuffle, RegeneratePlayOrder
    <3>2. queue' \in Seq(Tracks) /\ Len(queue') \in Nat
      BY <2>1 DEF IInv, TypeOK
    <3>3. IsPlayOrder(play_order', Len(queue'))
      BY <2>1, <3>1, <3>2, ShuffledIsPlayOrder
    <3>4. CASE queue = <<>>
      <4>1. index' = 0 /\ play_order' \in [1..0 -> QueueIndices(0)]
        BY <2>1, <3>3, <3>4 DEF IInv, PlayOrderInv, OrderEmpty, IsPlayOrder
      <4>2. order_pos' = 0
        BY <3>1, <4>1 DEF Position
      <4>3. QED
        BY <2>1, <3>2, <3>3, <3>4, <4>1, <4>2
        DEF OrderInv, PlayOrderInv, OrderNonEmpty, OrderEmpty, LoadTargetExists
    <3>5. CASE queue # <<>>
      BY <2>1, <3>1, <3>2, <3>3, <3>5, CursorInQueue, CursorKeepsOrder
      DEF OrderInv, LoadTargetExists
    <3>6. QED
      BY <3>4, <3>5
  <2>4. QED
    BY <2>2, <2>3
<1>3. ASSUME ToggleShuffle
      PROVE  OrderInv'
  BY <1>2, <1>3 DEF ToggleShuffle, IInv, TypeOK
<1>4. ASSUME \/ Pause \/ StopPlayback \/ CycleRepeat \/ Shutdown
             \/ \E p \in Positions, ok \in BOOLEAN : Seek(p, ok)
             \/ \E v \in Volumes : SetVolume(v)
             \/ \E r \in RepeatModes : SetRepeat(r)
      PROVE  OrderInv'
  <2>1. UNCHANGED orderVars /\ pc' \in {pc, "exited"}
    BY <1>4 DEF Pause, StopPlayback, CycleRepeat, Shutdown, Seek, SetVolume, SetRepeat
  <2>2. QED
    BY <2>1, SameOrderKeepsOrder
<1>5. QED
  BY <1>1, <1>2, <1>3, <1>4 DEF Control

\* The thread's own steps, and the sink's.
LEMMA EngineKeepsOrder ==
    ASSUME IInv, Engine \/ Audio
    PROVE  OrderInv'
<1>1. ASSUME \/ OpenOutput \/ LoadSucceeds \/ LoadFails \/ PollExhausted
             \/ PollProgress \/ SinkPlays \/ SinkEnds
      PROVE  OrderInv'
  <2>1. UNCHANGED orderVars /\ pc' \in {pc, "idle", "exited"}
    BY <1>1 DEF OpenOutput, LoadSucceeds, LoadFails, PollExhausted, PollProgress,
                SinkPlays, SinkEnds
  <2>2. QED
    BY <2>1, SameOrderKeepsOrder
<1>2. ASSUME PollRepeatsTrack
      PROVE  OrderInv'
  <2>1. queue # <<>> /\ UNCHANGED <<queue, play_order>> /\ StartPlaybackAt(index)
    BY <1>2 DEF PollRepeatsTrack, TrackEnded, IInv, SinkHasQueue
  <2>2. IsPlayOrder(play_order, Len(queue))
    BY DEF IInv, PlayOrderInv
  <2>3. QED
    BY <2>1, <2>2, CursorInQueue, LoadKeepsOrder
<1>3. ASSUME PollAdvances
      PROVE  OrderInv'
  BY <1>3, AdvanceKeepsOrder DEF PollAdvances
<1>4. QED
  BY <1>1, <1>2, <1>3 DEF Engine, Poll, Audio

LEMMA NextKeepsOrder ==
    ASSUME IInv, [Next]_vars
    PROVE  OrderInv'
<1>1. CASE UNCHANGED vars
  BY <1>1, SameOrderKeepsOrder DEF vars
<1>2. CASE Next
  BY <1>1, <1>2, EditQueueKeepsOrder, NavigateKeepsOrder, ControlKeepsOrder,
     EngineKeepsOrder DEF Next, Command, Exited
<1>3. QED
  BY <1>1, <1>2

-----------------------------------------------------------------------------
(* Every step keeps the types *)

\* The conjuncts of TypeOK that are not about the queue and its order.
OtherTypes ==
    /\ pc \in {"opening", "idle", "loading", "exited"}
    /\ repeat \in RepeatModes /\ shuffle \in BOOLEAN
    /\ current \in TrackOrNone
    /\ volume \in Volumes /\ volume_factor \in Volumes \X Int
    /\ sink \in {"none", "playing", "paused", "ended"} /\ pos \in Positions
    /\ snap \in Snapshots
    /\ events \in Seq(Events)
    /\ submitted \in TrackOrNone

LEMMA OrderTypes ==
    OrderInv => index \in Nat /\ play_order \in Seq(Nat) /\ order_pos \in Nat
<1> SUFFICES ASSUME OrderInv
             PROVE  index \in Nat /\ play_order \in Seq(Nat) /\ order_pos \in Nat
  OBVIOUS
<1>1. Len(queue) \in Nat /\ play_order \in Seq(Nat)
  BY PlayOrderType DEF OrderInv, PlayOrderInv
<1>2. CASE queue = <<>>
  BY <1>1, <1>2 DEF OrderInv, PlayOrderInv, OrderEmpty
<1>3. CASE queue # <<>>
  <2>1. order_pos \in QueueIndices(Len(queue)) /\ play_order[order_pos + 1] = index
    BY <1>3 DEF OrderInv, PlayOrderInv, OrderNonEmpty
  <2>2. order_pos + 1 \in 1..Len(queue)
    BY <1>1, <2>1 DEF QueueIndices
  <2>3. index \in QueueIndices(Len(queue))
    BY <2>1, <2>2 DEF OrderInv, PlayOrderInv, IsPlayOrder
  <2>4. QED
    BY <1>1, <2>1, <2>3 DEF QueueIndices
<1>4. QED
  BY <1>2, <1>3

LEMMA OrderTypesNext ==
    OrderInv' => (index \in Nat /\ play_order \in Seq(Nat) /\ order_pos \in Nat)'
BY OrderTypes, PTL

\* What a step sends is in the channel's alphabet.
LEMMA EventTypes ==
    /\ <<>> \in Seq(Events)
    /\ <<PlaybackError>> \in Seq(Events)
    /\ \A s \in Statuses : /\ <<StatusChanged(s)>> \in Seq(Events)
                           /\ <<StatusChanged(s), QueueEnded>> \in Seq(Events)
                           /\ <<QueueEnded, StatusChanged(s)>> \in Seq(Events)
                           /\ <<TrackChanged, StatusChanged(s)>> \in Seq(Events)
                           /\ <<TrackChanged, QueueEnded, StatusChanged(s)>> \in Seq(Events)
                           /\ <<PlaybackError, TrackChanged, StatusChanged(s)>> \in Seq(Events)
    /\ \A p \in Positions : <<Seeked(p)>> \in Seq(Events)
    /\ \A r \in RepeatModes : <<RepeatChanged(r)>> \in Seq(Events)
    /\ \A b \in BOOLEAN : <<ShuffleChanged(b)>> \in Seq(Events)
<1>1. /\ {TrackChanged, QueueEnded, PlaybackError} \subseteq Events
      /\ \A s \in Statuses : StatusChanged(s) \in Events
      /\ \A p \in Positions : Seeked(p) \in Events
      /\ \A r \in RepeatModes : RepeatChanged(r) \in Events
      /\ \A b \in BOOLEAN : ShuffleChanged(b) \in Events
  BY DEF Events
<1>2. QED
  BY <1>1

LEMMA ScrobbleType ==
    ASSUME NEW p, MaybeScrobbleOutgoing(p), current \in TrackOrNone
    PROVE  submitted' \in TrackOrNone
BY DEF MaybeScrobbleOutgoing, TrackOrNone

LEMMA BeginLoadTypes ==
    ASSUME OtherTypes, NEW i, NEW outgoing \in TrackOrNone, BeginLoad(i, outgoing)
    PROVE  /\ pc' \in {"opening", "idle", "loading", "exited"}
           /\ current' \in TrackOrNone
           /\ sink' = "none" /\ pos' \in Positions
BY BoundAssumption DEF BeginLoad, DropSink, OtherTypes, TrackOrNone, Positions

LEMMA StartTypes ==
    ASSUME OtherTypes, NEW i, StartPlaybackAt(i), events' = <<>>, snap' \in Snapshots,
           UNCHANGED <<modeVars, volVars>>
    PROVE  OtherTypes'
<1>1. submitted' \in TrackOrNone
  BY ScrobbleType DEF StartPlaybackAt, OtherTypes
<1>2. QED
  BY <1>1, BeginLoadTypes, EventTypes
  DEF StartPlaybackAt, OtherTypes, modeVars, volVars

\* Steps that publish a queue without loading from it.
LEMMA PublishTypes ==
    ASSUME OtherTypes, OrderInv'
    PROVE  /\ [snap EXCEPT !.queue = queue'] \in Snapshots
           /\ [snap EXCEPT !.queue = queue', !.queue_len = Len(queue')] \in Snapshots
           /\ [snap EXCEPT !.queue = queue', !.queue_index = index'] \in Snapshots
           /\ [snap EXCEPT !.queue = queue', !.queue_len = Len(queue'),
                            !.queue_index = index'] \in Snapshots
<1>1. queue' \in Seq(Tracks) /\ Len(queue') \in Nat /\ index' \in Nat
  BY OrderTypesNext DEF OrderInv
<1>2. QED
  BY <1>1 DEF OtherTypes, Snapshots

LEMMA EditQueueKeepsTypes ==
    ASSUME OtherTypes, OrderInv', EditQueue
    PROVE  OtherTypes'
<1>1. 0 \in Positions /\ NoTrack \in TrackOrNone /\ <<>> \in Seq(Tracks)
  BY BoundAssumption DEF Positions, TrackOrNone
<1>2. ASSUME \/ PlayQueueEmpty
             \/ ClearQueue
             \/ \E i \in InputIndices : RemoveLastEntry(i)
      PROVE  OtherTypes'
  <2>1. /\ UNCHANGED <<pc, modeVars, volVars>>
        /\ current' = NoTrack /\ sink' = "none" /\ pos' = 0
        /\ MaybeScrobbleOutgoing(CurrentPosition)
    BY <1>2 DEF PlayQueueEmpty, ClearQueue, RemoveLastEntry, DropSink
  <2>2. snap' \in Snapshots
    <3>1. snap \in Snapshots /\ "stopped" \in Statuses
      BY DEF OtherTypes, Statuses
    <3>2. CASE PlayQueueEmpty
      BY <3>1, <3>2, <1>1 DEF PlayQueueEmpty, Snapshots
    <3>3. CASE ClearQueue
      BY <3>1, <3>3, <1>1 DEF ClearQueue, Snapshots
    <3>4. ASSUME NEW i \in InputIndices, RemoveLastEntry(i)
          PROVE  snap' \in Snapshots
      BY <3>1, <3>4, <1>1 DEF RemoveLastEntry, Snapshots
    <3>5. QED
      BY <1>2, <3>2, <3>3, <3>4
  <2>3. events' \in Seq(Events)
    BY <1>2, EventTypes DEF PlayQueueEmpty, ClearQueue, RemoveLastEntry, Statuses
  <2>4. submitted' \in TrackOrNone
    BY <2>1, ScrobbleType DEF OtherTypes
  <2>5. QED
    BY <1>1, <2>1, <2>2, <2>3, <2>4 DEF OtherTypes, modeVars, volVars
<1>3. ASSUME NEW tracks, NEW start, PlayQueue(tracks, start)
      PROVE  OtherTypes'
  <2>1. /\ events' = <<>> /\ UNCHANGED <<modeVars, volVars>>
        /\ snap' = [snap EXCEPT !.queue = queue']
        /\ \E i : StartPlaybackAt(i)
    BY <1>3 DEF PlayQueue, PublishQueue
  <2>2. QED
    BY <2>1, PublishTypes, StartTypes
<1>4. ASSUME NEW tracks, AppendAndStart(tracks)
      PROVE  OtherTypes'
  <2>1. /\ events' = <<>> /\ UNCHANGED <<modeVars, volVars>>
        /\ snap' = [snap EXCEPT !.queue = queue']
        /\ \E i : StartPlaybackAt(i)
    BY <1>4 DEF AppendAndStart, PublishQueue
  <2>2. QED
    BY <2>1, PublishTypes, StartTypes
<1>5. ASSUME \/ \E tracks \in Batches : AppendBehind(tracks) \/ PlayNextBehind(tracks)
             \/ \E i \in InputIndices : RemoveOther(i)
             \/ \E from, to \in InputIndices : MoveInQueue(from, to)
      PROVE  OtherTypes'
  <2>1. /\ UNCHANGED <<pc, modeVars, current, volVars, sinkVars>>
        /\ events' = <<>> /\ submitted' = NoTrack
    BY <1>5 DEF AppendBehind, PlayNextBehind, RemoveOther, MoveInQueue
  <2>2. snap' \in Snapshots
    BY <1>5, PublishTypes DEF AppendBehind, PlayNextBehind, RemoveOther, MoveInQueue
  <2>3. QED
    BY <1>1, <2>1, <2>2, EventTypes DEF OtherTypes, modeVars, volVars, sinkVars
<1>6. ASSUME NEW i \in InputIndices, RemoveCurrent(i)
      PROVE  OtherTypes'
  <2>1. /\ UNCHANGED <<modeVars, volVars, snap>> /\ events' = <<>>
        /\ MaybeScrobbleOutgoing(CurrentPosition)
        /\ \E j : BeginLoad(j, NoTrack)
    BY <1>6 DEF RemoveCurrent
  <2>2. submitted' \in TrackOrNone
    BY <2>1, ScrobbleType DEF OtherTypes
  <2>3. QED
    BY <1>1, <2>1, <2>2, BeginLoadTypes, EventTypes DEF OtherTypes, modeVars, volVars
<1>7. QED
  BY <1>2, <1>3, <1>4, <1>5, <1>6
  DEF EditQueue, AppendQueue, PlayNext, RemoveFromQueue

LEMMA AdvanceKeepsTypes ==
    ASSUME OtherTypes, Advance
    PROVE  OtherTypes'
<1>1. /\ events' = <<>> /\ UNCHANGED <<modeVars, volVars, snap>>
      /\ \E i : StartPlaybackAt(i)
  BY DEF Advance
<1>2. QED
  BY <1>1, StartTypes DEF OtherTypes

LEMMA NavigateKeepsTypes ==
    ASSUME OtherTypes, Navigate
    PROVE  OtherTypes'
<1>1. ASSUME PreviousTrack \/ \E i \in InputIndices : PlayAt(i)
      PROVE  OtherTypes'
  <2>1. /\ events' = <<>> /\ UNCHANGED <<modeVars, volVars, snap>>
        /\ \E i : StartPlaybackAt(i)
    BY <1>1 DEF PreviousTrack, PlayAt
  <2>2. QED
    BY <2>1, StartTypes DEF OtherTypes
<1>2. ASSUME NEW ok \in BOOLEAN, PreviousRestart(ok)
      PROVE  OtherTypes'
  <2>1. 0 \in Positions
    BY BoundAssumption DEF Positions
  <2>2. /\ UNCHANGED <<pc, modeVars, current, volVars>> /\ events' = <<>>
        /\ MaybeScrobbleOutgoing(CurrentPosition)
    BY <1>2 DEF PreviousRestart
  <2>3. sink' = sink /\ pos' \in Positions
    BY <1>2, <2>1 DEF PreviousRestart, TrySeek, sinkVars, OtherTypes
  <2>4. snap' \in Snapshots
    BY <1>2, <2>1 DEF PreviousRestart, OtherTypes, Snapshots
  <2>5. submitted' \in TrackOrNone
    BY <2>2, ScrobbleType DEF OtherTypes
  <2>6. QED
    BY <2>2, <2>3, <2>4, <2>5, EventTypes DEF OtherTypes, modeVars, volVars
<1>3. QED
  BY <1>1, <1>2, AdvanceKeepsTypes DEF Navigate, NextTrack

LEMMA ControlKeepsTypes ==
    ASSUME OtherTypes, Control
    PROVE  OtherTypes'
<1> USE DEF OtherTypes
<1>1. NoTrack \in TrackOrNone /\ 0 \in Positions
  BY BoundAssumption DEF TrackOrNone, Positions
<1>2. ASSUME Pause \/ ResumeSink
      PROVE  OtherTypes'
  <2>1. /\ UNCHANGED <<pc, modeVars, current, volVars, pos>> /\ submitted' = NoTrack
        /\ sink' \in {"none", "playing", "paused", "ended"}
    BY <1>2 DEF Pause, ResumeSink
  <2>2. snap' \in Snapshots
    BY <1>2 DEF Pause, ResumeSink, SetStatus, Snapshots, Statuses
  <2>3. events' \in Seq(Events)
    BY <1>2, EventTypes DEF Pause, ResumeSink, SetStatus, Statuses
  <2>4. QED
    BY <1>1, <2>1, <2>2, <2>3 DEF modeVars, volVars
<1>3. ASSUME ResumeReload
      PROVE  OtherTypes'
  <2>1. /\ events' = <<>> /\ UNCHANGED <<modeVars, volVars, snap>>
        /\ \E i : StartPlaybackAt(i)
    BY <1>3 DEF ResumeReload
  <2>2. QED
    BY <2>1, StartTypes
<1>4. ASSUME StopPlayback
      PROVE  OtherTypes'
  <2>1. /\ UNCHANGED <<pc, modeVars, volVars>> /\ sink' = "none" /\ pos' = 0
        /\ current' = NoTrack /\ submitted' \in TrackOrNone
    BY <1>4, ScrobbleType DEF StopPlayback, DropSink
  <2>2. snap' \in Snapshots
    BY <1>4 DEF StopPlayback, Snapshots, Statuses
  <2>3. events' \in Seq(Events)
    BY <1>4, EventTypes DEF StopPlayback, Statuses
  <2>4. QED
    BY <1>1, <2>1, <2>2, <2>3 DEF modeVars, volVars
<1>5. ASSUME NEW p \in Positions, NEW ok \in BOOLEAN, Seek(p, ok)
      PROVE  OtherTypes'
  <2>1. /\ UNCHANGED <<pc, modeVars, current, volVars, sink>> /\ submitted' = NoTrack
        /\ pos' \in Positions
    BY <1>5 DEF Seek, TrySeek
  <2>2. snap' \in Snapshots
    BY <1>5 DEF Seek, Snapshots
  <2>3. events' \in Seq(Events)
    BY <1>5, EventTypes DEF Seek
  <2>4. QED
    BY <1>1, <2>1, <2>2, <2>3 DEF modeVars, volVars
<1>6. ASSUME NEW v \in Volumes, SetVolume(v)
      PROVE  OtherTypes'
  <2>1. GainOf(current) \in Int
    BY GainAssumption DEF GainOf, TrackOrNone
  <2>2. ReplayGainScale(GainOf(current)) \in Int
    BY <2>1 DEF ReplayGainScale
  <2>3. QED
    BY <1>1, <1>6, <2>2, EventTypes DEF SetVolume, modeVars, sinkVars
<1>7. ASSUME NEW r \in RepeatModes, SetRepeat(r)
      PROVE  OtherTypes'
  BY <1>1, <1>7, EventTypes DEF SetRepeat, volVars, sinkVars
<1>8. ASSUME CycleRepeat
      PROVE  OtherTypes'
  BY <1>7, <1>8 DEF CycleRepeat, RepeatModes
<1>9. ASSUME NEW on \in BOOLEAN, SetShuffle(on)
      PROVE  OtherTypes'
  BY <1>1, <1>9, EventTypes DEF SetShuffle, volVars, sinkVars
<1>10. ASSUME ToggleShuffle
       PROVE  OtherTypes'
  BY <1>9, <1>10 DEF ToggleShuffle
<1>11. ASSUME Shutdown
       PROVE  OtherTypes'
  BY <1>1, <1>11, EventTypes DEF Shutdown, DropSink, modeVars, volVars
<1>12. QED
  BY <1>2, <1>3, <1>4, <1>5, <1>6, <1>7, <1>8, <1>9, <1>10, <1>11 DEF Control, Resume

LEMMA EngineKeepsTypes ==
    ASSUME IInv, OtherTypes, Engine \/ Audio
    PROVE  OtherTypes'
<1>1. /\ NoTrack \in TrackOrNone /\ 0 \in Positions /\ MaxPos \in Nat
      /\ "stopped" \in Statuses /\ "playing" \in Statuses
  BY BoundAssumption DEF TrackOrNone, Positions, Statuses
<1>2. queue \in Seq(Tracks) /\ Len(queue) \in Nat /\ index \in Nat
  BY DEF IInv, TypeOK
<1>3. ASSUME OpenOutput
      PROVE  OtherTypes'
  BY <1>1, <1>3, EventTypes DEF OpenOutput, OtherTypes, modeVars, volVars, sinkVars
<1>4. ASSUME LoadSucceeds
      PROVE  OtherTypes'
  <2>1. QueueEntry(index) \in Tracks
    BY <1>2, <1>4 DEF LoadSucceeds, IInv, LoadTargetExists, QueueIndices, QueueEntry
  <2>2. ReplayGainScale(TrackGain[QueueEntry(index)]) \in Int
    BY <2>1, GainAssumption DEF ReplayGainScale
  <2>3. QueueEntry(index) \in TrackOrNone
    BY <2>1 DEF TrackOrNone
  <2> HIDE DEF QueueEntry
  <2>4. snap' \in Snapshots
    BY <1>1, <1>2, <1>4, <2>3 DEF LoadSucceeds, OtherTypes, Snapshots
  <2>5. QED
    BY <1>1, <1>4, <2>2, <2>3, <2>4, EventTypes DEF LoadSucceeds, OtherTypes, modeVars
<1>5. ASSUME LoadFails
      PROVE  OtherTypes'
  <2>1. snap' \in Snapshots
    BY <1>1, <1>2, <1>5 DEF LoadFails, OtherTypes, Snapshots
  <2>2. QED
    BY <1>1, <1>5, <2>1, EventTypes
    DEF LoadFails, OtherTypes, modeVars, volVars, sinkVars
<1>6. ASSUME PollRepeatsTrack
      PROVE  OtherTypes'
  <2>1. /\ events' = <<>> /\ UNCHANGED <<modeVars, volVars, snap>>
        /\ StartPlaybackAt(index)
    BY <1>6 DEF PollRepeatsTrack
  <2>2. QED
    BY <2>1, StartTypes DEF OtherTypes
<1>7. ASSUME PollAdvances
      PROVE  OtherTypes'
  BY <1>7, AdvanceKeepsTypes DEF PollAdvances
<1>8. ASSUME PollExhausted
      PROVE  OtherTypes'
  <2>1. submitted' \in TrackOrNone
    BY <1>8, ScrobbleType DEF PollExhausted, OtherTypes
  <2>2. snap' \in Snapshots
    BY <1>1, <1>8 DEF PollExhausted, OtherTypes, Snapshots
  <2>3. QED
    BY <1>1, <1>8, <2>1, <2>2, EventTypes
    DEF PollExhausted, OtherTypes, modeVars, volVars, sinkVars
<1>9. ASSUME PollProgress
      PROVE  OtherTypes'
  <2>1. snap' \in Snapshots
    BY <1>1, <1>9 DEF PollProgress, OtherTypes, Snapshots
  <2>2. QED
    BY <1>1, <1>9, <2>1, EventTypes
    DEF PollProgress, OtherTypes, modeVars, volVars, sinkVars
<1>10. ASSUME SinkPlays
       PROVE  OtherTypes'
  BY <1>1, <1>10, EventTypes DEF SinkPlays, OtherTypes, modeVars, volVars, Positions
<1>11. ASSUME SinkEnds
       PROVE  OtherTypes'
  BY <1>1, <1>11, EventTypes DEF SinkEnds, OtherTypes, modeVars, volVars
<1>12. QED
  BY <1>3, <1>4, <1>5, <1>6, <1>7, <1>8, <1>9, <1>10, <1>11 DEF Engine, Audio, Poll

LEMMA NextKeepsTypes ==
    ASSUME IInv, [Next]_vars
    PROVE  OtherTypes'
<1>1. OtherTypes
  BY DEF IInv, TypeOK, OtherTypes
<1>2. OrderInv'
  BY NextKeepsOrder
<1>3. CASE UNCHANGED vars
  BY <1>1, <1>3 DEF vars, OtherTypes, modeVars, volVars, sinkVars
<1>4. CASE Next
  BY <1>1, <1>2, <1>3, <1>4, EditQueueKeepsTypes, NavigateKeepsTypes,
     ControlKeepsTypes, EngineKeepsTypes DEF Next, Command, Exited
<1>5. QED
  BY <1>3, <1>4

-----------------------------------------------------------------------------
(* Edits move the current entry, and never change it *)

EditsAround ==
    \/ \E tracks \in Batches : AppendBehind(tracks) \/ PlayNextBehind(tracks)
    \/ \E i \in InputIndices : RemoveOther(i)
    \/ \E from, to \in InputIndices : MoveInQueue(from, to)

LEMMA EditsKeepCurrentEntry ==
    ASSUME IInv, queue # <<>>, EditsAround
    PROVE  queue' # <<>> /\ queue'[index' + 1] = queue[index + 1]
<1>1. /\ queue \in Seq(Tracks) /\ Len(queue) \in Nat \ {0} /\ index \in QueueIndices(Len(queue))
      /\ index + 1 \in 1..Len(queue) /\ InputIndices \subseteq Nat
  BY CursorInQueue, BoundAssumption DEF IInv, TypeOK, QueueIndices, InputIndices
<1>2. ASSUME NEW tracks \in Batches, AppendBehind(tracks)
      PROVE  queue' # <<>> /\ queue'[index' + 1] = queue[index + 1]
  <2>1. queue' = queue \o tracks /\ index' = index
    BY <1>2 DEF AppendBehind
  <2>2. tracks \in Seq(Tracks)
    BY BatchType
  <2>3. Len(queue') = Len(queue) + Len(tracks) /\ queue'[index + 1] = queue[index + 1]
    BY <1>1, <2>1, <2>2, ConcatProperties
  <2>4. QED
    BY <1>1, <2>1, <2>2, <2>3
<1>3. ASSUME NEW tracks \in Batches, PlayNextBehind(tracks)
      PROVE  queue' # <<>> /\ queue'[index' + 1] = queue[index + 1]
  <2>1. /\ queue' = SubSeq(queue, 1, index + 1) \o tracks
                      \o SubSeq(queue, index + 2, Len(queue))
        /\ index' = index
    BY <1>3 DEF PlayNextBehind
  <2>2. tracks \in Seq(Tracks) /\ Len(tracks) \in Nat
    BY BatchType
  <2> DEFINE rest == SubSeq(queue, (index + 1) + 1, Len(queue))
  <2>3. index + 2 = (index + 1) + 1
    BY <1>1 DEF QueueIndices
  <2>4. rest \in Seq(Tracks) /\ Len(rest) = Len(queue) - (index + 1)
    BY <1>1, SubSeqProperties
  <2>5. queue' = SubSeq(queue, 1, index + 1) \o tracks \o rest
    BY <2>1, <2>3
  <2> HIDE DEF rest
  <2>6. /\ Len(queue') = Len(queue) + Len(tracks)
        /\ queue'[index + 1] = queue[index + 1]
    BY <1>1, <2>2, <2>4, <2>5, SpliceFacts
  <2>7. QED
    BY <1>1, <2>1, <2>2, <2>6
<1>4. ASSUME NEW i \in InputIndices, RemoveOther(i)
      PROVE  queue' # <<>> /\ queue'[index' + 1] = queue[index + 1]
  <2>1. /\ queue' = RemoveAt(queue, i + 1) /\ i \in Nat /\ i < Len(queue) /\ i # index
        /\ index' = IF i < index THEN index - 1 ELSE index
    BY <1>1, <1>4 DEF RemoveOther, IndexAfterRemove
  <2>2. i + 1 \in 1..Len(queue)
    BY <1>1, <2>1
  <2>3. /\ Len(queue') = Len(queue) - 1
        /\ \A k \in 1..(Len(queue) - 1) :
              queue'[k] = IF k < i + 1 THEN queue[k] ELSE queue[k + 1]
    BY <1>1, <2>1, <2>2, RemoveAtFacts
  <2>4. index' + 1 \in 1..(Len(queue) - 1)
    BY <1>1, <2>1 DEF QueueIndices
  <2>5. queue'[index' + 1] = queue[index + 1]
    BY <1>1, <2>1, <2>3, <2>4 DEF QueueIndices
  <2>6. QED
    BY <2>3, <2>4, <2>5
<1>5. ASSUME NEW from \in InputIndices, NEW to \in InputIndices, MoveInQueue(from, to)
      PROVE  queue' # <<>> /\ queue'[index' + 1] = queue[index + 1]
  <2> DEFINE rest == RemoveAt(queue, from + 1)
             n == Len(queue)
  <2>1. /\ queue' = InsertAt(rest, to + 1, QueueEntry(from))
        /\ from \in QueueIndices(n) /\ to \in QueueIndices(n) /\ from # to
        /\ index' = RemapIndexAfterMove(index, from, to)
    BY <1>1, <1>5 DEF MoveInQueue, QueueIndices
  <2>2. /\ n \in Nat \ {0} /\ from + 1 \in 1..n /\ to + 1 \in 1..n
        /\ QueueEntry(from) = queue[from + 1] /\ QueueEntry(from) \in Tracks
    BY <1>1, <2>1 DEF QueueIndices, QueueEntry
  <2>3. /\ rest \in Seq(Tracks) /\ Len(rest) = n - 1
        /\ \A k \in 1..(n - 1) :
              rest[k] = IF k < from + 1 THEN queue[k] ELSE queue[k + 1]
    BY <1>1, <2>2, RemoveAtFacts
  <2> HIDE DEF rest
  <2>4. to + 1 \in 1..(Len(rest) + 1)
    BY <2>2, <2>3
  <2>5. /\ Len(queue') = Len(rest) + 1
        /\ \A k \in 1..(Len(rest) + 1) :
              queue'[k] = IF k < to + 1 THEN rest[k]
                          ELSE IF k = to + 1 THEN QueueEntry(from) ELSE rest[k - 1]
    <3> DEFINE t == QueueEntry(from)
               i == to + 1
    <3>1. rest \in Seq(Tracks) /\ t \in Tracks /\ i \in 1..(Len(rest) + 1)
      BY <2>2, <2>3, <2>4
    <3> DEFINE longer == InsertAt(rest, i, t)
    <3>2. queue' = longer
      BY <2>1
    <3> HIDE DEF t, i
    <3>3. /\ Len(longer) = Len(rest) + 1
          /\ \A k \in 1..(Len(rest) + 1) :
                longer[k] = IF k < i THEN rest[k] ELSE IF k = i THEN t ELSE rest[k - 1]
      BY <3>1, InsertAtFacts
    <3> HIDE DEF longer
    <3>4. QED
      BY <3>2, <3>3 DEF t, i
  <2>6. /\ Len(queue') = n
        /\ \A k \in 1..n :
              queue'[k] = IF k < to + 1 THEN rest[k]
                          ELSE IF k = to + 1 THEN queue[from + 1] ELSE rest[k - 1]
    <3>1. Len(rest) + 1 = n /\ QueueEntry(from) = queue[from + 1]
      BY <2>2, <2>3
    <3> HIDE DEF n
    <3>2. QED
      BY <3>1, <2>5
  <2>7. index' \in QueueIndices(n)
    BY <1>1, <2>1 DEF RemapIndexAfterMove, QueueIndices
  <2> HIDE DEF n
  <2>8. queue'[index' + 1] = queue[index + 1]
    <3>1. CASE index = from
      BY <3>1, <2>1, <2>2, <2>6 DEF RemapIndexAfterMove
    <3>2. CASE index # from /\ index' < to
      <4>1. index' + 1 \in 1..n /\ index' + 1 < to + 1 /\ index' + 1 \in 1..(n - 1)
        BY <3>2, <1>1, <2>1, <2>2, <2>7 DEF RemapIndexAfterMove, QueueIndices, n
      <4>2. queue'[index' + 1] = rest[index' + 1]
        BY <4>1, <2>6
      <4>3. rest[index' + 1] = IF index' + 1 < from + 1
                               THEN queue[index' + 1] ELSE queue[(index' + 1) + 1]
        BY <4>1, <2>3
      <4>4. (IF index' + 1 < from + 1 THEN index' + 1 ELSE (index' + 1) + 1) = index + 1
        BY <3>2, <4>1, <1>1, <2>1, <2>2 DEF RemapIndexAfterMove, QueueIndices, n
      <4>5. QED
        BY <4>2, <4>3, <4>4
    <3>3. CASE index # from /\ index' >= to
      <4>1. index' # to /\ index' + 1 \in 1..n /\ index' \in 1..(n - 1)
        BY <3>3, <1>1, <2>1, <2>2, <2>7 DEF RemapIndexAfterMove, QueueIndices, n
      <4>2. queue'[index' + 1] = rest[index']
        BY <3>3, <4>1, <2>1, <2>2, <2>6 DEF QueueIndices
      <4>3. rest[index'] = IF index' < from + 1 THEN queue[index'] ELSE queue[index' + 1]
        BY <4>1, <2>3
      <4>4. (IF index' < from + 1 THEN index' ELSE index' + 1) = index + 1
        BY <3>3, <4>1, <1>1, <2>1, <2>2 DEF RemapIndexAfterMove, QueueIndices, n
      <4>5. QED
        BY <4>2, <4>3, <4>4
    <3>4. QED
      BY <3>1, <3>2, <3>3, <1>1, <2>1, <2>7 DEF QueueIndices
  <2>9. QED
    BY <2>2, <2>6, <2>8
<1>6. QED
  BY <1>2, <1>3, <1>4, <1>5 DEF EditsAround

-----------------------------------------------------------------------------
(* The steps that begin a load *)

Starts ==
    \/ \E tracks \in BoundedSeq(Tracks, MaxQueue), start \in InputIndices :
          PlayQueue(tracks, start)
    \/ \E tracks \in Batches : AppendAndStart(tracks)
    \/ \E i \in InputIndices : RemoveCurrent(i) \/ PlayAt(i)
    \/ Advance \/ PreviousTrack \/ ResumeReload \/ PollRepeatsTrack

\* The early return of start_playback_at, for an index past the queue, is
\* never taken: its target is in the queue whichever handler calls it.
LEMMA StartsLoad ==
    ASSUME IInv, Starts
    PROVE  pc' = "loading" /\ sink' = "none" /\ pos' = 0
<1>1. /\ queue \in Seq(Tracks) /\ Len(queue) \in Nat /\ IsPlayOrder(play_order, Len(queue))
      /\ Len(play_order) = Len(queue) /\ InputIndices \subseteq Nat
      /\ order_pos \in Nat /\ index \in Nat
  BY PlayOrderType, BoundAssumption DEF IInv, TypeOK, PlayOrderInv, InputIndices
<1>2. SUFFICES \E i, outgoing : BeginLoad(i, outgoing) /\ i < Len(queue')
  BY DEF BeginLoad, DropSink
<1>3. ASSUME NEW tracks \in BoundedSeq(Tracks, MaxQueue), NEW start \in InputIndices,
             PlayQueue(tracks, start)
      PROVE  \E i, outgoing : BeginLoad(i, outgoing) /\ i < Len(queue')
  <2>1. /\ queue' = tracks /\ tracks # <<>>
        /\ BeginLoad(IF start < Len(tracks) THEN start ELSE Len(tracks) - 1, current)
    BY <1>3 DEF PlayQueue, StartPlaybackAt
  <2>2. tracks \in Seq(Tracks) /\ start \in Nat
    BY <1>1, BoundedSeqType, BoundAssumption
  <2>3. (IF start < Len(tracks) THEN start ELSE Len(tracks) - 1) < Len(queue')
    BY <2>1, <2>2
  <2>4. QED
    BY <2>1, <2>3
<1>4. ASSUME NEW tracks \in Batches, AppendAndStart(tracks)
      PROVE  \E i, outgoing : BeginLoad(i, outgoing) /\ i < Len(queue')
  <2>1. queue' = queue \o tracks /\ BeginLoad(Len(queue), current)
    BY <1>4 DEF AppendAndStart, StartPlaybackAt
  <2>2. tracks \in Seq(Tracks) /\ Len(tracks) \in Nat \ {0}
    BY BatchType
  <2>3. Len(queue') = Len(queue) + Len(tracks)
    BY <1>1, <2>1, <2>2, ConcatProperties
  <2>4. QED
    BY <1>1, <2>1, <2>2, <2>3
<1>5. ASSUME NEW i \in InputIndices, RemoveCurrent(i)
      PROVE  \E j, outgoing : BeginLoad(j, outgoing) /\ j < Len(queue')
  <2>1. /\ queue' = RemoveAt(queue, i + 1) /\ i < Len(queue) /\ Len(queue) > 1
        /\ BeginLoad(IF i < Len(queue) - 1 THEN i ELSE Len(queue) - 2, NoTrack)
    BY <1>5 DEF RemoveCurrent
  <2>2. i + 1 \in 1..Len(queue)
    BY <1>1, <2>1
  <2>3. Len(queue') = Len(queue) - 1
    BY <1>1, <2>1, <2>2, RemoveAtFacts
  <2>4. (IF i < Len(queue) - 1 THEN i ELSE Len(queue) - 2) < Len(queue')
    BY <1>1, <2>1, <2>3
  <2>5. QED
    BY <2>1, <2>4
<1>6. ASSUME NEW i \in QueueIndices(Len(queue)), UNCHANGED queue, StartPlaybackAt(i)
      PROVE  \E j, outgoing : BeginLoad(j, outgoing) /\ j < Len(queue')
  BY <1>1, <1>6 DEF StartPlaybackAt, QueueIndices
<1>7. ASSUME Advance
      PROVE  \E i \in QueueIndices(Len(queue)) : StartPlaybackAt(i)
  <2>1. CASE HasSuccessor
    <3>1. order_pos + 2 \in 1..Len(queue)
      BY <1>1, <2>1 DEF HasSuccessor
    <3>2. play_order[order_pos + 2] \in QueueIndices(Len(queue))
      BY <1>1, <3>1 DEF IsPlayOrder
    <3>3. QED
      BY <1>7, <2>1, <3>2 DEF Advance
  <2>2. CASE ~HasSuccessor
    <3>1. /\ play_order # <<>> /\ StartPlaybackAt(play_order'[1])
          /\ play_order' \in IF shuffle
                             THEN ShuffledOrders(Len(queue), shuffle, NoAnchor)
                             ELSE {play_order}
      BY <1>7, <2>2 DEF Advance
    <3>2. IsPlayOrder(play_order', Len(queue))
      BY <1>1, <3>1, ShuffledIsPlayOrder
    <3>3. Len(queue) # 0
      BY <1>1, <3>1, PlayOrderType
    <3>4. QED
      BY <1>1, <3>1, <3>2, <3>3 DEF IsPlayOrder
  <2>3. QED
    BY <2>1, <2>2
<1>8. ASSUME PreviousTrack
      PROVE  \E i \in QueueIndices(Len(queue)) : StartPlaybackAt(i)
  <2>1. queue # <<>> /\ order_pos # 0
    BY <1>8 DEF PreviousTrack, RestartsCurrent, IInv, PlayOrderInv, OrderEmpty
  <2>2. order_pos \in 1..Len(queue)
    BY <1>1, <2>1, CursorInQueue DEF QueueIndices
  <2>3. QED
    BY <1>1, <1>8, <2>2 DEF PreviousTrack, IsPlayOrder
<1>9. ASSUME ResumeReload
      PROVE  \E i \in QueueIndices(Len(queue)) : StartPlaybackAt(i)
  BY <1>1, <1>9 DEF ResumeReload, QueueIndices
<1>10. ASSUME PollRepeatsTrack
       PROVE  \E i \in QueueIndices(Len(queue)) : StartPlaybackAt(i)
  BY <1>10, CursorInQueue DEF PollRepeatsTrack, TrackEnded, IInv, SinkHasQueue
<1>11. ASSUME NEW i \in InputIndices, PlayAt(i)
       PROVE  \E j \in QueueIndices(Len(queue)) : StartPlaybackAt(j)
  BY <1>1, <1>11 DEF PlayAt, QueueIndices
<1>12. Advance \/ PreviousTrack \/ ResumeReload \/ PollRepeatsTrack
         \/ (\E i \in InputIndices : PlayAt(i)) => UNCHANGED queue
  BY DEF Advance, PreviousTrack, ResumeReload, PollRepeatsTrack, PlayAt
<1>13. QED
  BY <1>3, <1>4, <1>5, <1>6, <1>7, <1>8, <1>9, <1>10, <1>11, <1>12 DEF Starts

-----------------------------------------------------------------------------
(* The invariant *)

\* The steps that are no load, no edit around the current entry: they drop
\* the sink or leave the queue alone, and give the engine a sink only out of
\* a load.
Others ==
    \/ PlayQueueEmpty \/ ClearQueue \/ \E i \in InputIndices : RemoveLastEntry(i)
    \/ \E ok \in BOOLEAN : PreviousRestart(ok)
    \/ Pause \/ ResumeSink \/ StopPlayback
    \/ \E p \in Positions, ok \in BOOLEAN : Seek(p, ok)
    \/ \E v \in Volumes : SetVolume(v)
    \/ \E r \in RepeatModes : SetRepeat(r)
    \/ \E on \in BOOLEAN : SetShuffle(on)
    \/ Shutdown
    \/ OpenOutput \/ LoadSucceeds \/ LoadFails
    \/ PollExhausted \/ PollProgress \/ SinkPlays \/ SinkEnds

LEMMA ActionKinds ==
    ASSUME IInv, Command \/ Engine \/ Audio
    PROVE  Starts \/ EditsAround \/ Others
<1>1. ASSUME CycleRepeat
      PROVE  Others
  <2>1. \E r \in RepeatModes : SetRepeat(r)
    BY <1>1 DEF CycleRepeat, RepeatModes, IInv, TypeOK
  <2>2. QED
    BY <2>1 DEF Others
<1>2. ASSUME ToggleShuffle
      PROVE  Others
  <2>1. \E on \in BOOLEAN : SetShuffle(on)
    BY <1>2 DEF ToggleShuffle, IInv, TypeOK
  <2>2. QED
    BY <2>1 DEF Others
<1>3. ASSUME EditQueue
      PROVE  Starts \/ EditsAround \/ Others
  BY <1>3 DEF EditQueue, AppendQueue, PlayNext, RemoveFromQueue, Starts, EditsAround, Others
<1>4. ASSUME Navigate
      PROVE  Starts \/ Others
  BY <1>4 DEF Navigate, NextTrack, Starts, Others
<1>5. ASSUME Control
      PROVE  Starts \/ Others
  BY <1>1, <1>2, <1>5 DEF Control, Resume, Starts, Others
<1>6. ASSUME Engine \/ Audio
      PROVE  Starts \/ Others
  BY <1>6 DEF Engine, Audio, Poll, PollAdvances, Starts, Others
<1>7. QED
  BY <1>3, <1>4, <1>5, <1>6 DEF Command

LEMMA StepKinds ==
    ASSUME IInv, [Next]_vars
    PROVE  UNCHANGED vars \/ Starts \/ EditsAround \/ Others
BY ActionKinds DEF Next, Exited

LEMMA NextKeepsSinkQueue ==
    ASSUME IInv, [Next]_vars
    PROVE  SinkHasQueue'
<1>1. SinkHasQueue
  BY DEF IInv
<1>2. CASE UNCHANGED vars
  BY <1>1, <1>2 DEF SinkHasQueue, vars, orderVars, sinkVars
<1>3. CASE Starts
  BY <1>3, StartsLoad DEF SinkHasQueue
<1>4. CASE EditsAround
  <2>1. UNCHANGED sink
    BY <1>4 DEF EditsAround, AppendBehind, PlayNextBehind, RemoveOther, MoveInQueue, sinkVars
  <2>2. QED
    BY <1>1, <1>4, <2>1, EditsKeepCurrentEntry DEF SinkHasQueue
<1>5. CASE Others
  <2>1. CASE LoadSucceeds
    BY <2>1 DEF LoadSucceeds, orderVars, IInv, LoadTargetExists, QueueIndices, SinkHasQueue
  <2>2. CASE Others /\ ~LoadSucceeds
    <3>1. sink' = "none" \/ (UNCHANGED queue /\ sink # "none") \/ UNCHANGED <<queue, sink>>
      BY <2>2 DEF Others, PlayQueueEmpty, ClearQueue, RemoveLastEntry, PreviousRestart,
                  TrySeek, Pause, ResumeSink, SetStatus, StopPlayback, Seek, SetVolume, SetRepeat,
                  SetShuffle, Shutdown, OpenOutput, LoadFails, PollExhausted,
                  PollProgress, SinkPlays, SinkEnds, DropSink, orderVars, sinkVars
    <3>2. QED
      BY <1>1, <3>1 DEF SinkHasQueue
  <2>3. QED
    BY <1>5, <2>1, <2>2
<1>6. QED
  BY <1>2, <1>3, <1>4, <1>5, StepKinds

LEMMA InitIInv == Init => IInv
<1> SUFFICES ASSUME Init
             PROVE  IInv
  OBVIOUS
<1>1. /\ NoTrack \in TrackOrNone /\ 0 \in Positions /\ FullVolume \in Volumes
      /\ <<>> \in Seq(Tracks) /\ <<>> \in Seq(Nat) /\ <<>> \in Seq(Events)
  BY BoundAssumption, VolumeAssumption DEF TrackOrNone, Positions
<1>2. snap \in Snapshots
  BY <1>1 DEF Init, Snapshots, Statuses
<1>3. TypeOK
  <2>1. /\ pc = "opening" /\ queue = <<>> /\ index = 0 /\ play_order = <<>> /\ order_pos = 0
        /\ repeat = "off" /\ shuffle = FALSE /\ current = NoTrack
        /\ volume = FullVolume /\ volume_factor = <<FullVolume, 0>>
        /\ sink = "none" /\ pos = 0 /\ events = <<>> /\ submitted = NoTrack
    BY DEF Init
  <2>2. queue \in Seq(Tracks) /\ play_order \in Seq(Nat) /\ events \in Seq(Events)
    BY <1>1, <2>1
  <2>3. volume_factor \in Volumes \X Int
    BY <1>1, <2>1
  <2>4. QED
    BY <1>1, <1>2, <2>1, <2>2, <2>3 DEF TypeOK, RepeatModes
<1>4. PlayOrderInv
  <2>1. IsPlayOrder(<<>>, 0)
    BY DEF IsPlayOrder, QueueIndices
  <2>2. QED
    BY <2>1 DEF Init, PlayOrderInv, OrderNonEmpty, OrderEmpty
<1>5. QED
  BY <1>3, <1>4 DEF Init, IInv, LoadTargetExists, SinkHasQueue

LEMMA NextIInv == IInv /\ [Next]_vars => IInv'
<1> SUFFICES ASSUME IInv, [Next]_vars
             PROVE  IInv'
  OBVIOUS
<1>1. OrderInv' /\ OtherTypes' /\ SinkHasQueue'
  BY NextKeepsOrder, NextKeepsTypes, NextKeepsSinkQueue
<1>2. (index \in Nat /\ play_order \in Seq(Nat) /\ order_pos \in Nat)'
  BY <1>1, OrderTypesNext
<1>3. QED
  BY <1>1, <1>2 DEF IInv, TypeOK, OrderInv, OtherTypes

\* IInv is an invariant of the engine.
THEOREM Inductive == Spec => []IInv
BY InitIInv, NextIInv, PTL DEF Spec

\* Every variable of the engine has its type in every reachable state,
\* whatever the tracks, the bounds and the thresholds.
THEOREM TypeCorrect == Spec => []TypeOK
<1>1. IInv => TypeOK
  BY DEF IInv
<1>2. QED
  BY <1>1, Inductive, PTL

\* The play order is a permutation of the queue's indices with the cursor on
\* the current one (the doc of EngineState.play_order), after any sequence of
\* commands, loads and polls: no handler can index or splice out of bounds.
THEOREM PlayOrderCorrect == Spec => []PlayOrderInv
<1>1. IInv => PlayOrderInv
  BY DEF IInv
<1>2. QED
  BY <1>1, Inductive, PTL

-----------------------------------------------------------------------------
(* What is loaded and what is published of it                              *)

\* Before the audio device is open nothing has been played or published.
OpeningIsBlank ==
    pc = "opening" =>
        /\ sink = "none" /\ current = NoTrack
        /\ snap.status = "stopped" /\ snap.spectrum = "flat" /\ snap.track = NoTrack
        /\ snap.queue_index = index /\ snap.queue_len = Len(queue)

\* While it loads, the engine has dropped the previous sink.
LoadingIsSilent == pc = "loading" => sink = "none"

NowInv == /\ IInv /\ OpeningIsBlank /\ LoadingIsSilent
          /\ NowPlayingIsQueueEntry /\ VolumeFollowsTrack
          /\ StatusMatchesSink /\ SnapshotLocatesTrack

-----------------------------------------------------------------------------
(* What the kinds of steps do to the sink *)

\* The steps that leave the engine without a sink and without a track.
Stops == \/ PlayQueueEmpty \/ ClearQueue \/ StopPlayback
         \/ \E i \in InputIndices : RemoveLastEntry(i)

\* The steps on a sink that stays, with the queue as it is.
Adjusts == \/ \E ok \in BOOLEAN : PreviousRestart(ok)
           \/ Pause \/ ResumeSink
           \/ \E p \in Positions, ok \in BOOLEAN : Seek(p, ok)
           \/ \E v \in Volumes : SetVolume(v)
           \/ \E r \in RepeatModes : SetRepeat(r)
           \/ \E on \in BOOLEAN : SetShuffle(on)
           \/ PollProgress \/ SinkPlays \/ SinkEnds

LEMMA OtherKinds ==
    Others => \/ Stops \/ Adjusts \/ Shutdown
              \/ OpenOutput \/ LoadSucceeds \/ LoadFails \/ PollExhausted
BY DEF Others, Stops, Adjusts

LEMMA StopsEffect ==
    ASSUME Stops
    PROVE  /\ pc = "idle" /\ pc' = "idle" /\ sink' = "none" /\ current' = NoTrack
           /\ MaybeScrobbleOutgoing(CurrentPosition)
BY DEF Stops, PlayQueueEmpty, ClearQueue, StopPlayback, RemoveLastEntry, DropSink

LEMMA EditsEffect ==
    ASSUME EditsAround
    PROVE  /\ pc = "idle" /\ pc' = "idle"
           /\ UNCHANGED <<current, volume, volume_factor, sink, pos>>
           /\ submitted' = NoTrack
BY DEF EditsAround, AppendBehind, PlayNextBehind, RemoveOther, MoveInQueue,
       volVars, sinkVars

LEMMA AdjustsEffect ==
    ASSUME Adjusts
    PROVE  /\ UNCHANGED <<pc, queue, index, current>>
           /\ sink' = "none" <=> sink = "none"
           /\ pc = "idle" \/ sink = "playing"
BY DEF Adjusts, PreviousRestart, TrySeek, Pause, ResumeSink, SetStatus, Seek, SetVolume, SetRepeat,
       SetShuffle, PollProgress, SinkPlays, SinkEnds, orderVars, sinkVars

-----------------------------------------------------------------------------
(* Every step keeps the invariant *)

LEMMA NextOpening ==
    ASSUME NowInv, [Next]_vars
    PROVE  OpeningIsBlank' /\ LoadingIsSilent'
<1>1. IInv /\ OpeningIsBlank /\ LoadingIsSilent
  BY DEF NowInv
<1>2. CASE UNCHANGED vars
  BY <1>1, <1>2 DEF OpeningIsBlank, LoadingIsSilent, vars, orderVars, sinkVars
<1>3. CASE Starts
  BY <1>1, <1>3, StartsLoad DEF OpeningIsBlank, LoadingIsSilent
<1>4. CASE EditsAround
  BY <1>4, EditsEffect DEF OpeningIsBlank, LoadingIsSilent
<1>5. CASE Stops
  BY <1>5, StopsEffect DEF OpeningIsBlank, LoadingIsSilent
<1>6. CASE Adjusts
  BY <1>1, <1>6, AdjustsEffect DEF OpeningIsBlank, LoadingIsSilent
<1>7. CASE Shutdown \/ OpenOutput \/ LoadSucceeds \/ LoadFails \/ PollExhausted
  BY <1>7 DEF Shutdown, OpenOutput, LoadSucceeds, LoadFails, PollExhausted,
              OpeningIsBlank, LoadingIsSilent
<1>8. QED
  BY <1>1, <1>2, <1>3, <1>4, <1>5, <1>6, <1>7, StepKinds, OtherKinds

LEMMA NextNowPlaying ==
    ASSUME NowInv, [Next]_vars
    PROVE  NowPlayingIsQueueEntry'
<1>1. /\ IInv /\ OpeningIsBlank /\ SinkHasQueue /\ LoadedHasSink /\ LoadedIsEntry
  BY DEF NowInv, NowPlayingIsQueueEntry
<1>2. SinkHasQueue'
  BY <1>1, NextKeepsSinkQueue
<1>3. SUFFICES LoadedHasSink' /\ LoadedIsEntry'
  BY <1>2 DEF NowPlayingIsQueueEntry
<1> USE DEF LoadedHasSink, LoadedIsEntry, QueueEntry
<1>4. CASE UNCHANGED vars
  BY <1>1, <1>4 DEF vars, orderVars, sinkVars
<1>5. CASE Starts
  BY <1>1, <1>5, StartsLoad
<1>6. CASE EditsAround
  BY <1>1, <1>6, EditsEffect, EditsKeepCurrentEntry DEF SinkHasQueue
<1>7. CASE Stops
  BY <1>7, StopsEffect
<1>8. CASE Adjusts
  BY <1>1, <1>8, AdjustsEffect
<1>9. CASE OpenOutput \/ LoadSucceeds \/ LoadFails
  BY <1>1, <1>9 DEF OpenOutput, LoadSucceeds, LoadFails, OpeningIsBlank, orderVars, sinkVars
<1>10. CASE Shutdown \/ PollExhausted
  BY <1>10 DEF Shutdown, PollExhausted, DropSink
<1>11. QED
  BY <1>1, <1>4, <1>5, <1>6, <1>7, <1>8, <1>9, <1>10, StepKinds, OtherKinds

LEMMA NextVolume ==
    ASSUME NowInv, [Next]_vars
    PROVE  VolumeFollowsTrack'
<1>1. IInv /\ VolumeFollowsTrack /\ OpeningIsBlank
  BY DEF NowInv
<1>2. CASE UNCHANGED vars
  BY <1>1, <1>2 DEF VolumeFollowsTrack, vars, volVars, sinkVars
<1>3. CASE Starts
  BY <1>1, <1>3, StartsLoad DEF VolumeFollowsTrack
<1>4. CASE EditsAround
  BY <1>1, <1>4, EditsEffect DEF VolumeFollowsTrack
<1>5. CASE Stops
  BY <1>5, StopsEffect DEF VolumeFollowsTrack
<1>6. ASSUME NEW v \in Volumes, SetVolume(v)
      PROVE  VolumeFollowsTrack'
  BY <1>1, <1>6 DEF VolumeFollowsTrack, SetVolume, GainOf
<1>7. CASE Adjusts /\ ~\E v \in Volumes : SetVolume(v)
  <2>1. UNCHANGED <<volume, volume_factor>>
    BY <1>7 DEF Adjusts, PreviousRestart, Pause, ResumeSink, SetStatus, Seek, SetRepeat, SetShuffle,
                PollProgress, SinkPlays, SinkEnds, volVars
  <2>2. QED
    BY <1>1, <1>7, <2>1, AdjustsEffect DEF VolumeFollowsTrack
<1>8. CASE OpenOutput \/ LoadSucceeds \/ LoadFails
  BY <1>1, <1>8 DEF OpenOutput, LoadSucceeds, LoadFails, OpeningIsBlank,
                    VolumeFollowsTrack, sinkVars
<1>9. CASE Shutdown \/ PollExhausted
  BY <1>9 DEF Shutdown, PollExhausted, DropSink, VolumeFollowsTrack
<1>10. QED
  BY <1>1, <1>2, <1>3, <1>4, <1>5, <1>6, <1>7, <1>8, <1>9, StepKinds, OtherKinds

LEMMA NextStatus ==
    ASSUME NowInv, [Next]_vars
    PROVE  StatusMatchesSink'
<1>1. /\ IInv /\ OpeningIsBlank /\ LoadingIsSilent /\ StatusMatchesSink
      /\ snap \in Snapshots
  BY DEF NowInv, IInv, TypeOK
<1>2. CASE UNCHANGED vars
  BY <1>1, <1>2 DEF StatusMatchesSink, vars, sinkVars
<1>3. CASE Starts
  BY <1>1, <1>3, StartsLoad DEF StatusMatchesSink
<1>4. CASE EditsAround
  <2>1. snap'.status = snap.status /\ snap'.spectrum = snap.spectrum
    BY <1>1, <1>4 DEF EditsAround, AppendBehind, PlayNextBehind, RemoveOther, MoveInQueue,
                      Snapshots
  <2>2. QED
    BY <1>1, <1>4, <2>1, EditsEffect DEF StatusMatchesSink
<1>5. CASE Stops
  <2>1. snap'.status = "stopped" /\ snap'.spectrum = "flat"
    BY <1>1, <1>5 DEF Stops, PlayQueueEmpty, ClearQueue, StopPlayback, RemoveLastEntry,
                      Snapshots
  <2>2. QED
    BY <1>5, <2>1, StopsEffect DEF StatusMatchesSink
<1>6. CASE Pause
  BY <1>1, <1>6 DEF Pause, SetStatus, Snapshots, StatusMatchesSink, IInv, TypeOK
<1>7. CASE ResumeSink
  BY <1>1, <1>7 DEF ResumeSink, SetStatus, Snapshots, StatusMatchesSink, IInv, TypeOK
<1>8. CASE SinkEnds
  BY <1>1, <1>8 DEF SinkEnds, StatusMatchesSink
<1>9. CASE Adjusts /\ ~Pause /\ ~ResumeSink /\ ~SinkEnds
  <2>1. /\ snap'.status = snap.status /\ UNCHANGED sink
        /\ snap.status = "stopped" => snap'.spectrum = snap.spectrum
    BY <1>1, <1>9 DEF Adjusts, PreviousRestart, TrySeek, Seek, SetVolume, SetRepeat,
                      SetShuffle, PollProgress, SinkPlays, Snapshots, sinkVars
  <2>2. QED
    BY <1>1, <1>9, <2>1, AdjustsEffect DEF StatusMatchesSink
<1>10. CASE OpenOutput
  BY <1>1, <1>10 DEF OpenOutput, OpeningIsBlank, StatusMatchesSink, sinkVars
<1>11. CASE LoadSucceeds
  <2>1. snap'.status = "playing" /\ sink' = "playing" /\ current' = QueueEntry(index)
    BY <1>1, <1>11 DEF LoadSucceeds, Snapshots
  <2>2. QueueEntry(index) # NoTrack
    BY <1>1, <1>11, TracksAssumption
    DEF LoadSucceeds, IInv, TypeOK, LoadTargetExists, QueueIndices, QueueEntry
  <2>3. QED
    BY <2>1, <2>2 DEF StatusMatchesSink
<1>12. CASE LoadFails
  BY <1>1, <1>12 DEF LoadFails, LoadingIsSilent, Snapshots, StatusMatchesSink, sinkVars
<1>13. CASE PollExhausted
  BY <1>1, <1>13 DEF PollExhausted, TrackEnded, Snapshots, StatusMatchesSink, sinkVars
<1>14. CASE Shutdown
  BY <1>14 DEF Shutdown, StatusMatchesSink
<1>15. QED
  BY <1>1, <1>2, <1>3, <1>4, <1>5, <1>6, <1>7, <1>8, <1>9, <1>10, <1>11, <1>12, <1>13,
     <1>14, StepKinds, OtherKinds

\* A move leaves the queue as long as it was.
LEMMA MoveKeepsLength ==
    ASSUME IInv, NEW from \in InputIndices, NEW to \in InputIndices, MoveInQueue(from, to)
    PROVE  Len(queue') = Len(queue)
<1>1. Len(queue) \in Nat /\ IsPlayOrder(play_order, Len(queue)) /\ InputIndices \subseteq Nat
  BY BoundAssumption DEF IInv, TypeOK, PlayOrderInv, InputIndices
<1>2. from \in QueueIndices(Len(queue)) /\ to \in QueueIndices(Len(queue))
  BY <1>1 DEF MoveInQueue, QueueIndices
<1>3. IsPlayOrder(play_order', Len(queue))
  BY <1>1, <1>2, AfterMoveIsPlayOrder DEF MoveInQueue
<1>4. OrderInv'
  BY EditQueueKeepsOrder DEF EditQueue
<1>5. Len(queue') \in Nat /\ IsPlayOrder(play_order', Len(queue'))
  BY <1>4 DEF OrderInv, PlayOrderInv
<1>6. Len(play_order') = Len(queue) /\ Len(play_order') = Len(queue')
  BY <1>1, <1>3, <1>5, PlayOrderType
<1>7. QED
  BY <1>6

LEMMA NextLocates ==
    ASSUME NowInv, [Next]_vars
    PROVE  SnapshotLocatesTrack'
<1>1. /\ IInv /\ OpeningIsBlank /\ SnapshotLocatesTrack /\ snap \in Snapshots
  BY DEF NowInv, IInv, TypeOK
<1> USE DEF QueueEntry
<1>2. CASE UNCHANGED vars
  BY <1>1, <1>2 DEF SnapshotLocatesTrack, vars, orderVars
<1>3. CASE Starts
  BY <1>1, <1>3, StartsLoad DEF SnapshotLocatesTrack
<1>4. CASE EditsAround
  <2>1. /\ snap'.track = snap.track
        /\ snap'.queue_index = index' /\ snap'.queue_len = Len(queue')
    <3>1. ASSUME NEW tracks \in Batches, AppendBehind(tracks) \/ PlayNextBehind(tracks)
          PROVE  /\ snap'.track = snap.track
                 /\ snap'.queue_index = index' /\ snap'.queue_len = Len(queue')
      BY <1>1, <3>1 DEF AppendBehind, PlayNextBehind, SnapshotLocatesTrack, Snapshots
    <3>2. ASSUME NEW i \in InputIndices, RemoveOther(i)
          PROVE  /\ snap'.track = snap.track
                 /\ snap'.queue_index = index' /\ snap'.queue_len = Len(queue')
      BY <1>1, <3>2 DEF RemoveOther, SnapshotLocatesTrack, Snapshots
    <3>3. ASSUME NEW from \in InputIndices, NEW to \in InputIndices, MoveInQueue(from, to)
          PROVE  /\ snap'.track = snap.track
                 /\ snap'.queue_index = index' /\ snap'.queue_len = Len(queue')
      BY <1>1, <3>3, MoveKeepsLength DEF MoveInQueue, SnapshotLocatesTrack, Snapshots
    <3>4. QED
      BY <1>4, <3>1, <3>2, <3>3 DEF EditsAround
  <2>2. QED
    BY <1>1, <1>4, <2>1, EditsEffect, EditsKeepCurrentEntry DEF SnapshotLocatesTrack
<1>5. CASE Stops
  BY <1>1, <1>5 DEF Stops, PlayQueueEmpty, ClearQueue, StopPlayback, RemoveLastEntry,
                    Snapshots, SnapshotLocatesTrack, orderVars
<1>6. CASE Adjusts
  <2>1. UNCHANGED <<snap.track, snap.queue_index, snap.queue_len>>
    BY <1>1, <1>6 DEF Adjusts, PreviousRestart, Pause, ResumeSink, SetStatus, Seek, SetVolume, SetRepeat,
                      SetShuffle, PollProgress, SinkPlays, SinkEnds, Snapshots
  <2>2. QED
    BY <1>1, <1>6, <2>1, AdjustsEffect DEF SnapshotLocatesTrack
<1>7. CASE OpenOutput
  BY <1>1, <1>7 DEF OpenOutput, OpeningIsBlank, SnapshotLocatesTrack, orderVars
<1>8. CASE LoadSucceeds
  BY <1>1, <1>8 DEF LoadSucceeds, IInv, LoadTargetExists, QueueIndices, Snapshots,
                    SnapshotLocatesTrack, orderVars
<1>9. CASE LoadFails \/ PollExhausted \/ Shutdown
  <2>1. CASE LoadFails
    BY <1>1, <2>1 DEF LoadFails, Snapshots, SnapshotLocatesTrack, orderVars
  <2>2. CASE PollExhausted
    BY <1>1, <2>2 DEF PollExhausted, Snapshots, SnapshotLocatesTrack, orderVars
  <2>3. CASE Shutdown
    BY <1>1, <2>3 DEF Shutdown, Snapshots, SnapshotLocatesTrack, orderVars
  <2>4. QED
    BY <1>9, <2>1, <2>2, <2>3
<1>10. QED
  BY <1>1, <1>2, <1>3, <1>4, <1>5, <1>6, <1>7, <1>8, <1>9, StepKinds, OtherKinds

LEMMA InitNow == Init => NowInv
<1> SUFFICES ASSUME Init
             PROVE  NowInv
  OBVIOUS
<1>1. IInv
  BY InitIInv
<1>2. OpeningIsBlank /\ LoadingIsSilent /\ NowPlayingIsQueueEntry
  BY DEF Init, OpeningIsBlank, LoadingIsSilent, NowPlayingIsQueueEntry, SinkHasQueue,
         LoadedHasSink, LoadedIsEntry
<1>3. VolumeFollowsTrack /\ StatusMatchesSink /\ SnapshotLocatesTrack
  BY DEF Init, VolumeFollowsTrack, StatusMatchesSink, SnapshotLocatesTrack
<1>4. QED
  BY <1>1, <1>2, <1>3 DEF NowInv

LEMMA NextNow == NowInv /\ [Next]_vars => NowInv'
<1> SUFFICES ASSUME NowInv, [Next]_vars
             PROVE  NowInv'
  OBVIOUS
<1>1. IInv'
  BY NextIInv DEF NowInv
<1>2. QED
  BY <1>1, NextOpening, NextNowPlaying, NextVolume, NextStatus, NextLocates DEF NowInv

\* NowInv is an invariant of the engine.
THEOREM NowInductive == Spec => []NowInv
BY InitNow, NextNow, PTL DEF Spec

-----------------------------------------------------------------------------
(* The theorems *)

\* Whatever is edited, loaded, stopped or polled, the engine plays the entry
\* that its index names.
THEOREM PlaysTheQueueEntry == Spec => []NowPlayingIsQueueEntry
<1>1. NowInv => NowPlayingIsQueueEntry
  BY DEF NowInv
<1>2. QED
  BY <1>1, NowInductive, PTL

\* The samples are always scaled by the user's volume and by the gain of the
\* track they belong to.
THEOREM VolumeIsRight == Spec => []VolumeFollowsTrack
<1>1. NowInv => VolumeFollowsTrack
  BY DEF NowInv
<1>2. QED
  BY <1>1, NowInductive, PTL

\* Between two commands the published status agrees with the sink.
THEOREM StatusIsRight == Spec => []StatusMatchesSink
<1>1. NowInv => StatusMatchesSink
  BY DEF NowInv
<1>2. QED
  BY <1>1, NowInductive, PTL

\* Between two commands the published position in the queue is the engine's,
\* and the published track is the entry at it.
THEOREM PositionIsRight == Spec => []SnapshotLocatesTrack
<1>1. NowInv => SnapshotLocatesTrack
  BY DEF NowInv
<1>2. QED
  BY <1>1, NowInductive, PTL

\* What a step that ends an eligible listen submits.
LEMMA ListenIsSubmitted ==
    ASSUME NowInv, [Next]_vars, ListenEnds, ScrobbleEligible(current, pos),
           pc' # "exited"
    PROVE  submitted' = current
<1>1. IInv /\ LoadingIsSilent /\ OpeningIsBlank /\ sink # "none" /\ current # NoTrack
  BY DEF NowInv, ListenEnds
<1>2. pc # "loading" /\ pc # "opening" /\ CurrentPosition = pos
  BY <1>1 DEF LoadingIsSilent, OpeningIsBlank, CurrentPosition
<1>3. ASSUME MaybeScrobbleOutgoing(CurrentPosition)
      PROVE  submitted' = current
  BY <1>2, <1>3 DEF MaybeScrobbleOutgoing
<1>4. ~(UNCHANGED <<sink, current>>) /\ (sink' = "none" \/ current' = NoTrack)
  BY DEF ListenEnds
<1>5. CASE UNCHANGED vars
  BY <1>4, <1>5 DEF vars, sinkVars
<1>6. CASE Starts
  BY <1>3, <1>6 DEF Starts, PlayQueue, AppendAndStart, PublishQueue, RemoveCurrent, PlayAt, Advance,
                    PreviousTrack, ResumeReload, PollRepeatsTrack, StartPlaybackAt
<1>7. CASE EditsAround
  BY <1>4, <1>7, EditsEffect
<1>8. CASE Stops
  BY <1>3, <1>8, StopsEffect
<1>9. CASE Adjusts
  BY <1>1, <1>4, <1>9, AdjustsEffect
<1>10. CASE Shutdown \/ OpenOutput \/ LoadSucceeds \/ LoadFails
  BY <1>2, <1>10 DEF Shutdown, OpenOutput, LoadSucceeds, LoadFails
<1>11. CASE PollExhausted
  BY <1>3, <1>11 DEF PollExhausted
<1>12. QED
  BY <1>1, <1>5, <1>6, <1>7, <1>8, <1>9, <1>10, <1>11, StepKinds, OtherKinds

\* No listen that is past the scrobble threshold ends unsubmitted, except by
\* a shutdown, whichever of the handlers ends it.
THEOREM NoListenIsLost == Spec => NoListenLost
<1>1. NowInv /\ [Next]_vars =>
        [ListenEnds /\ ScrobbleEligible(current, pos) /\ pc' # "exited"
           => submitted' = current]_vars
  BY ListenIsSubmitted
<1>2. QED
  BY <1>1, NowInductive, PTL DEF Spec, NoListenLost

-----------------------------------------------------------------------------
(* What is published is announced *)

\* The set of a sequence of up to three events.
LEMMA EventSets ==
    ASSUME NEW a, NEW b, NEW c
    PROVE  /\ a \in ToSet(<<a>>)
           /\ a \in ToSet(<<a, b>>) /\ b \in ToSet(<<a, b>>)
           /\ b \in ToSet(<<a, b, c>>) /\ c \in ToSet(<<a, b, c>>)
BY DEF ToSet

\* The steps that may publish another status announce the one they publish.
LEMMA StatusIsAnnounced ==
    ASSUME NowInv, [Next]_vars, snap'.status # snap.status
    PROVE  StatusChanged(snap'.status) \in ToSet(events')
<1>1. IInv /\ snap \in Snapshots
  BY DEF NowInv, IInv, TypeOK
<1>2. ASSUME Starts \/ EditsAround \/ Shutdown \/ OpenOutput \/ UNCHANGED vars
      PROVE  FALSE
  <2>1. snap'.status = snap.status
    BY <1>1, <1>2
    DEF Starts, PlayQueue, AppendAndStart, PublishQueue, RemoveCurrent, PlayAt, Advance, PreviousTrack,
        ResumeReload, PollRepeatsTrack, EditsAround, AppendBehind, PlayNextBehind,
        RemoveOther, MoveInQueue, Shutdown, OpenOutput, vars, Snapshots
  <2>2. QED
    BY <2>1
<1>3. CASE Stops
  <2>1. /\ snap'.status = "stopped"
        /\ events' \in {<<StatusChanged("stopped")>>,
                        <<StatusChanged("stopped"), QueueEnded>>,
                        <<TrackChanged, QueueEnded, StatusChanged("stopped")>>}
    BY <1>1, <1>3 DEF Stops, PlayQueueEmpty, ClearQueue, StopPlayback, RemoveLastEntry,
                      Snapshots
  <2>2. QED
    BY <2>1, EventSets
<1>4. CASE Adjusts
  <2>1. CASE Pause \/ ResumeSink
    <3>1. events' = <<StatusChanged(snap'.status)>>
      BY <1>1, <2>1 DEF Pause, ResumeSink, SetStatus, Snapshots
    <3>2. QED
      BY <3>1, EventSets
  <2>2. CASE ~Pause /\ ~ResumeSink
    <3>1. snap'.status = snap.status
      BY <1>1, <1>4, <2>2 DEF Adjusts, PreviousRestart, Seek, SetVolume, SetRepeat,
                              SetShuffle, PollProgress, SinkPlays, SinkEnds, Snapshots
    <3>2. QED
      BY <3>1
  <2>3. QED
    BY <2>1, <2>2
<1>5. CASE LoadSucceeds \/ LoadFails \/ PollExhausted
  <2>1. events' \in {<<TrackChanged, StatusChanged(snap'.status)>>,
                     <<PlaybackError, TrackChanged, StatusChanged(snap'.status)>>,
                     <<QueueEnded, StatusChanged(snap'.status)>>}
    BY <1>1, <1>5 DEF LoadSucceeds, LoadFails, PollExhausted, Snapshots
  <2>2. QED
    BY <2>1, EventSets
<1>6. QED
  BY <1>1, <1>2, <1>3, <1>4, <1>5, StepKinds, OtherKinds

\* Only a load publishes another track, and it announces it.
LEMMA TrackIsAnnounced ==
    ASSUME NowInv, [Next]_vars, snap'.track \notin {snap.track, NoTrack}
    PROVE  TrackChanged \in ToSet(events')
<1>1. IInv /\ snap \in Snapshots
  BY DEF NowInv, IInv, TypeOK
<1>2. ASSUME Starts \/ EditsAround \/ Shutdown \/ OpenOutput \/ UNCHANGED vars
      PROVE  FALSE
  <2>1. snap'.track = snap.track
    BY <1>1, <1>2
    DEF Starts, PlayQueue, AppendAndStart, PublishQueue, RemoveCurrent, PlayAt, Advance, PreviousTrack,
        ResumeReload, PollRepeatsTrack, EditsAround, AppendBehind, PlayNextBehind,
        RemoveOther, MoveInQueue, Shutdown, OpenOutput, vars, Snapshots
  <2>2. QED
    BY <2>1
<1>3. ASSUME Stops \/ LoadFails \/ PollExhausted
      PROVE  FALSE
  <2>1. snap'.track \in {snap.track, NoTrack}
    BY <1>1, <1>3 DEF Stops, PlayQueueEmpty, ClearQueue, StopPlayback, RemoveLastEntry,
                      LoadFails, PollExhausted, Snapshots
  <2>2. QED
    BY <2>1
<1>4. ASSUME Adjusts
      PROVE  FALSE
  <2>1. snap'.track = snap.track
    BY <1>1, <1>4 DEF Adjusts, PreviousRestart, Pause, ResumeSink, SetStatus, Seek, SetVolume,
                      SetRepeat, SetShuffle, PollProgress, SinkPlays, SinkEnds, Snapshots
  <2>2. QED
    BY <2>1
<1>5. CASE LoadSucceeds
  BY <1>5, EventSets DEF LoadSucceeds
<1>6. QED
  BY <1>1, <1>2, <1>3, <1>4, <1>5, StepKinds, OtherKinds

\* The MPRIS bridge, which re-reads only when an event tells it to, is told of
\* every status and of every track the engine publishes.
THEOREM PublishedIsAnnounced == Spec => ChangesAreAnnounced
<1>1. NowInv /\ [Next]_vars =>
        [/\ snap'.status # snap.status => StatusChanged(snap'.status) \in ToSet(events')
         /\ snap'.track \notin {snap.track, NoTrack} => TrackChanged \in ToSet(events')]_vars
  BY StatusIsAnnounced, TrackIsAnnounced
<1>2. QED
  BY <1>1, NowInductive, PTL DEF Spec, ChangesAreAnnounced

\* The published queue goes with the engine's in every edit but the removal of
\* the entry that is playing.
LEMMA EditIsPublished ==
    ASSUME IInv, [Next]_vars, snap.queue = queue,
           \A i \in InputIndices : ~RemoveCurrent(i)
    PROVE  snap'.queue = queue'
<1>1. snap \in Snapshots
  BY DEF IInv, TypeOK
<1>2. ASSUME UNCHANGED <<snap, queue>>
      PROVE  snap'.queue = queue'
  BY <1>2
<1>3. ASSUME PublishQueue
      PROVE  snap'.queue = queue'
  BY <1>1, <1>3 DEF PublishQueue, Snapshots
<1>4. CASE UNCHANGED vars
  BY <1>2, <1>4 DEF vars, orderVars
<1>5. CASE Starts
  BY <1>2, <1>3, <1>5
  DEF Starts, PlayQueue, AppendAndStart, PlayAt, Advance, PreviousTrack, ResumeReload,
      PollRepeatsTrack
<1>6. CASE EditsAround
  <2>1. ASSUME NEW tracks \in Batches, AppendBehind(tracks) \/ PlayNextBehind(tracks)
        PROVE  snap'.queue = queue'
    BY <1>1, <2>1 DEF AppendBehind, PlayNextBehind, Snapshots
  <2>2. ASSUME NEW i \in InputIndices, RemoveOther(i)
        PROVE  snap'.queue = queue'
    BY <1>1, <2>2 DEF RemoveOther, Snapshots
  <2>3. ASSUME NEW from \in InputIndices, NEW to \in InputIndices, MoveInQueue(from, to)
        PROVE  snap'.queue = queue'
    BY <1>1, <2>3 DEF MoveInQueue, Snapshots
  <2>4. QED
    BY <1>6, <2>1, <2>2, <2>3 DEF EditsAround
<1>7. CASE Stops
  <2>1. ASSUME PlayQueueEmpty
        PROVE  snap'.queue = queue'
    BY <1>1, <2>1 DEF PlayQueueEmpty, Snapshots
  <2>2. ASSUME ClearQueue
        PROVE  snap'.queue = queue'
    BY <1>1, <2>2 DEF ClearQueue, Snapshots
  <2>3. ASSUME StopPlayback
        PROVE  snap'.queue = queue'
    BY <1>1, <2>3 DEF StopPlayback, orderVars, Snapshots
  <2>4. ASSUME NEW i \in InputIndices, RemoveLastEntry(i)
        PROVE  snap'.queue = queue'
    BY <1>1, <2>4 DEF RemoveLastEntry, Snapshots
  <2>5. QED
    BY <1>7, <2>1, <2>2, <2>3, <2>4 DEF Stops
<1>8. CASE Adjusts
  <2>1. queue' = queue
    BY <1>8, AdjustsEffect
  <2>2. snap'.queue = snap.queue
    <3>1. CASE \E ok \in BOOLEAN : PreviousRestart(ok) \/ \E p \in Positions : Seek(p, ok)
      BY <1>1, <3>1 DEF PreviousRestart, Seek, Snapshots
    <3>2. CASE Pause \/ ResumeSink \/ PollProgress
      BY <1>1, <3>2 DEF Pause, ResumeSink, SetStatus, PollProgress, Snapshots
    <3>3. CASE \/ \E v \in Volumes : SetVolume(v)
               \/ \E r \in RepeatModes : SetRepeat(r)
               \/ \E on \in BOOLEAN : SetShuffle(on)
               \/ SinkPlays \/ SinkEnds
      BY <3>3 DEF SetVolume, SetRepeat, SetShuffle, SinkPlays, SinkEnds
    <3>4. QED
      BY <1>8, <3>1, <3>2, <3>3 DEF Adjusts
  <2>3. QED
    BY <2>1, <2>2
<1>9. CASE Shutdown \/ OpenOutput \/ LoadSucceeds \/ LoadFails \/ PollExhausted
  BY <1>1, <1>9 DEF Shutdown, OpenOutput, LoadSucceeds, LoadFails, PollExhausted, orderVars,
                    Snapshots
<1>10. QED
  BY <1>4, <1>5, <1>6, <1>7, <1>8, <1>9, StepKinds, OtherKinds

\* Only that removal leaves a client with another queue than the engine's.
THEOREM EditsShow == Spec => EditsArePublished
<1>1. NowInv /\ [Next]_vars =>
        [snap.queue = queue =>
           snap'.queue = queue' \/ \E i \in InputIndices : RemoveCurrent(i)]_vars
  BY EditIsPublished DEF NowInv
<1>2. QED
  BY <1>1, NowInductive, PTL DEF Spec, EditsArePublished

-----------------------------------------------------------------------------
(* What is still to come *)

\* The tracks still to come, by the entries of the order behind the cursor.
LEMMA UpcomingFacts ==
    ASSUME IInv, queue # <<>>
    PROVE  /\ Len(queue) \in Nat \ {0} /\ order_pos \in 0..(Len(queue) - 1)
           /\ Len(play_order) = Len(queue)
           /\ Upcoming \in Seq(Tracks)
           /\ Len(Upcoming) = Len(queue) - order_pos - 1
           /\ \A k \in 1..(Len(queue) - order_pos - 1) :
                 /\ order_pos + 1 + k \in 1..Len(queue)
                 /\ play_order[order_pos + 1 + k] \in 0..(Len(queue) - 1)
                 /\ Upcoming[k] = queue[play_order[order_pos + 1 + k] + 1]
<1>1. /\ queue \in Seq(Tracks) /\ Len(queue) \in Nat \ {0}
      /\ order_pos \in 0..(Len(queue) - 1)
  BY CursorInQueue DEF IInv, TypeOK, QueueIndices
<1>2. Len(play_order) = Len(queue) /\ play_order \in [1..Len(queue) -> 0..(Len(queue) - 1)]
  BY <1>1, PlayOrderType DEF IInv, PlayOrderInv, IsPlayOrder, QueueIndices
<1>3. Upcoming = [k \in 1..(Len(queue) - order_pos - 1) |->
                     queue[play_order[order_pos + 1 + k] + 1]]
  BY <1>2 DEF Upcoming, QueueEntry
<1>4. Len(queue) - order_pos - 1 \in Nat
  BY <1>1
<1>5. \A k \in 1..(Len(queue) - order_pos - 1) :
         /\ order_pos + 1 + k \in 1..Len(queue)
         /\ play_order[order_pos + 1 + k] \in 0..(Len(queue) - 1)
  BY <1>1, <1>2
<1>6. \A k \in 1..(Len(queue) - order_pos - 1) :
         queue[play_order[order_pos + 1 + k] + 1] \in Tracks
  <2>1. \A i \in 0..(Len(queue) - 1) : queue[i + 1] \in Tracks
    BY <1>1
  <2>2. QED
    BY <1>5, <2>1
<1>7. QED
  BY <1>1, <1>2, <1>3, <1>4, <1>5, <1>6

\* Appended tracks come last.
LEMMA AppendComesLast ==
    ASSUME IInv, NEW tracks \in Batches, AppendBehind(tracks)
    PROVE  Upcoming' = Upcoming \o tracks
<1> DEFINE n == Len(queue)
           b == Len(tracks)
           m == n - order_pos - 1
           at == order_pos + 1
<1>1. queue \in Seq(Tracks) /\ queue # <<>> /\ tracks \in Seq(Tracks) /\ b \in Nat
  BY BatchType DEF AppendBehind, IInv, TypeOK, SinkHasQueue
<1>2. /\ queue' = queue \o tracks /\ order_pos' = order_pos
      /\ play_order' = AfterAppend(play_order, b)
  BY DEF AppendBehind
<1>3. /\ n \in Nat \ {0} /\ order_pos \in 0..(n - 1) /\ m \in Nat
      /\ at \in 1..n /\ at + m = n /\ Len(play_order) = n
  BY <1>1, UpcomingFacts
<1>4. /\ Upcoming \in Seq(Tracks) /\ Len(Upcoming) = m
      /\ \A k \in 1..m : /\ at + k \in 1..n
                         /\ play_order[at + k] \in 0..(n - 1)
                         /\ Upcoming[k] = queue[play_order[at + k] + 1]
  BY <1>1, UpcomingFacts
<1>5. queue' = [k \in 1..(n + b) |-> IF k <= n THEN queue[k] ELSE tracks[k - n]]
  BY <1>1, <1>2, ConcatEntries
<1>6. play_order' = [k \in 1..(n + b) |-> IF k <= n THEN play_order[k] ELSE k - 1]
  BY <1>2, <1>3 DEF AfterAppend
<1>7. Upcoming' = [k \in 1..(m + b) |-> queue'[play_order'[at + k] + 1]]
  <2>1. Len(play_order') - order_pos' - 1 = m + b
    BY <1>1, <1>2, <1>3, <1>6
  <2>2. QED
    BY <1>2, <2>1 DEF Upcoming, QueueEntry
<1>8. Upcoming \o tracks = [k \in 1..(m + b) |-> IF k <= m THEN Upcoming[k] ELSE tracks[k - m]]
  <2>1. Upcoming \o tracks = [k \in 1..(Len(Upcoming) + b) |->
            IF k <= Len(Upcoming) THEN Upcoming[k] ELSE tracks[k - Len(Upcoming)]]
    BY <1>1, <1>4, ConcatEntries
  <2>2. QED
    BY <1>4, <2>1
<1> HIDE DEF n, m, b, at
<1>9. ASSUME NEW k \in 1..(m + b)
      PROVE  queue'[play_order'[at + k] + 1] = IF k <= m THEN Upcoming[k] ELSE tracks[k - m]
  <2>1. CASE k <= m
    <3> DEFINE i == play_order[at + k]
    <3>1. k \in 1..m
      BY <1>1, <1>3, <2>1
    <3>2. at + k \in 1..n /\ i \in 0..(n - 1) /\ Upcoming[k] = queue[i + 1]
      BY <1>4, <3>1
    <3>3. play_order'[at + k] = i
      BY <1>1, <1>3, <1>6, <3>2
    <3> HIDE DEF i
    <3>4. queue'[i + 1] = queue[i + 1]
      BY <1>1, <1>3, <1>5, <3>2
    <3>5. QED
      BY <2>1, <3>2, <3>3, <3>4
  <2>2. CASE ~(k <= m)
    <3> DEFINE j == at + k
    <3>1. j \in 1..(n + b) /\ ~(j <= n) /\ j - n = k - m
      BY <1>1, <1>3, <2>2
    <3> HIDE DEF j
    <3>2. play_order'[j] = j - 1 /\ queue'[j] = tracks[k - m]
      BY <1>5, <1>6, <3>1
    <3>3. play_order'[j] + 1 = j
      BY <1>1, <1>3, <3>1, <3>2
    <3>4. QED
      BY <2>2, <3>2, <3>3 DEF j
  <2>3. QED
    BY <2>1, <2>2
<1>10. QED
  BY <1>7, <1>8, <1>9

\* "Play next" tracks come first, and nothing else to come changes.
LEMMA PlayNextComesFirst ==
    ASSUME IInv, NEW tracks \in Batches, PlayNextBehind(tracks)
    PROVE  Upcoming' = tracks \o Upcoming
<1> DEFINE n == Len(queue)
           b == Len(tracks)
           m == n - order_pos - 1
           at == order_pos + 1
<1>1. queue \in Seq(Tracks) /\ queue # <<>> /\ tracks \in Seq(Tracks) /\ b \in Nat
  BY BatchType DEF PlayNextBehind, IInv, TypeOK, SinkHasQueue
<1>2. /\ queue' = SubSeq(queue, 1, index + 1) \o tracks \o SubSeq(queue, index + 2, n)
      /\ order_pos' = order_pos
      /\ play_order' = PlayNextInsertion(play_order, order_pos, index, b)
  BY DEF PlayNextBehind
<1>3. /\ n \in Nat \ {0} /\ order_pos \in 0..(n - 1) /\ index \in 0..(n - 1)
      /\ Len(play_order) = n /\ DOMAIN play_order = 1..n
  <2>1. n \in Nat \ {0} /\ order_pos \in QueueIndices(n) /\ index \in QueueIndices(n)
    BY <1>1, CursorInQueue
  <2>2. IsPlayOrder(play_order, n)
    BY DEF IInv, PlayOrderInv
  <2>3. QED
    BY <2>1, <2>2, PlayOrderType DEF IsPlayOrder, QueueIndices
<1>4. /\ Upcoming \in Seq(Tracks) /\ Len(Upcoming) = m
      /\ \A k \in 1..m : /\ at + k \in 1..n
                         /\ play_order[at + k] \in 0..(n - 1)
                         /\ Upcoming[k] = queue[play_order[at + k] + 1]
  BY <1>1, UpcomingFacts
<1>5. \A k \in 1..(n + b) :
         queue'[k] = IF k <= index + 1 THEN queue[k]
                     ELSE IF k <= index + 1 + b THEN tracks[k - (index + 1)]
                     ELSE queue[k - b]
  <2>1. index + 1 \in 1..n /\ index + 2 = (index + 1) + 1
    BY <1>3
  <2> DEFINE i == index + 1
  <2>2. queue' = SubSeq(queue, 1, i) \o tracks \o SubSeq(queue, i + 1, n)
    BY <1>2, <2>1
  <2> HIDE DEF i
  <2>3. \A k \in 1..(n + b) :
           queue'[k] = IF k <= i THEN queue[k]
                       ELSE IF k <= i + b THEN tracks[k - i] ELSE queue[k - b]
    BY <1>1, <2>1, <2>2, SpliceEntries DEF i
  <2>4. QED
    BY <2>3 DEF i
<1>6. tracks \o Upcoming = [k \in 1..(b + m) |-> IF k <= b THEN tracks[k] ELSE Upcoming[k - b]]
  <2>1. tracks \in Seq(Tracks) /\ Upcoming \in Seq(Tracks)
    BY <1>1, <1>4
  <2>2. tracks \o Upcoming = [k \in 1..(b + Len(Upcoming)) |->
            IF k <= b THEN tracks[k] ELSE Upcoming[k - b]]
    BY <2>1, ConcatEntries
  <2>3. QED
    BY <1>4, <2>2
<1>7. m \in Nat /\ at \in 1..n /\ at + m = n
  BY <1>3
<1> DEFINE shifted == AfterInsert(play_order, index + 1, b)
<1>8. play_order' = [k \in 1..(n + b) |->
          IF k <= at THEN shifted[k]
          ELSE IF k <= at + b THEN index + 1 + (k - at - 1)
          ELSE shifted[k - b]]
  BY <1>2, <1>3 DEF PlayNextInsertion
<1>9. \A k \in 1..n : shifted[k] = IF play_order[k] >= index + 1
                                  THEN play_order[k] + b ELSE play_order[k]
  BY <1>3 DEF AfterInsert
<1>10. Upcoming' = [k \in 1..(b + m) |-> queue'[play_order'[at + k] + 1]]
  <2>1. Len(play_order') = n + b
    BY <1>1, <1>3, <1>8
  <2>2. Len(play_order') - order_pos' - 1 = b + m
    BY <1>1, <1>2, <1>3, <2>1
  <2>3. QED
    BY <1>2, <2>2 DEF Upcoming, QueueEntry
<1> HIDE DEF n, b, m, at, shifted
<1>11. ASSUME NEW k \in 1..(b + m)
       PROVE  queue'[play_order'[at + k] + 1] = IF k <= b THEN tracks[k] ELSE Upcoming[k - b]
  <2>1. CASE k <= b
    <3> DEFINE j == at + k
    <3>1. j \in 1..(n + b) /\ ~(j <= at) /\ j <= at + b /\ index + 1 + (j - at - 1) = index + k
      BY <1>1, <1>3, <1>7, <2>1
    <3> HIDE DEF j
    <3>2. play_order'[j] = index + k
      BY <1>8, <3>1
    <3> DEFINE i == index + k + 1
    <3>3. /\ i \in 1..(n + b) /\ ~(i <= index + 1)
          /\ i <= index + 1 + b /\ i - (index + 1) = k
      BY <1>1, <1>3, <1>7, <2>1
    <3>4. play_order'[at + k] + 1 = i
      BY <1>3, <1>7, <3>2 DEF j
    <3> HIDE DEF i
    <3>5. queue'[i] = tracks[k]
      BY <1>5, <3>3
    <3>6. QED
      BY <2>1, <3>4, <3>5
  <2>2. CASE ~(k <= b)
    <3> DEFINE j == k - b
               i == play_order[at + j]
    <3>1. j \in 1..m
      BY <1>1, <1>7, <2>2
    <3>2. at + j \in 1..n /\ i \in 0..(n - 1) /\ Upcoming[j] = queue[i + 1]
      BY <1>4, <3>1
    <3>3. play_order'[at + k] = IF i >= index + 1 THEN i + b ELSE i
      <4> DEFINE l == at + k
      <4>1. l \in 1..(n + b) /\ ~(l <= at) /\ ~(l <= at + b) /\ l - b = at + j
        BY <1>1, <1>3, <1>7, <2>2
      <4> HIDE DEF l
      <4>2. play_order'[l] = shifted[at + j]
        BY <1>8, <4>1
      <4>3. QED
        BY <1>9, <3>2, <4>2 DEF l
    <3> HIDE DEF i
    <3>4. CASE i >= index + 1
      <4> DEFINE l == i + b + 1
      <4>1. /\ l \in 1..(n + b) /\ ~(l <= index + 1)
            /\ ~(l <= index + 1 + b) /\ l - b = i + 1
            /\ play_order'[at + k] + 1 = l
        BY <1>1, <1>3, <3>2, <3>3, <3>4
      <4> HIDE DEF l
      <4>2. queue'[l] = queue[i + 1]
        BY <1>5, <4>1
      <4>3. QED
        BY <2>2, <3>2, <4>1, <4>2
    <3>5. CASE ~(i >= index + 1)
      <4>1. i + 1 \in 1..(n + b) /\ i + 1 <= index + 1
        BY <1>1, <1>3, <3>2, <3>5
      <4>2. QED
        BY <1>5, <2>2, <3>2, <3>3, <3>5, <4>1
    <3>6. QED
      BY <3>4, <3>5
  <2>3. QED
    BY <2>1, <2>2
<1>12. QED
  BY <1>6, <1>10, <1>11

\* Whatever the shuffle has made of the order, AppendQueue puts its tracks
\* behind all that is to come and PlayNext before it, and the rest stays.
THEOREM EditsComeWhereTheySay == Spec => EditsKeepUpcoming
<1>1. NowInv /\ [Next]_vars =>
        [Len(queue') > Len(queue) => \A tracks \in Batches :
           /\ AppendBehind(tracks) => Upcoming' = Upcoming \o tracks
           /\ PlayNextBehind(tracks) => Upcoming' = tracks \o Upcoming]_vars
  BY AppendComesLast, PlayNextComesFirst DEF NowInv
<1>2. QED
  BY <1>1, NowInductive, PTL DEF Spec, EditsKeepUpcoming

\* The entry an order names at k is, after the removal of another one, what
\* the order names at the place where k has gone.
LEMMA RemoveOtherFacts ==
    ASSUME IInv, NEW i \in InputIndices, RemoveOther(i)
    PROVE  \E p \in 1..Len(queue) :
              /\ play_order[p] = i /\ p # order_pos + 1
              /\ Len(play_order') = Len(queue) - 1
              /\ order_pos' = IF p < order_pos + 1 THEN order_pos - 1 ELSE order_pos
              /\ \A k \in 1..(Len(queue) - 1) :
                    queue'[play_order'[k] + 1]
                      = queue[play_order[IF k < p THEN k ELSE k + 1] + 1]
<1> DEFINE n == Len(queue)
           at == order_pos + 1
<1>1. /\ queue \in Seq(Tracks) /\ queue # <<>> /\ i \in Nat /\ i < n /\ i # index
      /\ queue' = RemoveAt(queue, i + 1)
      /\ play_order' = AfterRemove(play_order, i)
      /\ index' = IF i < index THEN index - 1 ELSE index
      /\ order_pos' = Position(play_order', index', 0)
  BY BoundAssumption DEF RemoveOther, IndexAfterRemove, InputIndices, IInv, TypeOK
<1>2. /\ n \in Nat \ {0} /\ at \in 1..n /\ i \in 0..(n - 1) /\ index \in 0..(n - 1)
      /\ play_order[at] = index /\ order_pos = at - 1
  BY <1>1, CursorInQueue DEF QueueIndices
<1>3. IsPlayOrder(play_order, n)
  BY DEF IInv, PlayOrderInv
<1>4. /\ \A k \in 1..n : play_order[k] \in 0..(n - 1)
      /\ \A j, k \in 1..n : play_order[j] = play_order[k] => j = k
  BY <1>3 DEF IsPlayOrder, QueueIndices
<1>5. PICK p \in 1..n : play_order[p] = i
  BY <1>2, <1>3 DEF IsPlayOrder, QueueIndices
<1> HIDE DEF n, at
<1> DEFINE Kept(k) == IF k < p THEN k ELSE k + 1
           Shift(j) == IF j > i THEN j - 1 ELSE j
<1>6. p # at
  BY <1>1, <1>2, <1>5
<1>7. play_order' = [k \in 1..(n - 1) |-> Shift(play_order[Kept(k)])]
  BY <1>1, <1>2, <1>3, <1>5, AfterRemoveEntries DEF QueueIndices
<1>8. \A k \in 1..(n - 1) :
         /\ Kept(k) \in 1..n /\ Kept(k) # p
         /\ play_order[Kept(k)] \in 0..(n - 1) /\ play_order[Kept(k)] # i
  BY <1>2, <1>4, <1>5
<1>9. \A k \in 1..(n - 1) : queue'[k] = IF k < i + 1 THEN queue[k] ELSE queue[k + 1]
  <2>1. i + 1 \in 1..n
    BY <1>2
  <2>2. QED
    BY <1>1, <2>1, RemoveAtFacts DEF n
<1>10. ASSUME NEW k \in 1..(n - 1)
       PROVE  queue'[play_order'[k] + 1] = queue[play_order[Kept(k)] + 1]
  <2> DEFINE j == play_order[Kept(k)]
  <2>1. j \in 0..(n - 1) /\ j # i /\ play_order'[k] = Shift(j)
    BY <1>7, <1>8
  <2> HIDE DEF j
  <2>2. Shift(j) + 1 \in 1..(n - 1)
    BY <1>2, <2>1
  <2>3. queue'[Shift(j) + 1] = queue[j + 1]
    BY <1>2, <1>9, <2>1, <2>2
  <2>4. QED
    BY <2>1, <2>3 DEF j
<1>11. order_pos' = IF p < at THEN order_pos - 1 ELSE order_pos
  <2> DEFINE c == IF p < at THEN at - 1 ELSE at
  <2>1. c \in 1..(n - 1) /\ Kept(c) = at
    BY <1>2, <1>5, <1>6
  <2>2. play_order'[c] = index'
    BY <1>1, <1>2, <1>7, <2>1
  <2>3. IsPlayOrder(play_order', n - 1)
    BY <1>1, <1>2, <1>3, AfterRemoveIsPlayOrder DEF QueueIndices
  <2>4. index' \in QueueIndices(n - 1) /\ n - 1 \in Nat
    BY <1>1, <1>2 DEF QueueIndices
  <2>5. order_pos' \in QueueIndices(n - 1) /\ play_order'[order_pos' + 1] = index'
    BY <1>1, <2>3, <2>4, PositionInOrder
  <2>6. order_pos' + 1 \in 1..(n - 1)
    <3>1. \A x \in QueueIndices(n - 1) : x + 1 \in 1..(n - 1)
      BY <1>2 DEF QueueIndices
    <3>2. QED
      BY <2>5, <3>1
  <2>7. order_pos' + 1 = c
    BY <2>1, <2>2, <2>3, <2>5, <2>6 DEF IsPlayOrder
  <2>8. order_pos' \in Int /\ c \in Int
    BY <1>2, <2>1, <2>5 DEF QueueIndices
  <2>9. order_pos' = c - 1
    BY <2>7, <2>8
  <2>10. QED
    BY <1>2, <2>9
<1>12. Len(play_order') = n - 1
  BY <1>2, <1>7
<1>13. QED
  BY <1>5, <1>6, <1>10, <1>11, <1>12 DEF n, at

\* A removal takes nothing else from what is to come.
LEMMA RemoveTakesOne ==
    ASSUME IInv, NEW i \in InputIndices, RemoveOther(i)
    PROVE  \/ Upcoming' = Upcoming
           \/ \E k \in DOMAIN Upcoming : /\ play_order[order_pos + 1 + k] = i
                                         /\ Upcoming' = RemoveAt(Upcoming, k)
<1> DEFINE n == Len(queue)
           at == order_pos + 1
           m == n - at
<1>1. queue # <<>>
  BY BoundAssumption DEF RemoveOther, InputIndices
<1>2. /\ n \in Nat \ {0} /\ at \in 1..n /\ order_pos = at - 1 /\ m \in Nat
      /\ Upcoming \in Seq(Tracks) /\ Len(Upcoming) = m
      /\ \A k \in 1..m : Upcoming[k] = queue[play_order[at + k] + 1]
  <2>1. n - order_pos - 1 = m
    BY <1>1, UpcomingFacts
  <2>2. QED
    BY <1>1, <2>1, UpcomingFacts
<1>3. Upcoming = [k \in 1..m |-> queue[play_order[at + k] + 1]]
  BY <1>2
<1>4. PICK p \in 1..n :
         /\ play_order[p] = i /\ p # at
         /\ Len(play_order') = n - 1
         /\ order_pos' = IF p < at THEN order_pos - 1 ELSE order_pos
         /\ \A k \in 1..(n - 1) :
               queue'[play_order'[k] + 1] = queue[play_order[IF k < p THEN k ELSE k + 1] + 1]
  BY RemoveOtherFacts
<1>5. Upcoming' = [k \in 1..(n - 1 - order_pos' - 1) |->
                      queue'[play_order'[order_pos' + 1 + k] + 1]]
  BY <1>4 DEF Upcoming, QueueEntry
<1> HIDE DEF n, m, at
<1>6. n = at + m
  BY <1>2 DEF m
<1>7. CASE p < at
  <2>1. order_pos' + 1 = at - 1 /\ n - 1 - order_pos' - 1 = m
    BY <1>2, <1>4, <1>6, <1>7
  <2>2. Upcoming' = [k \in 1..m |-> queue'[play_order'[at - 1 + k] + 1]]
    BY <1>5, <2>1
  <2>3. ASSUME NEW k \in 1..m
        PROVE  queue'[play_order'[at - 1 + k] + 1] = queue[play_order[at + k] + 1]
    <3> DEFINE l == at - 1 + k
    <3>1. l \in 1..(n - 1) /\ ~(l < p) /\ l + 1 = at + k
      BY <1>2, <1>6, <1>7
    <3> HIDE DEF l
    <3>2. queue'[play_order'[l] + 1] = queue[play_order[l + 1] + 1]
      BY <1>4, <3>1
    <3>3. QED
      BY <3>1, <3>2 DEF l
  <2>4. Upcoming' = Upcoming
    BY <1>3, <2>2, <2>3
  <2>5. QED
    BY <2>4
<1>8. CASE p > at
  <2> DEFINE j == p - at
  <2>1. /\ order_pos' = order_pos /\ n - 1 - order_pos' - 1 = m - 1
        /\ j \in 1..m /\ order_pos + 1 + j = p /\ at + j = p /\ order_pos + 1 = at
    BY <1>2, <1>4, <1>6, <1>8
  <2>2. Upcoming' = [k \in 1..(m - 1) |-> queue'[play_order'[at + k] + 1]]
    BY <1>5, <2>1
  <2>3. /\ RemoveAt(Upcoming, j) \in Seq(Tracks) /\ Len(RemoveAt(Upcoming, j)) = m - 1
        /\ \A k \in 1..(m - 1) :
              RemoveAt(Upcoming, j)[k] = IF k < j THEN Upcoming[k] ELSE Upcoming[k + 1]
    BY <1>2, <2>1, RemoveAtFacts
  <2> DEFINE rest == RemoveAt(Upcoming, j)
  <2> HIDE DEF j, rest
  <2>4. rest = [k \in 1..(m - 1) |-> IF k < j THEN Upcoming[k] ELSE Upcoming[k + 1]]
    BY <2>3 DEF rest
  <2>5. ASSUME NEW k \in 1..(m - 1)
        PROVE  queue'[play_order'[at + k] + 1] = IF k < j THEN Upcoming[k] ELSE Upcoming[k + 1]
    <3> DEFINE l == at + k
    <3>1. l \in 1..(n - 1) /\ (l < p <=> k < j) /\ l + 1 = at + (k + 1)
          /\ k \in 1..m /\ k + 1 \in 1..m
      BY <1>2, <1>6, <2>1
    <3>2. Upcoming[k] = queue[play_order[l] + 1]
      BY <1>3, <3>1
    <3>3. Upcoming[k + 1] = queue[play_order[l + 1] + 1]
      BY <1>3, <3>1
    <3> HIDE DEF l
    <3>4. queue'[play_order'[l] + 1] = queue[play_order[IF l < p THEN l ELSE l + 1] + 1]
      BY <1>4, <3>1
    <3>5. CASE k < j
      BY <3>1, <3>2, <3>4, <3>5 DEF l
    <3>6. CASE ~(k < j)
      BY <3>1, <3>3, <3>4, <3>6 DEF l
    <3>7. QED
      BY <3>5, <3>6
  <2>6. Upcoming' = rest
    BY <2>2, <2>4, <2>5
  <2>7. j \in DOMAIN Upcoming /\ play_order[order_pos + 1 + j] = i
    BY <1>3, <1>4, <2>1
  <2>8. QED
    BY <2>6, <2>7 DEF rest
<1>9. QED
  BY <1>2, <1>4, <1>7, <1>8

\* Removing an entry other than the current one costs the listener that entry
\* at most, wherever it was in the order.
THEOREM RemovalTakesOneEntry == Spec => RemoveKeepsUpcoming
<1>1. NowInv /\ [Next]_vars =>
        [Len(queue') < Len(queue) => \A i \in InputIndices : RemoveOther(i) =>
           \/ Upcoming' = Upcoming
           \/ \E k \in DOMAIN Upcoming : /\ play_order[order_pos + 1 + k] = i
                                         /\ Upcoming' = RemoveAt(Upcoming, k)]_vars
  BY RemoveTakesOne DEF NowInv
<1>2. QED
  BY <1>1, NowInductive, PTL DEF Spec, RemoveKeepsUpcoming

\* A shuffle anchored to an entry begins with it, so the cursor is at the front.
LEMMA AnchorComesFirst ==
    ASSUME NEW n \in Nat \ {0}, NEW anchor \in QueueIndices(n),
           NEW order \in ShuffledOrders(n, TRUE, anchor), NEW default
    PROVE  Position(order, anchor, default) = 0 /\ Len(order) = n
<1>1. IsPlayOrder(order, n) /\ order[1] = anchor
  BY DEF ShuffledOrders
<1>2. /\ Position(order, anchor, default) \in QueueIndices(n)
      /\ order[Position(order, anchor, default) + 1] = anchor
  BY <1>1, PositionInOrder
<1>3. Position(order, anchor, default) + 1 = 1
  BY <1>1, <1>2 DEF IsPlayOrder, QueueIndices
<1>4. QED
  BY <1>1, <1>2, <1>3, PlayOrderType DEF QueueIndices

\* A queue that is replaced while shuffle is on is all still to come, but for
\* the track it starts with.
LEMMA ShuffledQueueIsAhead ==
    ASSUME IInv, IInv', shuffle', queue' # <<>>, pc' = "loading",
           NEW start \in InputIndices, PlayQueue(queue', start)
    PROVE  Len(Upcoming') = Len(queue') - 1
<1> DEFINE n == Len(queue')
           first == IF start < n THEN start ELSE n - 1
<1>1. n \in Nat \ {0} /\ start \in Nat
  BY BoundAssumption DEF IInv, TypeOK, InputIndices
<1>2. first \in QueueIndices(n) /\ first < n
  BY <1>1 DEF QueueIndices
<1>3. /\ play_order' \in NewQueueOrders(n, shuffle, first)
      /\ BeginLoad(first, current) /\ UNCHANGED shuffle
  BY DEF PlayQueue, StartPlaybackAt, modeVars
<1>4. shuffle = TRUE
  BY <1>3 DEF IInv, TypeOK
<1>5. play_order' \in ShuffledOrders(n, TRUE, first)
  BY <1>1, <1>2, <1>3, <1>4 DEF NewQueueOrders
<1>6. order_pos' = Position(play_order', first, first)
  BY <1>2, <1>3 DEF BeginLoad
<1> HIDE DEF first, n
<1>7. order_pos' = 0 /\ Len(play_order') = n
  BY <1>1, <1>2, <1>5, <1>6, AnchorComesFirst
<1>8. QED
  BY <1>1, <1>7 DEF Upcoming, n

\* So is the rest of the queue when shuffle is turned on.
LEMMA ShuffleOnLeavesAllAhead ==
    ASSUME IInv, IInv', [Next]_vars, ~shuffle, shuffle', queue' # <<>>
    PROVE  Len(Upcoming') = Len(queue') - 1
<1>1. shuffle' # shuffle
  OBVIOUS
<1>2. ~(UNCHANGED vars \/ Starts \/ EditsAround)
  BY <1>1 DEF vars, Starts, PlayQueue, AppendAndStart, RemoveCurrent, PlayAt, Advance,
              PreviousTrack, ResumeReload, PollRepeatsTrack, EditsAround, AppendBehind,
              PlayNextBehind, RemoveOther, MoveInQueue, modeVars
<1>3. Others
  BY <1>2, StepKinds
<1>4. PICK on \in BOOLEAN : SetShuffle(on)
  BY <1>1, <1>3 DEF Others, PlayQueueEmpty, ClearQueue, RemoveLastEntry, PreviousRestart, Pause,
                    ResumeSink, StopPlayback, Seek, SetVolume, SetRepeat, Shutdown, OpenOutput,
                    LoadSucceeds, LoadFails, PollExhausted, PollProgress, SinkPlays, SinkEnds,
                    modeVars
<1>5. on = TRUE /\ on # shuffle
  BY <1>4 DEF SetShuffle
<1>6. /\ play_order' \in ShuffledOrders(Len(queue), TRUE, index)
      /\ order_pos' = Position(play_order', index, 0)
      /\ UNCHANGED <<queue, index>>
  BY <1>4, <1>5 DEF SetShuffle, RegeneratePlayOrder
<1>7. Len(queue) \in Nat \ {0} /\ index \in QueueIndices(Len(queue))
  BY <1>6, CursorInQueue
<1>8. order_pos' = 0 /\ Len(play_order') = Len(queue)
  <2> DEFINE n == Len(queue)
             shuffled == play_order'
             default == 0
  <2>1. n \in Nat \ {0} /\ index \in QueueIndices(n) /\ shuffled \in ShuffledOrders(n, TRUE, index)
    BY <1>6, <1>7
  <2> HIDE DEF n, shuffled, default
  <2>2. Position(shuffled, index, default) = 0 /\ Len(shuffled) = n
    BY <2>1, AnchorComesFirst
  <2>3. QED
    BY <1>6, <2>2 DEF n, shuffled, default
<1>9. QED
  BY <1>6, <1>7, <1>8 DEF Upcoming

\* No entry is shuffled to a place before the one that is played.
THEOREM ShufflePutsNothingBehind == Spec => ShuffleLeavesAllToCome
<1>1. NowInv /\ [Next]_vars =>
        [(shuffle' /\ queue' # <<>>)
           /\ \/ ~shuffle
              \/ pc' = "loading" /\ \E start \in InputIndices : PlayQueue(queue', start)
         => Len(Upcoming') = Len(queue') - 1]_vars
  BY NextIInv, ShuffledQueueIsAhead, ShuffleOnLeavesAllAhead DEF NowInv
<1>2. QED
  BY <1>1, NowInductive, PTL DEF Spec, ShuffleLeavesAllToCome

-----------------------------------------------------------------------------
(* The line the engine plays *)

LEMMA LineRemoveAt ==
    ASSUME NEW s, NEW i
    PROVE  PlayedLine!RemoveAt(s, i) = RemoveAt(s, i)
  BY DEF RemoveAt, PlayedLine!RemoveAt

LEMMA BoundedSeqIs ==
    ASSUME NEW n \in Nat, NEW s
    PROVE  s \in BoundedSeq(Tracks, n) <=> s \in Seq(Tracks) /\ Len(s) <= n
<1>1. s \in BoundedSeq(Tracks, n) <=> \E m \in 0..n : s \in [1..m -> Tracks]
  BY DEF BoundedSeq, SeqOf
<1>2. ASSUME NEW m \in 0..n, s \in [1..m -> Tracks]
      PROVE  s \in Seq(Tracks) /\ Len(s) <= n
  BY <1>2
<1>3. ASSUME s \in Seq(Tracks), Len(s) <= n
      PROVE  Len(s) \in 0..n /\ s \in [1..Len(s) -> Tracks]
  BY <1>3
<1>4. QED
  BY <1>1, <1>2, <1>3

\* What it takes to be a rearrangement.
LEMMA IsRearrangement ==
    ASSUME NEW n \in Nat, NEW s, DOMAIN s = 1..n, NEW f \in [1..n -> 1..n],
           \A j, k \in 1..n : f[j] = f[k] => j = k,
           \A i \in 1..n : \E k \in 1..n : f[k] = i
    PROVE  f \in PlayedLine!Rearrangements(s)
  BY DEF PlayedLine!Rearrangements, PlayedLine!Bijection, PlayedLine!Injection,
         PlayedLine!Surjection, PlayedLine!IsInjective

\* The line of a queue is the queue rearranged by its order.
LEMMA OrderRearranges ==
    ASSUME NEW T, NEW s \in Seq(T), NEW order, IsPlayOrder(order, Len(s)),
           NEW f, f = [k \in DOMAIN order |-> order[k] + 1]
    PROVE  /\ f \in PlayedLine!Rearrangements(s)
           /\ Line(s, order) = PlayedLine!Rearranged(s, f)
           /\ \A k \in 1..Len(s) : f[k] = order[k] + 1
<1> DEFINE n == Len(s)
<1>1. /\ n \in Nat /\ DOMAIN s = 1..n /\ DOMAIN order = 1..n
      /\ \A k \in 1..n : order[k] \in 0..(n - 1)
      /\ \A j, k \in 1..n : order[j] = order[k] => j = k
      /\ \A i \in 0..(n - 1) : \E k \in 1..n : order[k] = i
  <2>1. /\ n \in Nat /\ DOMAIN s = 1..n /\ DOMAIN order = 1..n
        /\ \A k \in 1..n : order[k] \in QueueIndices(n)
        /\ \A j, k \in 1..n : order[j] = order[k] => j = k
        /\ \A i \in QueueIndices(n) : \E k \in 1..n : order[k] = i
    BY DEF IsPlayOrder
  <2>2. QED
    BY <2>1 DEF QueueIndices
<1> HIDE DEF n
<1>2. f \in [1..n -> 1..n] /\ \A k \in 1..n : f[k] = order[k] + 1
  BY <1>1
<1>3. \A j, k \in 1..n : f[j] = f[k] => j = k
  BY <1>1, <1>2
<1>4. ASSUME NEW i \in 1..n
      PROVE  \E k \in 1..n : f[k] = i
  <2>1. i - 1 \in 0..(n - 1)
    BY <1>1
  <2>2. PICK k \in 1..n : order[k] = i - 1
    BY <1>1, <2>1
  <2>3. f[k] = i
    BY <1>2, <2>2
  <2>4. QED
    BY <2>3
<1>5. f \in PlayedLine!Rearrangements(s)
  BY <1>1, <1>2, <1>3, <1>4, IsRearrangement
<1>6. Line(s, order) = PlayedLine!Rearranged(s, f)
  BY <1>1, <1>2 DEF Line, PlayedLine!Rearranged
<1>7. QED
  BY <1>2, <1>5, <1>6 DEF n

\* The lines two orders make of a queue are each other's rearrangements.
LEMMA OrdersRearrange ==
    ASSUME NEW T, NEW s \in Seq(T), NEW order, IsPlayOrder(order, Len(s)),
           NEW next, IsPlayOrder(next, Len(s)),
           NEW f, f = [k \in DOMAIN next |-> Position(order, next[k], 0) + 1]
    PROVE  /\ f \in PlayedLine!Rearrangements(Line(s, order))
           /\ Line(s, next) = PlayedLine!Rearranged(Line(s, order), f)
           /\ \A j, k \in 1..Len(s) : next[k] = order[j] => f[k] = j
<1> DEFINE n == Len(s)
<1>1. /\ n \in Nat /\ DOMAIN order = 1..n /\ DOMAIN next = 1..n
      /\ \A k \in 1..n : order[k] \in QueueIndices(n) /\ next[k] \in QueueIndices(n)
      /\ \A j, k \in 1..n : order[j] = order[k] => j = k
      /\ \A j, k \in 1..n : next[j] = next[k] => j = k
      /\ \A i \in QueueIndices(n) : \E k \in 1..n : next[k] = i
  BY DEF IsPlayOrder
<1>2. IsPlayOrder(order, n)
  OBVIOUS
<1> HIDE DEF n
<1>3. ASSUME NEW k \in 1..n
      PROVE  f[k] \in 1..n /\ order[f[k]] = next[k]
  <2> DEFINE i == next[k]
             default == 0
             p == Position(order, i, default)
  <2>1. i \in QueueIndices(n)
    BY <1>1
  <2> HIDE DEF i, default
  <2>2. p \in QueueIndices(n) /\ order[p + 1] = i
    BY <1>1, <1>2, <2>1, PositionInOrder
  <2>3. f[k] = p + 1
    BY <1>1 DEF i, default
  <2>4. p + 1 \in 1..n
    <3> HIDE DEF p
    <3> QED
      BY <1>1, <2>2 DEF QueueIndices
  <2>5. QED
    BY <2>2, <2>3, <2>4 DEF i
<1>4. f \in [1..n -> 1..n]
  BY <1>1, <1>3
<1>5. \A j, k \in 1..n : f[j] = f[k] => j = k
  BY <1>1, <1>3
<1>6. \A j, k \in 1..n : next[k] = order[j] => f[k] = j
  BY <1>1, <1>3
<1>7. ASSUME NEW j \in 1..n
      PROVE  \E k \in 1..n : f[k] = j
  BY <1>1, <1>6
<1>8. DOMAIN Line(s, order) = 1..n /\ \A k \in 1..n : Line(s, order)[k] = s[order[k] + 1]
  BY <1>1 DEF Line
<1>9. f \in PlayedLine!Rearrangements(Line(s, order))
  <2> DEFINE before == Line(s, order)
  <2>1. DOMAIN before = 1..n
    BY <1>8
  <2> HIDE DEF before
  <2>2. f \in PlayedLine!Rearrangements(before)
    BY <1>1, <1>4, <1>5, <1>7, <2>1, IsRearrangement
  <2>3. QED
    BY <2>2 DEF before
<1>10. Line(s, next) = PlayedLine!Rearranged(Line(s, order), f)
  BY <1>1, <1>3, <1>8 DEF Line, PlayedLine!Rearranged
<1>11. QED
  BY <1>6, <1>9, <1>10 DEF n

-----------------------------------------------------------------------------
(* Commands are actions of the line *)

\* An order names an index at one place.
LEMMA PositionIs ==
    ASSUME NEW n \in Nat, NEW order, IsPlayOrder(order, n), NEW j \in 1..n, NEW default
    PROVE  Position(order, order[j], default) = j - 1
<1> DEFINE i == order[j]
           p == Position(order, i, default)
<1>1. i \in QueueIndices(n)
  BY DEF IsPlayOrder
<1> HIDE DEF i
<1>2. p \in QueueIndices(n) /\ order[p + 1] = i
  BY <1>1, PositionInOrder
<1> HIDE DEF p
<1>3. p + 1 \in 1..n
  BY <1>2 DEF QueueIndices
<1>4. p + 1 = j
  BY <1>2, <1>3 DEF i, IsPlayOrder
<1>5. QED
  BY <1>2, <1>4 DEF i, p, QueueIndices

\* The line and the place of a state, as the engine keeps them.
LEMMA LineOfQueue ==
    ASSUME IInv
    PROVE  /\ queue \in Seq(Tracks) /\ Len(queue) \in Nat
           /\ IsPlayOrder(play_order, Len(queue))
           /\ Len(play_order) = Len(queue) /\ DOMAIN play_order = 1..Len(queue)
           /\ Line(queue, play_order) \in Seq(Tracks)
           /\ Len(Line(queue, play_order)) = Len(queue)
           /\ DOMAIN Line(queue, play_order) = 1..Len(queue)
           /\ queue # <<>> => Line(queue, play_order) # <<>>
<1>1. queue \in Seq(Tracks) /\ Len(queue) \in Nat /\ IsPlayOrder(play_order, Len(queue))
  BY DEF IInv, TypeOK, PlayOrderInv
<1>2. /\ Line(queue, play_order) \in Seq(Tracks)
      /\ Len(Line(queue, play_order)) = Len(queue) /\ Len(play_order) = Len(queue)
  BY <1>1, LineFacts
<1>3. DOMAIN play_order = 1..Len(queue)
  BY <1>1 DEF IsPlayOrder
<1>4. queue # <<>> => Len(queue) # 0
  BY <1>1
<1>5. QED
  BY <1>1, <1>2, <1>3, <1>4

LEMMA CursorInLine ==
    ASSUME IInv, queue # <<>>
    PROVE  /\ order_pos \in Nat /\ index \in Nat
           /\ order_pos \in QueueIndices(Len(queue)) /\ index \in QueueIndices(Len(queue))
           /\ order_pos + 1 \in 1..Len(queue) /\ play_order[order_pos + 1] = index
  BY CursorInQueue DEF QueueIndices

\* A load puts the cursor where the order names the index that is loaded.
LEMMA LoadPlaces ==
    ASSUME IInv', NEW i \in QueueIndices(Len(queue')), NEW outgoing, BeginLoad(i, outgoing)
    PROVE  /\ Heard' = NoTrack
           /\ order_pos' \in Nat /\ order_pos' + 1 \in 1..Len(queue')
           /\ play_order'[order_pos' + 1] = i
<1>1. queue' \in Seq(Tracks) /\ Len(queue') \in Nat /\ IsPlayOrder(play_order', Len(queue'))
  BY DEF IInv, TypeOK, PlayOrderInv
<1>2. i < Len(queue')
  BY <1>1 DEF QueueIndices
<1>3. order_pos' = Position(play_order', i, i) /\ sink' = "none"
  BY <1>2 DEF BeginLoad, DropSink
<1> DEFINE n == Len(queue')
           order == play_order'
           default == i
<1>4. n \in Nat /\ IsPlayOrder(order, n) /\ i \in QueueIndices(n)
  BY <1>1
<1> HIDE DEF n, order, default
<1>5. /\ Position(order, i, default) \in QueueIndices(n)
      /\ order[Position(order, i, default) + 1] = i
  BY <1>4, PositionInOrder
<1>6. order_pos' \in QueueIndices(n) /\ order[order_pos' + 1] = i
  BY <1>3, <1>5 DEF order, default
<1>7. order_pos' \in Nat /\ order_pos' + 1 \in 1..n
  <2>1. \A x \in QueueIndices(n) : x \in Nat /\ x + 1 \in 1..n
    BY <1>4 DEF QueueIndices
  <2>2. QED
    BY <1>6, <2>1
<1>8. Heard' = NoTrack
  BY <1>3 DEF Heard
<1>9. QED
  BY <1>6, <1>7, <1>8 DEF n, order

LEMMA AppendAddsLast ==
    ASSUME IInv, NEW tracks \in Batches, AppendBehind(tracks)
    PROVE  PlayedLine!AddLast(tracks)
<1>1. /\ tracks \in Seq(Tracks) /\ queue \in Seq(Tracks)
      /\ IsPlayOrder(play_order, Len(queue))
  BY BatchType, LineOfQueue
<1>2. Line(queue \o tracks, AfterAppend(play_order, Len(tracks)))
        = Line(queue, play_order) \o tracks
  BY <1>1, LineAfterAppend
<1>3. QED
  BY <1>2 DEF AppendBehind, sinkVars, Heard, PlayedLine!AddLast

LEMMA PlayNextAddsNext ==
    ASSUME IInv, NEW tracks \in Batches, PlayNextBehind(tracks)
    PROVE  PlayedLine!AddNext(tracks)
<1> DEFINE before == Line(queue, play_order)
           b == Len(tracks)
<1>1. /\ queue # <<>> /\ UNCHANGED <<order_pos, sink, current>>
      /\ queue' = SubSeq(queue, 1, index + 1) \o tracks \o SubSeq(queue, index + 2, Len(queue))
      /\ play_order' = PlayNextInsertion(play_order, order_pos, index, b)
  BY DEF PlayNextBehind, sinkVars, IInv, SinkHasQueue
<1>2. /\ tracks \in Seq(Tracks) /\ queue \in Seq(Tracks)
      /\ IsPlayOrder(play_order, Len(queue))
      /\ Len(before) = Len(queue) /\ before # <<>>
  BY <1>1, BatchType, LineOfQueue
<1>3. /\ order_pos \in QueueIndices(Len(queue)) /\ play_order[order_pos + 1] = index
      /\ index \in Nat /\ order_pos \in Nat
  BY <1>1, CursorInLine
<1> HIDE DEF b
<1>4. LET i == play_order[order_pos + 1] + 1
          longer == SubSeq(queue, 1, i) \o tracks \o SubSeq(queue, i + 1, Len(queue))
      IN  Line(longer, PlayNextInsertion(play_order, order_pos, play_order[order_pos + 1], b))
            = SubSeq(before, 1, order_pos + 1) \o tracks
                \o SubSeq(before, order_pos + 2, Len(queue))
  <2>1. /\ tracks \in Seq(Tracks) /\ queue \in Seq(Tracks)
        /\ IsPlayOrder(play_order, Len(queue)) /\ order_pos \in QueueIndices(Len(queue))
    BY <1>2, <1>3
  <2>2. QED
    BY <2>1, LineAfterPlayNext DEF b
<1>5. index + 1 + 1 = index + 2
  BY <1>3
<1> HIDE DEF before
<1>6. Line(queue', play_order')
        = SubSeq(before, 1, order_pos + 1) \o tracks
            \o SubSeq(before, order_pos + 2, Len(before))
  BY <1>1, <1>2, <1>3, <1>4, <1>5
<1>7. QED
  BY <1>1, <1>2, <1>6 DEF before, Heard, PlayedLine!AddNext

\* Queued behind silence, the first of the tracks is gone to.
LEMMA AppendGoesThere ==
    ASSUME IInv, IInv', NEW tracks \in Batches, AppendAndStart(tracks)
    PROVE  PlayedLine!AddAndGo(tracks)
<1> DEFINE n == Len(queue)
           b == Len(tracks)
<1>1. /\ tracks \in Seq(Tracks) /\ b \in Nat \ {0} /\ queue \in Seq(Tracks) /\ n \in Nat
      /\ IsPlayOrder(play_order, Len(queue)) /\ Len(Line(queue, play_order)) = n
      /\ Len(play_order) = n
  BY BatchType, LineOfQueue
<1>2. /\ queue' = queue \o tracks /\ play_order' = AfterAppend(play_order, b)
      /\ sink = "none" /\ BeginLoad(n, current)
  BY DEF AppendAndStart, StartPlaybackAt
<1>3. Line(queue \o tracks, AfterAppend(play_order, b)) = Line(queue, play_order) \o tracks
  BY <1>1, LineAfterAppend
<1>4. Len(queue') = n + b
  BY <1>1, <1>2
<1>5. n \in QueueIndices(Len(queue'))
  BY <1>1, <1>4 DEF QueueIndices
<1>6. /\ Heard' = NoTrack
      /\ order_pos' \in Nat /\ order_pos' + 1 \in 1..Len(queue')
      /\ play_order'[order_pos' + 1] = n
  BY <1>2, <1>5, LoadPlaces
<1>7. n + 1 \in 1..Len(queue') /\ play_order'[n + 1] = n
  BY <1>1, <1>2, <1>4 DEF AfterAppend
<1>8. order_pos' = n
  <2>1. \A j, k \in 1..Len(queue') : play_order'[j] = play_order'[k] => j = k
    BY DEF IInv, PlayOrderInv, IsPlayOrder
  <2>2. order_pos' + 1 = n + 1
    BY <1>6, <1>7, <2>1
  <2>3. QED
    BY <1>1, <1>6, <2>2
<1>9. Heard = NoTrack
  BY <1>2 DEF Heard
<1>10. QED
  BY <1>1, <1>2, <1>3, <1>6, <1>8, <1>9 DEF PlayedLine!AddAndGo, PlayedLine!Silent

LEMMA PlayQueueReplaces ==
    ASSUME IInv, IInv', NEW tracks \in BoundedSeq(Tracks, MaxQueue),
           NEW start \in InputIndices, PlayQueue(tracks, start)
    PROVE  PlayedLine!Replace(tracks, FromQueue,
                              IF start < Len(tracks) THEN start + 1 ELSE Len(tracks))
<1> DEFINE n == Len(tracks)
           first == IF start < n THEN start ELSE n - 1
           f == FromQueue
<1>1. /\ tracks \in Seq(Tracks) /\ tracks # <<>> /\ n \in Nat \ {0} /\ start \in Nat
  BY BoundAssumption, BoundedSeqType DEF PlayQueue, InputIndices
<1>2. queue' = tracks /\ BeginLoad(first, current)
  BY DEF PlayQueue, StartPlaybackAt
<1>3. first \in QueueIndices(n) /\ first + 1 = IF start < n THEN start + 1 ELSE n
  BY <1>1 DEF QueueIndices
<1>4. IsPlayOrder(play_order', n)
  BY <1>2 DEF IInv, PlayOrderInv
<1> HIDE DEF first
<1>5. /\ Heard' = NoTrack
      /\ order_pos' \in Nat /\ order_pos' + 1 \in 1..n
      /\ play_order'[order_pos' + 1] = first
  BY <1>2, <1>3, LoadPlaces
<1>6. f = [k \in DOMAIN play_order' |-> play_order'[k] + 1]
  BY DEF FromQueue
<1> HIDE DEF f
<1>7. /\ f \in PlayedLine!Rearrangements(tracks)
      /\ Line(tracks, play_order') = PlayedLine!Rearranged(tracks, f)
      /\ \A k \in 1..n : f[k] = play_order'[k] + 1
  BY <1>1, <1>4, <1>6, OrderRearranges
<1>8. order_pos' + 1 \in DOMAIN tracks /\ f[order_pos' + 1] = first + 1
  BY <1>1, <1>5, <1>7
<1> DEFINE asked == IF start < n THEN start + 1 ELSE n
<1>9. first + 1 = asked
  BY <1>3
<1> HIDE DEF asked
<1>10. PlayedLine!Replace(tracks, f, asked)
  BY <1>2, <1>5, <1>7, <1>8, <1>9 DEF PlayedLine!Replace, PlayedLine!Silent
<1>11. QED
  BY <1>10 DEF asked, f

LEMMA RemovalTakesOut ==
    ASSUME IInv, NEW i \in InputIndices, RemoveOther(i)
    PROVE  PlayedLine!TakeOut(Position(play_order, i, 0) + 1)
<1> DEFINE n == Len(queue)
           before == Line(queue, play_order)
<1>1. /\ queue # <<>> /\ queue' = RemoveAt(queue, i + 1) /\ UNCHANGED <<sink, current>>
      /\ play_order' = AfterRemove(play_order, i)
  BY BoundAssumption DEF RemoveOther, sinkVars, InputIndices, IInv, TypeOK
<1>2. /\ queue \in Seq(Tracks) /\ n \in Nat /\ IsPlayOrder(play_order, n)
      /\ DOMAIN before = 1..n
  BY LineOfQueue
<1>3. order_pos \in Nat /\ order_pos + 1 \in 1..n
  BY <1>1, CursorInLine
<1>4. PICK p \in 1..n :
         /\ play_order[p] = i /\ p # order_pos + 1
         /\ order_pos' = IF p < order_pos + 1 THEN order_pos - 1 ELSE order_pos
  BY RemoveOtherFacts
<1>5. Position(play_order, i, 0) + 1 = p
  <2>1. Position(play_order, play_order[p], 0) = p - 1
    BY <1>2, PositionIs
  <2>2. QED
    BY <1>4, <2>1
<1>6. Line(RemoveAt(queue, i + 1), AfterRemove(play_order, i)) = RemoveAt(before, p)
  <2>1. Line(RemoveAt(queue, play_order[p] + 1), AfterRemove(play_order, play_order[p]))
          = RemoveAt(before, p)
    BY <1>2, LineAfterRemove
  <2>2. QED
    BY <1>4, <2>1
<1>7. Line(queue', play_order') = PlayedLine!RemoveAt(before, p)
  BY <1>1, <1>6, LineRemoveAt
<1>8. order_pos' = IF p <= order_pos THEN order_pos - 1 ELSE order_pos
  BY <1>3, <1>4
<1>9. PlayedLine!TakeOut(p)
  BY <1>1, <1>2, <1>4, <1>7, <1>8 DEF Heard, PlayedLine!TakeOut
<1>10. QED
  BY <1>5, <1>9

LEMMA RemovalOfCurrentGoesOn ==
    ASSUME IInv, IInv', NEW i \in InputIndices, RemoveCurrent(i)
    PROVE  PlayedLine!TakeOutHere
<1> DEFINE n == Len(queue)
           before == Line(queue, play_order)
           next == IF i < n - 1 THEN i ELSE n - 2
<1>1. /\ i = index /\ i \in Nat /\ i < n /\ n > 1 /\ queue # <<>>
      /\ queue' = RemoveAt(queue, i + 1) /\ play_order' = AfterRemove(play_order, i)
      /\ BeginLoad(next, NoTrack)
  BY BoundAssumption DEF RemoveCurrent, InputIndices, IInv, TypeOK
<1>2. /\ queue \in Seq(Tracks) /\ n \in Nat /\ IsPlayOrder(play_order, n)
      /\ Len(before) = n /\ before # <<>>
  BY <1>1, LineOfQueue
<1>3. order_pos + 1 \in 1..n /\ play_order[order_pos + 1] = i
  BY <1>1, CursorInLine
<1>4. Line(queue', play_order') = PlayedLine!RemoveAt(before, order_pos + 1)
  <2>1. Line(RemoveAt(queue, play_order[order_pos + 1] + 1),
             AfterRemove(play_order, play_order[order_pos + 1]))
          = RemoveAt(before, order_pos + 1)
    BY <1>2, <1>3, LineAfterRemove
  <2>2. Line(queue', play_order') = RemoveAt(before, order_pos + 1)
    BY <1>1, <1>3, <2>1
  <2>3. QED
    BY <2>2, LineRemoveAt
<1>5. Len(queue') = n - 1
  <2>1. i + 1 \in 1..n
    BY <1>1, <1>2
  <2>2. QED
    BY <1>1, <1>2, <2>1, RemoveAtFacts
<1>6. next \in QueueIndices(Len(queue'))
  BY <1>1, <1>2, <1>5 DEF QueueIndices
<1> HIDE DEF next
<1>7. Heard' = NoTrack /\ order_pos' + 1 \in 1..Len(queue')
  BY <1>1, <1>6, LoadPlaces
<1>8. DOMAIN Line(queue', play_order') = 1..Len(queue')
  BY DEF IInv, PlayOrderInv, IsPlayOrder, Line
<1>9. QED
  BY <1>2, <1>4, <1>7, <1>8 DEF PlayedLine!TakeOutHere, PlayedLine!Silent

\* A load of an index the order names at j goes to the place j - 1.
LEMMA LoadGoesThere ==
    ASSUME IInv, IInv', UNCHANGED <<queue, play_order>>,
           NEW j \in 1..Len(queue), StartPlaybackAt(play_order[j])
    PROVE  PlayedLine!GoTo(j - 1)
<1> DEFINE i == play_order[j]
<1>1. /\ Len(queue) \in Nat /\ IsPlayOrder(play_order, Len(queue))
      /\ DOMAIN Line(queue, play_order) = 1..Len(queue)
  BY LineOfQueue
<1>2. i \in QueueIndices(Len(queue'))
  BY <1>1 DEF IsPlayOrder
<1>3. BeginLoad(i, current)
  BY DEF StartPlaybackAt
<1> HIDE DEF i
<1>4. /\ Heard' = NoTrack /\ order_pos' \in Nat /\ order_pos' + 1 \in 1..Len(queue)
      /\ play_order[order_pos' + 1] = i
  BY <1>2, <1>3, LoadPlaces
<1>5. order_pos' + 1 = j
  BY <1>1, <1>4 DEF i, IsPlayOrder
<1>6. order_pos' = j - 1 /\ j - 1 + 1 \in 1..Len(queue)
  <2>1. \A a \in Nat, b \in Int : a + 1 = b => a = b - 1 /\ b - 1 + 1 = b
    OBVIOUS
  <2>2. order_pos' \in Nat /\ j \in Int
    BY <1>1, <1>4
  <2>3. order_pos' = j - 1 /\ j - 1 + 1 = j
    BY <1>5, <2>1, <2>2
  <2>4. QED
    BY <2>3
<1>7. QED
  BY <1>1, <1>4, <1>6 DEF PlayedLine!GoTo, PlayedLine!Silent

LEMMA PlayAtGoesThere ==
    ASSUME IInv, IInv', NEW i \in InputIndices, PlayAt(i)
    PROVE  /\ PlayedLine!GoTo(Position(play_order, i, 0))
           /\ Position(play_order, i, 0) + 1 \in DOMAIN Line(queue, play_order)
<1> DEFINE n == Len(queue)
<1>1. /\ n \in Nat /\ IsPlayOrder(play_order, n)
      /\ DOMAIN Line(queue, play_order) = 1..n
  BY LineOfQueue
<1>2. i \in QueueIndices(n)
  BY <1>1, BoundAssumption DEF PlayAt, InputIndices, QueueIndices
<1>3. PICK j \in 1..n : play_order[j] = i
  BY <1>1, <1>2 DEF IsPlayOrder
<1>4. Position(play_order, i, 0) = j - 1
  <2>1. Position(play_order, play_order[j], 0) = j - 1
    BY <1>1, PositionIs
  <2>2. QED
    BY <1>3, <2>1
<1>5. UNCHANGED <<queue, play_order>> /\ StartPlaybackAt(play_order[j])
  BY <1>3 DEF PlayAt
<1>6. PlayedLine!GoTo(j - 1)
  BY <1>5, LoadGoesThere
<1>7. j - 1 + 1 \in 1..n
  BY <1>1
<1>8. QED
  BY <1>1, <1>4, <1>6, <1>7

LEMMA MoveKeepsLine ==
    ASSUME IInv, IInv', NEW from \in InputIndices, NEW to \in InputIndices,
           MoveInQueue(from, to)
    PROVE  UNCHANGED PlayedLine!vars
<1> DEFINE n == Len(queue)
           at == order_pos + 1
<1>1. /\ from \in Nat /\ to \in Nat /\ from < n /\ to < n /\ queue # <<>>
      /\ queue' = InsertAt(RemoveAt(queue, from + 1), to + 1, queue[from + 1])
      /\ play_order' = AfterMove(play_order, from, to)
      /\ index' = RemapIndexAfterMove(index, from, to)
      /\ order_pos' = Position(play_order', index', 0)
      /\ UNCHANGED <<sink, current>>
  BY BoundAssumption DEF MoveInQueue, InputIndices, QueueEntry, sinkVars, IInv, TypeOK
<1>2. /\ queue \in Seq(Tracks) /\ n \in Nat /\ IsPlayOrder(play_order, n)
      /\ DOMAIN play_order = 1..n
  BY LineOfQueue
<1>3. from \in QueueIndices(n) /\ to \in QueueIndices(n)
  BY <1>1, <1>2 DEF QueueIndices
<1>4. Line(InsertAt(RemoveAt(queue, from + 1), to + 1, queue[from + 1]),
           AfterMove(play_order, from, to)) = Line(queue, play_order)
  BY <1>2, <1>3, LineAfterMove
<1>5. at \in 1..n /\ play_order[at] = index /\ order_pos \in Nat
  BY <1>1, CursorInLine
<1>6. play_order'[at] = index'
  BY <1>1, <1>2, <1>5 DEF AfterMove
<1>7. IsPlayOrder(play_order', n)
  BY <1>1, <1>2, <1>3, AfterMoveIsPlayOrder
<1>8. order_pos' = at - 1
  <2> DEFINE order == play_order'
             default == 0
  <2>1. IsPlayOrder(order, n) /\ n \in Nat /\ at \in 1..n
    BY <1>2, <1>5, <1>7
  <2> HIDE DEF order, default, n, at
  <2>2. Position(order, order[at], default) = at - 1
    BY <2>1, PositionIs
  <2>3. QED
    BY <1>1, <1>6, <2>2 DEF order, default
<1>9. order_pos' = order_pos
  BY <1>5, <1>8
<1>10. QED
  BY <1>1, <1>4, <1>9 DEF PlayedLine!vars, Heard

LEMMA AdvanceGoesForward ==
    ASSUME IInv, IInv', Advance
    PROVE  PlayedLine!Forward \/ PlayedLine!Wrap(FromOrder)
<1> DEFINE n == Len(queue)
           at == order_pos + 1
<1>1. /\ queue \in Seq(Tracks) /\ n \in Nat /\ IsPlayOrder(play_order, n)
      /\ Len(play_order) = n /\ DOMAIN play_order = 1..n
      /\ Len(Line(queue, play_order)) = n
  BY LineOfQueue
<1>2. queue' = queue /\ order_pos \in Nat
  BY DEF Advance, IInv, TypeOK
<1>3. CASE HasSuccessor /\ play_order' = play_order
             /\ StartPlaybackAt(play_order[order_pos + 2])
  <2>1. order_pos + 2 \in 1..Len(queue)
    BY <1>1, <1>2, <1>3 DEF HasSuccessor
  <2>2. PlayedLine!GoTo(order_pos + 2 - 1)
    BY <1>2, <1>3, <2>1, LoadGoesThere
  <2>3. order_pos + 2 - 1 = order_pos + 1
    BY <1>2
  <2>4. QED
    BY <2>2, <2>3 DEF PlayedLine!Forward
<1>4. CASE /\ ~HasSuccessor /\ play_order # <<>>
           /\ play_order' \in IF shuffle
                              THEN ShuffledOrders(Len(queue), shuffle, NoAnchor)
                              ELSE {play_order}
           /\ StartPlaybackAt(play_order'[1])
  <2>1. n # 0 /\ queue # <<>>
    BY <1>1, <1>4
  <2>2. at = n
    <3>1. order_pos + 1 \in 1..n
      BY <2>1, CursorInLine
    <3>2. ~(order_pos + 1 < n)
      BY <1>1, <1>4 DEF HasSuccessor
    <3>3. \A m \in Nat : \A a \in 1..m : ~(a < m) => a = m
      OBVIOUS
    <3>4. QED
      BY <1>1, <3>1, <3>2, <3>3
  <2>3. IsPlayOrder(play_order', n)
    BY <1>1, <1>4, ShuffledIsPlayOrder
  <2>4. play_order'[1] \in QueueIndices(Len(queue'))
    BY <1>1, <1>2, <2>1, <2>3 DEF IsPlayOrder
  <2>5. /\ Heard' = NoTrack /\ order_pos' \in Nat
        /\ order_pos' + 1 \in 1..n /\ play_order'[order_pos' + 1] = play_order'[1]
    <3> DEFINE i == play_order'[1]
    <3>1. i \in QueueIndices(Len(queue')) /\ BeginLoad(i, current)
      BY <1>4, <2>4 DEF StartPlaybackAt
    <3> HIDE DEF i
    <3>2. /\ Heard' = NoTrack
          /\ order_pos' \in Nat /\ order_pos' + 1 \in 1..Len(queue')
          /\ play_order'[order_pos' + 1] = i
      BY <3>1, LoadPlaces
    <3>3. QED
      BY <1>2, <3>2 DEF i
  <2>6. order_pos' = 0
    <3>1. \A j, k \in 1..n : play_order'[j] = play_order'[k] => j = k
      BY <2>3 DEF IsPlayOrder
    <3>2. 1 \in 1..n
      BY <1>1, <2>1
    <3>3. order_pos' + 1 = 1
      BY <2>5, <3>1, <3>2
    <3>4. \A x \in Nat : x + 1 = 1 => x = 0
      OBVIOUS
    <3>5. QED
      BY <2>5, <3>3, <3>4
  <2> DEFINE f == FromOrder
  <2>7. f = [k \in DOMAIN play_order' |-> Position(play_order, play_order'[k], 0) + 1]
    BY DEF FromOrder
  <2> HIDE DEF f
  <2>8. /\ f \in PlayedLine!Rearrangements(Line(queue, play_order))
        /\ Line(queue, play_order') = PlayedLine!Rearranged(Line(queue, play_order), f)
    BY <1>1, <2>3, <2>7, OrdersRearrange
  <2>9. PlayedLine!Wrap(f)
    BY <1>1, <1>2, <2>2, <2>5, <2>6, <2>8 DEF PlayedLine!Wrap, PlayedLine!Silent
  <2>10. QED
    BY <2>9 DEF f
<1>5. QED
  BY <1>3, <1>4 DEF Advance

LEMMA PreviousGoesBack ==
    ASSUME IInv, IInv', PreviousTrack
    PROVE  PlayedLine!GoTo(order_pos - 1)
<1>1. order_pos # 0 /\ order_pos \in Nat /\ queue # <<>>
  BY DEF PreviousTrack, RestartsCurrent, IInv, TypeOK, PlayOrderInv, OrderEmpty
<1>2. order_pos + 1 \in 1..Len(queue) /\ Len(queue) \in Nat
  BY <1>1, CursorInLine, LineOfQueue
<1>3. order_pos \in 1..Len(queue)
  BY <1>1, <1>2
<1>4. QED
  BY <1>3, LoadGoesThere DEF PreviousTrack

\* Resuming what is not loaded, and repeating a track, load the place again.
LEMMA ReloadStays ==
    ASSUME IInv, IInv', ResumeReload \/ PollRepeatsTrack
    PROVE  PlayedLine!GoTo(order_pos)
<1>1. queue # <<>> /\ UNCHANGED <<queue, play_order>>
  BY DEF ResumeReload, PollRepeatsTrack, TrackEnded, IInv, SinkHasQueue
<1>2. /\ order_pos \in Nat /\ order_pos + 1 \in 1..Len(queue)
      /\ play_order[order_pos + 1] = index
      /\ index \in QueueIndices(Len(queue)) /\ Len(queue) \in Nat
  BY <1>1, CursorInLine, LineOfQueue
<1>3. index < Len(queue)
  BY <1>2 DEF QueueIndices
<1>4. StartPlaybackAt(play_order[order_pos + 1])
  BY <1>2, <1>3 DEF ResumeReload, PollRepeatsTrack
<1>5. PlayedLine!GoTo(order_pos + 1 - 1)
  BY <1>1, <1>2, <1>4, LoadGoesThere
<1>6. order_pos + 1 - 1 = order_pos
  BY <1>2
<1>7. QED
  BY <1>5, <1>6

LEMMA ShuffleReorders ==
    ASSUME IInv, IInv', NEW on \in BOOLEAN, SetShuffle(on)
    PROVE  IF queue = <<>> THEN UNCHANGED PlayedLine!vars ELSE PlayedLine!Reorder(FromOrder)
<1> DEFINE n == Len(queue)
<1>1. /\ queue \in Seq(Tracks) /\ n \in Nat /\ IsPlayOrder(play_order, n)
      /\ DOMAIN Line(queue, play_order) = 1..n
  BY LineOfQueue
<1>2. UNCHANGED <<queue, index, current, sink>>
  BY DEF SetShuffle, sinkVars
<1>3. Heard' = Heard
  BY <1>2 DEF Heard
<1>4. IsPlayOrder(play_order', n)
  BY <1>2 DEF IInv, PlayOrderInv
<1>5. CASE queue = <<>>
  <2>1. n = 0
    BY <1>1, <1>5
  <2>2. DOMAIN play_order = {} /\ DOMAIN play_order' = {}
    BY <1>1, <1>4, <2>1 DEF IsPlayOrder
  <2>3. Line(queue', play_order') = Line(queue, play_order)
    BY <2>2 DEF Line
  <2>4. order_pos' = 0 /\ order_pos = 0
    BY <1>2, <1>5 DEF IInv, PlayOrderInv, OrderEmpty
  <2>5. QED
    BY <1>3, <1>5, <2>3, <2>4 DEF PlayedLine!vars
<1>6. CASE queue # <<>>
  <2> DEFINE f == FromOrder
  <2>1. f = [k \in DOMAIN play_order' |-> Position(play_order, play_order'[k], 0) + 1]
    BY DEF FromOrder
  <2> HIDE DEF f
  <2>2. /\ f \in PlayedLine!Rearrangements(Line(queue, play_order))
        /\ Line(queue, play_order') = PlayedLine!Rearranged(Line(queue, play_order), f)
        /\ \A j, k \in 1..n : play_order'[k] = play_order[j] => f[k] = j
    BY <1>1, <1>4, <2>1, OrdersRearrange
  <2>3. order_pos + 1 \in 1..n /\ play_order[order_pos + 1] = index
    BY <1>6, CursorInLine
  <2>4. order_pos' + 1 \in 1..n /\ play_order'[order_pos' + 1] = index
    <3>1. order_pos' \in QueueIndices(n) /\ play_order'[order_pos' + 1] = index
      BY <1>2, <1>6 DEF IInv, PlayOrderInv, OrderNonEmpty
    <3>2. \A x \in QueueIndices(n) : x + 1 \in 1..n
      BY <1>1 DEF QueueIndices
    <3>3. QED
      BY <3>1, <3>2
  <2>5. f[order_pos' + 1] = order_pos + 1
    BY <2>2, <2>3, <2>4
  <2>6. PlayedLine!Reorder(f)
    BY <1>1, <1>2, <1>3, <2>2, <2>4, <2>5 DEF PlayedLine!Reorder
  <2>7. QED
    BY <1>6, <2>6 DEF f
<1>7. QED
  BY <1>5, <1>6

\* A load that succeeds lets the track at the place be heard.
LEMMA LoadIsHeard ==
    ASSUME NowInv, LoadSucceeds
    PROVE  PlayedLine!Hear
<1>1. /\ pc = "loading" /\ sink = "none" /\ UNCHANGED orderVars
      /\ current' = queue[index + 1] /\ sink' = "playing"
  BY DEF LoadSucceeds, NowInv, LoadingIsSilent, QueueEntry
<1>2. IInv /\ queue # <<>>
  <2>1. index \in QueueIndices(Len(queue)) /\ IInv
    BY <1>1 DEF NowInv, IInv, LoadTargetExists
  <2>2. Len(queue) # 0
    BY <2>1 DEF QueueIndices
  <2>3. QED
    BY <2>1, <2>2
<1>3. order_pos + 1 \in 1..Len(queue) /\ play_order[order_pos + 1] = index
  BY <1>2, CursorInLine
<1>4. DOMAIN play_order = 1..Len(queue) /\ Line(queue, play_order) # <<>>
  BY <1>2, LineOfQueue
<1>5. Line(queue, play_order)[order_pos + 1] = queue[index + 1]
  BY <1>3, <1>4 DEF Line
<1>6. Heard = NoTrack /\ Heard' = queue[index + 1]
  BY <1>1 DEF Heard
<1>7. QED
  BY <1>1, <1>4, <1>5, <1>6 DEF PlayedLine!Hear, orderVars

LEMMA StepActsOnLine ==
    ASSUME NowInv, [Next]_vars
    PROVE  ActsOnLine
<1>1. IInv /\ IInv'
  BY NextIInv DEF NowInv
<1>2. \A tracks \in Batches :
         /\ AppendBehind(tracks)   => PlayedLine!AddLast(tracks)
         /\ AppendAndStart(tracks) => PlayedLine!AddAndGo(tracks)
         /\ PlayNextBehind(tracks) => PlayedLine!AddNext(tracks)
  BY <1>1, AppendAddsLast, AppendGoesThere, PlayNextAddsNext
<1>3. \A tracks \in BoundedSeq(Tracks, MaxQueue), start \in InputIndices :
         PlayQueue(tracks, start) =>
         PlayedLine!Replace(tracks, FromQueue,
                            IF start < Len(tracks) THEN start + 1 ELSE Len(tracks))
  BY <1>1, PlayQueueReplaces
<1>4. \A i \in InputIndices :
         /\ RemoveOther(i)   => PlayedLine!TakeOut(Position(play_order, i, 0) + 1)
         /\ RemoveCurrent(i) => PlayedLine!TakeOutHere
         /\ PlayAt(i)        => PlayedLine!GoTo(Position(play_order, i, 0))
         /\ \A to \in InputIndices : MoveInQueue(i, to) => UNCHANGED PlayedLine!vars
  BY <1>1, RemovalTakesOut, RemovalOfCurrentGoesOn, PlayAtGoesThere, MoveKeepsLine
<1>5. /\ Advance       => PlayedLine!Forward \/ PlayedLine!Wrap(FromOrder)
      /\ PreviousTrack => PlayedLine!GoTo(order_pos - 1)
      /\ ResumeReload \/ PollRepeatsTrack => PlayedLine!GoTo(order_pos)
  BY <1>1, AdvanceGoesForward, PreviousGoesBack, ReloadStays
<1>6. \A on \in BOOLEAN : SetShuffle(on) =>
         IF queue = <<>> THEN UNCHANGED PlayedLine!vars ELSE PlayedLine!Reorder(FromOrder)
  BY <1>1, ShuffleReorders
<1>7. LoadSucceeds => PlayedLine!Hear
  BY LoadIsHeard
<1>8. QED
  BY <1>2, <1>3, <1>4, <1>5, <1>6, <1>7 DEF ActsOnLine

\* Whatever the shuffle has made of the order, every command does to the line
\* what its doc says it does to what is played.
THEOREM CommandsActOnLine == Spec => [][ActsOnLine]_vars
<1>1. NowInv /\ [Next]_vars => [ActsOnLine]_vars
  BY StepActsOnLine
<1>2. QED
  BY <1>1, NowInductive, PTL DEF Spec

-----------------------------------------------------------------------------
(* The engine implements the line *)

LEMMA GoToIsNext ==
    ASSUME NEW place \in Int, PlayedLine!GoTo(place)
    PROVE  PlayedLine!Next
<1>1. place + 1 \in DOMAIN Line(queue, play_order) /\ place + 1 - 1 = place
  BY DEF PlayedLine!GoTo
<1>2. PICK k \in DOMAIN Line(queue, play_order) : PlayedLine!GoTo(k - 1)
  BY <1>1
<1>3. QED
  BY <1>2 DEF PlayedLine!Next

LEMMA StartsOnLine ==
    ASSUME IInv, IInv', Starts
    PROVE  PlayedLine!Next
<1>1. ASSUME NEW tracks \in BoundedSeq(Tracks, MaxQueue), NEW start \in InputIndices,
             PlayQueue(tracks, start)
      PROVE  PlayedLine!Next
  <2>1. /\ Heard' = NoTrack /\ Len(queue') \in Nat /\ queue' = tracks /\ tracks # <<>>
        /\ order_pos' + 1 \in DOMAIN tracks
    <3> DEFINE asked == IF start < Len(tracks) THEN start + 1 ELSE Len(tracks)
    <3>1. PlayedLine!Replace(tracks, FromQueue, asked)
      BY <1>1, PlayQueueReplaces
    <3> HIDE DEF asked
    <3>2. Heard' = NoTrack /\ order_pos' + 1 \in DOMAIN tracks
      BY <3>1 DEF PlayedLine!Replace, PlayedLine!Silent
    <3>3. queue' = tracks /\ tracks # <<>> /\ tracks \in Seq(Tracks)
      BY <1>1, BoundAssumption, BoundedSeqType DEF PlayQueue
    <3>4. QED
      BY <3>2, <3>3
  <2>2. /\ Line(queue', play_order') \in Seq(Tracks) /\ queue' \in Seq(Tracks)
        /\ Len(Line(queue', play_order')) = Len(queue')
    <3>1. queue' \in Seq(Tracks) /\ IsPlayOrder(play_order', Len(queue'))
      BY DEF IInv, TypeOK, PlayOrderInv
    <3>2. QED
      BY <3>1, LineFacts
  <2>3. Len(queue') # 0 /\ Len(queue') <= MaxQueue
    <3>1. tracks \in Seq(Tracks)
      BY BoundAssumption, BoundedSeqType
    <3>2. Len(tracks) <= MaxQueue
      BY BoundAssumption, BoundedSeqIs
    <3>3. QED
      BY <2>1, <3>1, <3>2
  <2>4. Line(queue', play_order') \in BoundedSeq(Tracks, MaxQueue) \ {<<>>}
    <3> DEFINE after == Line(queue', play_order')
    <3>1. /\ after \in Seq(Tracks) /\ Len(after) # 0 /\ Len(after) <= MaxQueue
      BY <2>2, <2>3
    <3> HIDE DEF after
    <3>2. after \in BoundedSeq(Tracks, MaxQueue) /\ after # <<>>
      BY <3>1, BoundAssumption, BoundedSeqIs
    <3>3. QED
      BY <3>2 DEF after
  <2>5. DOMAIN tracks = DOMAIN Line(queue', play_order')
    <3>1. DOMAIN tracks = 1..Len(queue')
      BY <2>1, <2>2
    <3>2. QED
      BY <2>2, <3>1
  <2>6. PlayedLine!Renew
    BY <2>1, <2>4, <2>5 DEF PlayedLine!Renew, PlayedLine!Silent, Queues
  <2>7. QED
    BY <2>6 DEF PlayedLine!Next
<1>2. ASSUME NEW tracks \in Batches, AppendAndStart(tracks)
      PROVE  PlayedLine!Next
  BY <1>2, AppendGoesThere DEF PlayedLine!Next
<1>3. ASSUME NEW i \in InputIndices, RemoveCurrent(i)
      PROVE  PlayedLine!Next
  BY <1>3, RemovalOfCurrentGoesOn DEF PlayedLine!Next
<1>4. ASSUME NEW i \in InputIndices, PlayAt(i)
      PROVE  PlayedLine!Next
  <2> DEFINE p == Position(play_order, i, 0)
  <2>1. PlayedLine!GoTo(p) /\ p + 1 \in DOMAIN Line(queue, play_order)
    BY <1>4, PlayAtGoesThere
  <2>2. p \in Int
    <3> DEFINE default == 0
    <3>1. IsPlayOrder(play_order, Len(queue)) /\ Len(queue) \in Nat
      BY LineOfQueue
    <3>2. i \in QueueIndices(Len(queue))
      BY <1>4, <3>1, BoundAssumption DEF PlayAt, InputIndices, QueueIndices
    <3> HIDE DEF default
    <3>3. Position(play_order, i, default) \in QueueIndices(Len(queue))
      BY <3>1, <3>2, PositionInOrder
    <3>4. QED
      BY <3>3 DEF QueueIndices, default
  <2> HIDE DEF p
  <2>3. QED
    BY <2>1, <2>2, GoToIsNext
<1>5. ASSUME Advance
      PROVE  PlayedLine!Next
  <2>1. order_pos \in Nat /\ order_pos + 1 \in Int
    BY DEF IInv, TypeOK
  <2>2. CASE PlayedLine!Forward
    BY <2>1, <2>2, GoToIsNext DEF PlayedLine!Forward
  <2>3. CASE PlayedLine!Wrap(FromOrder)
    <3>1. FromOrder \in PlayedLine!Rearrangements(Line(queue, play_order))
      BY <2>3 DEF PlayedLine!Wrap
    <3>2. QED
      BY <2>3, <3>1 DEF PlayedLine!Next
  <2>4. QED
    BY <1>5, <2>2, <2>3, AdvanceGoesForward
<1>6. ASSUME PreviousTrack \/ ResumeReload \/ PollRepeatsTrack
      PROVE  PlayedLine!Next
  <2>1. order_pos \in Int /\ order_pos - 1 \in Int
    BY DEF IInv, TypeOK
  <2>2. PlayedLine!GoTo(order_pos) \/ PlayedLine!GoTo(order_pos - 1)
    BY <1>6, PreviousGoesBack, ReloadStays
  <2>3. QED
    BY <2>1, <2>2, GoToIsNext
<1>7. QED
  BY <1>1, <1>2, <1>3, <1>4, <1>5, <1>6 DEF Starts

LEMMA EditsOnLine ==
    ASSUME IInv, IInv', EditsAround
    PROVE  PlayedLine!Next \/ UNCHANGED PlayedLine!vars
<1>1. ASSUME NEW tracks \in Batches, AppendBehind(tracks)
      PROVE  PlayedLine!Next
  BY <1>1, AppendAddsLast DEF PlayedLine!Next
<1>2. ASSUME NEW tracks \in Batches, PlayNextBehind(tracks)
      PROVE  PlayedLine!Next
  BY <1>2, PlayNextAddsNext DEF PlayedLine!Next
<1>3. ASSUME NEW i \in InputIndices, RemoveOther(i)
      PROVE  PlayedLine!Next
  <2>1. PICK k \in DOMAIN Line(queue, play_order) : PlayedLine!TakeOut(k)
    <3> DEFINE k == Position(play_order, i, 0) + 1
    <3>1. PlayedLine!TakeOut(k)
      BY <1>3, RemovalTakesOut
    <3> HIDE DEF k
    <3>2. k \in DOMAIN Line(queue, play_order)
      BY <3>1 DEF PlayedLine!TakeOut
    <3>3. QED
      BY <3>1, <3>2
  <2>2. QED
    BY <2>1 DEF PlayedLine!Next
<1>4. ASSUME NEW from \in InputIndices, NEW to \in InputIndices, MoveInQueue(from, to)
      PROVE  UNCHANGED PlayedLine!vars
  BY <1>4, MoveKeepsLine
<1>5. QED
  BY <1>1, <1>2, <1>3, <1>4 DEF EditsAround

\* With the queue, the order and the cursor left alone, what is heard may begin
\* (the load), go on, or stop.
LEMMA SameLine ==
    ASSUME UNCHANGED <<queue, play_order, order_pos>>,
           Heard' = NoTrack \/ Heard' = Heard
    PROVE  PlayedLine!Next \/ UNCHANGED PlayedLine!vars
<1>1. UNCHANGED <<Line(queue, play_order), order_pos>>
  OBVIOUS
<1>2. CASE Heard' = NoTrack
  <2>1. PlayedLine!Silence
    BY <1>1, <1>2 DEF PlayedLine!Silence, PlayedLine!Silent
  <2>2. QED
    BY <2>1 DEF PlayedLine!Next
<1>3. CASE Heard' = Heard
  BY <1>1, <1>3 DEF PlayedLine!vars
<1>4. QED
  BY <1>2, <1>3

LEMMA StopsOnLine ==
    ASSUME Stops
    PROVE  PlayedLine!Next \/ UNCHANGED PlayedLine!vars
<1>1. Heard' = NoTrack
  BY StopsEffect DEF Heard
<1>2. ASSUME StopPlayback
      PROVE  PlayedLine!Next \/ UNCHANGED PlayedLine!vars
  BY <1>1, <1>2, SameLine DEF StopPlayback, orderVars
<1>3. ASSUME queue' = <<>>, play_order' = <<>>, order_pos' = 0
      PROVE  PlayedLine!Next
  <2>1. Line(queue', play_order') = <<>>
    BY <1>3 DEF Line
  <2>2. PlayedLine!Clear
    BY <1>1, <1>3, <2>1 DEF PlayedLine!Clear, PlayedLine!Silent
  <2>3. QED
    BY <2>2 DEF PlayedLine!Next
<1>4. QED
  BY <1>2, <1>3 DEF Stops, PlayQueueEmpty, ClearQueue, RemoveLastEntry

LEMMA AdjustsOnLine ==
    ASSUME IInv, IInv', Adjusts
    PROVE  PlayedLine!Next \/ UNCHANGED PlayedLine!vars
<1>1. ASSUME NEW on \in BOOLEAN, SetShuffle(on)
      PROVE  PlayedLine!Next \/ UNCHANGED PlayedLine!vars
  <2>1. CASE queue = <<>>
    BY <1>1, <2>1, ShuffleReorders
  <2>2. CASE queue # <<>>
    <3>1. PlayedLine!Reorder(FromOrder)
      BY <1>1, <2>2, ShuffleReorders
    <3>2. FromOrder \in PlayedLine!Rearrangements(Line(queue, play_order))
      BY <3>1 DEF PlayedLine!Reorder
    <3>3. QED
      BY <3>1, <3>2 DEF PlayedLine!Next
  <2>3. QED
    BY <2>1, <2>2
<1>2. ASSUME UNCHANGED <<queue, play_order, order_pos, current>>,
             \/ UNCHANGED sink
             \/ sink \in {"playing", "paused"} /\ sink' \in {"playing", "paused"}
             \/ sink' = "ended"
      PROVE  PlayedLine!Next \/ UNCHANGED PlayedLine!vars
  <2>1. Heard' = NoTrack \/ Heard' = Heard
    BY <1>2 DEF Heard
  <2>2. QED
    BY <1>2, <2>1, SameLine
<1>3. QED
  BY <1>1, <1>2 DEF Adjusts, PreviousRestart, TrySeek, Pause, ResumeSink, Seek, SetVolume,
     SetRepeat, PollProgress, SinkPlays, SinkEnds, orderVars, sinkVars

LEMMA OthersOnLine ==
    ASSUME NowInv, IInv', Others
    PROVE  PlayedLine!Next \/ UNCHANGED PlayedLine!vars
<1>1. IInv
  BY DEF NowInv
<1>2. CASE Stops
  BY <1>2, StopsOnLine
<1>3. CASE Adjusts
  BY <1>1, <1>3, AdjustsOnLine
<1>4. CASE LoadSucceeds
  BY <1>4, LoadIsHeard DEF PlayedLine!Next
<1>5. CASE Shutdown \/ OpenOutput \/ LoadFails \/ PollExhausted
  <2>1. UNCHANGED <<queue, play_order, order_pos>>
    BY <1>5 DEF Shutdown, OpenOutput, LoadFails, PollExhausted, orderVars
  <2>2. Heard' = NoTrack \/ Heard' = Heard
    BY <1>5 DEF Shutdown, OpenOutput, LoadFails, PollExhausted, DropSink, sinkVars, Heard
  <2>3. QED
    BY <2>1, <2>2, SameLine
<1>6. QED
  BY <1>2, <1>3, <1>4, <1>5, OtherKinds

LEMMA InitOnLine == Init => PlayedLine!Init
<1> SUFFICES ASSUME Init
             PROVE  PlayedLine!Init
  OBVIOUS
<1>1. queue = <<>> /\ play_order = <<>> /\ order_pos = 0 /\ Heard = NoTrack
  BY DEF Init, Heard
<1>2. Line(queue, play_order) = <<>>
  BY <1>1 DEF Line
<1>3. QED
  BY <1>1, <1>2 DEF PlayedLine!Init

LEMMA NextOnLine == NowInv /\ [Next]_vars => [PlayedLine!Next]_(PlayedLine!vars)
<1> SUFFICES ASSUME NowInv, [Next]_vars
             PROVE  PlayedLine!Next \/ UNCHANGED PlayedLine!vars
  OBVIOUS
<1>1. IInv /\ IInv'
  BY NextIInv DEF NowInv
<1>2. CASE UNCHANGED vars
  <2>1. UNCHANGED <<queue, play_order, order_pos, sink, current>>
    BY <1>2 DEF vars, orderVars, sinkVars
  <2>2. Heard' = Heard
    BY <2>1 DEF Heard
  <2>3. QED
    BY <2>1, <2>2, SameLine
<1>3. CASE Starts
  BY <1>1, <1>3, StartsOnLine
<1>4. CASE EditsAround
  BY <1>1, <1>4, EditsOnLine
<1>5. CASE Others
  BY <1>1, <1>5, OthersOnLine
<1>6. QED
  BY <1>1, <1>2, <1>3, <1>4, <1>5, StepKinds

\* The engine plays a line of tracks: what is heard is what is at the place in
\* it, and while it is heard the line is only edited around it.
THEOREM EnginePlaysLine == Spec => ImplementsPlayLine
<1>1. Init => PlayedLine!Init
  BY InitOnLine
<1>2. NowInv /\ [Next]_vars => [PlayedLine!Next]_(PlayedLine!vars)
  BY NextOnLine
<1>3. QED
  BY <1>1, <1>2, NowInductive, PTL DEF Spec, ImplementsPlayLine, PlayedLine!Spec

-----------------------------------------------------------------------------
(* What a listener shows after some events *)

LEMMA SaysNothing ==
    ASSUME NEW name, NEW v
    PROVE  LastSays(<<>>, name, v, v)
BY DEF LastSays

LEMMA SaysOne ==
    ASSUME NEW e, NEW name, NEW v, NEW w, e = <<name, w>> \/ (e[1] # name /\ v = w)
    PROVE  LastSays(<<e>>, name, v, w)
<1>1. DOMAIN <<e>> = {1} /\ <<e>>[1] = e
  OBVIOUS
<1>2. CASE e = <<name, w>>
  <2>1. \A m \in DOMAIN <<e>> : ~(m > 1)
    BY <1>1
  <2>2. QED
    BY <1>1, <1>2, <2>1 DEF LastSays
<1>3. CASE e[1] # name /\ v = w
  BY <1>1, <1>3 DEF LastSays
<1>4. QED
  BY <1>2, <1>3

\* Who hears one sequence and then another goes from what it shows after the
\* first one.
LEMMA SaysConcat ==
    ASSUME NEW S, NEW p \in Seq(S), NEW q \in Seq(S), NEW name, NEW u, NEW v, NEW w,
           LastSays(p, name, u, v), LastSays(q, name, v, w)
    PROVE  LastSays(p \o q, name, u, w)
<1> DEFINE a == Len(p)
           b == Len(q)
           r == p \o q
<1>1. /\ a \in Nat /\ b \in Nat /\ DOMAIN p = 1..a /\ DOMAIN q = 1..b
      /\ DOMAIN r = 1..(a + b)
      /\ \A n \in 1..a : r[n] = p[n]
      /\ \A n \in 1..b : r[a + n] = q[n]
  <2>1. /\ Len(r) = a + b /\ r \in Seq(S) /\ a \in Nat /\ b \in Nat
        /\ DOMAIN p = 1..a /\ DOMAIN q = 1..b
    BY ConcatProperties
  <2>2. \A n \in 1..(a + b) : r[n] = IF n <= a THEN p[n] ELSE q[n - a]
    BY ConcatProperties
  <2>3. \A n \in 1..b : a + n \in 1..(a + b) /\ ~(a + n <= a) /\ (a + n) - a = n
    BY <2>1
  <2>4. \A n \in 1..a : n \in 1..(a + b) /\ n <= a
    BY <2>1
  <2>5. \A n \in 1..b : r[a + n] = q[n]
    BY <2>2, <2>3
  <2>6. \A n \in 1..a : r[n] = p[n]
    BY <2>2, <2>4
  <2>7. DOMAIN r = 1..(a + b)
    BY <2>1
  <2>8. QED
    BY <2>1, <2>5, <2>6, <2>7
<1> HIDE DEF a, b, r
<1>2. \A n \in DOMAIN r : n \in 1..a \/ (n - a \in 1..b /\ n = a + (n - a) /\ n > a)
  BY <1>1
<1>3. CASE \E n \in DOMAIN q : /\ q[n] = <<name, w>>
                               /\ \A m \in DOMAIN q : m > n => q[m][1] # name
  <2>1. PICK n \in DOMAIN q : /\ q[n] = <<name, w>>
                              /\ \A m \in DOMAIN q : m > n => q[m][1] # name
    BY <1>3
  <2>2. a + n \in DOMAIN r /\ r[a + n] = <<name, w>>
    BY <1>1, <2>1
  <2>3. ASSUME NEW m \in DOMAIN r, m > a + n PROVE r[m][1] # name
    <3>1. m - a \in 1..b /\ m = a + (m - a) /\ m - a > n
      BY <1>1, <1>2, <2>1, <2>3
    <3>2. r[m] = q[m - a]
      BY <1>1, <3>1
    <3>3. QED
      BY <1>1, <2>1, <3>1, <3>2
  <2>4. QED
    BY <2>2, <2>3 DEF LastSays, r
<1>4. CASE v = w /\ \A n \in DOMAIN q : q[n][1] # name
  <2>1. ASSUME NEW n \in 1..b PROVE r[a + n][1] # name
    <3>1. n \in DOMAIN q /\ r[a + n] = q[n]
      BY <1>1
    <3>2. QED
      BY <1>4, <3>1
  <2>2. CASE u = v /\ \A n \in DOMAIN p : p[n][1] # name
    <3>1. ASSUME NEW n \in DOMAIN r PROVE r[n][1] # name
      <4>1. CASE n \in 1..a
        BY <1>1, <2>2, <4>1
      <4>2. CASE n \notin 1..a
        BY <1>2, <2>1, <4>2
      <4>3. QED
        BY <4>1, <4>2
    <3>2. QED
      BY <1>4, <2>2, <3>1 DEF LastSays, r
  <2>3. CASE \E n \in DOMAIN p : /\ p[n] = <<name, v>>
                                 /\ \A m \in DOMAIN p : m > n => p[m][1] # name
    <3>1. PICK n \in DOMAIN p : /\ p[n] = <<name, v>>
                                /\ \A m \in DOMAIN p : m > n => p[m][1] # name
      BY <2>3
    <3>2. n \in DOMAIN r /\ r[n] = <<name, w>>
      BY <1>1, <1>4, <3>1
    <3>3. ASSUME NEW m \in DOMAIN r, m > n PROVE r[m][1] # name
      <4>1. CASE m \in 1..a
        BY <1>1, <3>1, <3>3, <4>1
      <4>2. CASE m \notin 1..a
        BY <1>2, <2>1, <4>2
      <4>3. QED
        BY <4>1, <4>2
    <3>4. QED
      BY <3>2, <3>3 DEF LastSays, r
  <2>4. QED
    BY <2>2, <2>3 DEF LastSays
<1>5. QED
  BY <1>3, <1>4 DEF LastSays

\* Who has heard the first event goes on from what that one says.
LEMMA SaysTail ==
    ASSUME NEW S, NEW p \in Seq(S), p # <<>>, NEW name, NEW u, NEW v,
           LastSays(p, name, u, v)
    PROVE  LastSays(Tail(p), name, IF Head(p)[1] = name THEN Head(p)[2] ELSE u, v)
<1> DEFINE t == Tail(p)
           shown == IF Head(p)[1] = name THEN Head(p)[2] ELSE u
<1>1. /\ Len(p) \in Nat \ {0} /\ DOMAIN p = 1..Len(p)
      /\ DOMAIN t = 1..(Len(p) - 1) /\ Head(p) = p[1]
      /\ \A n \in 1..(Len(p) - 1) : t[n] = p[n + 1]
  OBVIOUS
<1> HIDE DEF t
<1>2. CASE u = v /\ \A n \in DOMAIN p : p[n][1] # name
  <2>1. Head(p)[1] # name
    BY <1>1, <1>2
  <2>2. \A n \in DOMAIN t : t[n][1] # name
    BY <1>1, <1>2
  <2>3. QED
    BY <1>2, <2>1, <2>2 DEF LastSays, t
<1>3. CASE \E n \in DOMAIN p : /\ p[n] = <<name, v>>
                               /\ \A m \in DOMAIN p : m > n => p[m][1] # name
  <2>1. PICK n \in DOMAIN p : /\ p[n] = <<name, v>>
                              /\ \A m \in DOMAIN p : m > n => p[m][1] # name
    BY <1>3
  <2>2. CASE n = 1
    <3>1. Head(p) = <<name, v>> /\ <<name, v>>[1] = name /\ <<name, v>>[2] = v
      BY <1>1, <2>1, <2>2
    <3>2. shown = v
      BY <3>1
    <3>3. ASSUME NEW m \in DOMAIN t PROVE t[m][1] # name
      <4>1. m + 1 \in DOMAIN p /\ m + 1 > n /\ t[m] = p[m + 1]
        BY <1>1, <2>2
      <4>2. QED
        BY <2>1, <4>1
    <3>4. QED
      BY <3>2, <3>3 DEF LastSays, t
  <2>3. CASE n # 1
    <3>1. n - 1 \in DOMAIN t /\ t[n - 1] = <<name, v>>
      BY <1>1, <2>1, <2>3
    <3>2. \A m \in DOMAIN t : m > n - 1 => t[m][1] # name
      BY <1>1, <2>1
    <3>3. QED
      BY <3>1, <3>2 DEF LastSays, t
  <2>4. QED
    BY <2>2, <2>3
<1>4. QED
  BY <1>2, <1>3 DEF LastSays

LEMMA SaysTwo ==
    ASSUME NEW a, NEW b, NEW name, NEW u, NEW v, NEW w,
           a = <<name, v>> \/ (a[1] # name /\ u = v),
           b = <<name, w>> \/ (b[1] # name /\ v = w)
    PROVE  LastSays(<<a, b>>, name, u, w)
<1>1. LastSays(<<a>>, name, u, v) /\ LastSays(<<b>>, name, v, w)
  BY SaysOne
<1>2. <<a>> \in Seq({a, b}) /\ <<b>> \in Seq({a, b}) /\ <<a>> \o <<b>> = <<a, b>>
  <2> DEFINE S == {a, b}
  <2>1. a \in S /\ b \in S
    OBVIOUS
  <2> HIDE DEF S
  <2>2. <<a>> \in Seq(S) /\ <<b>> \in Seq(S)
    BY <2>1
  <2>3. Append(<<a>>, b) = <<a>> \o <<b>>
    BY <2>1, <2>2, AppendIsConcat
  <2>4. Append(<<a>>, b) = <<a, b>>
    <3>1. /\ Append(<<a>>, b) \in Seq(S) /\ Len(Append(<<a>>, b)) = 2
          /\ Append(<<a>>, b)[1] = a /\ Append(<<a>>, b)[2] = b
      BY <2>1, <2>2, AppendProperties
    <3>2. /\ <<a, b>> \in Seq(S) /\ Len(<<a, b>>) = 2
          /\ <<a, b>>[1] = a /\ <<a, b>>[2] = b
      BY <2>1
    <3>3. \A n \in 1..2 : Append(<<a>>, b)[n] = <<a, b>>[n]
      BY <3>1, <3>2
    <3>4. QED
      BY <3>1, <3>2, <3>3, SeqEqual
  <2>5. QED
    BY <2>2, <2>3, <2>4 DEF S
<1>3. LastSays(<<a>> \o <<b>>, name, u, w)
  BY <1>1, <1>2, SaysConcat
<1>4. QED
  BY <1>2, <1>3

LEMMA SaysThree ==
    ASSUME NEW a, NEW b, NEW c, NEW name, NEW u, NEW w,
           a[1] # name, b[1] # name, c = <<name, w>> \/ (c[1] # name /\ u = w)
    PROVE  LastSays(<<a, b, c>>, name, u, w)
<1>1. LastSays(<<a, b>>, name, u, u) /\ LastSays(<<c>>, name, u, w)
  BY SaysOne, SaysTwo
<1>2. /\ <<a, b>> \in Seq({a, b, c}) /\ <<c>> \in Seq({a, b, c})
      /\ <<a, b>> \o <<c>> = <<a, b, c>>
  <2> DEFINE S == {a, b, c}
  <2>1. a \in S /\ b \in S /\ c \in S
    OBVIOUS
  <2> HIDE DEF S
  <2>2. <<a, b>> \in Seq(S) /\ <<c>> \in Seq(S)
    BY <2>1
  <2>3. Append(<<a, b>>, c) = <<a, b>> \o <<c>>
    BY <2>1, <2>2, AppendIsConcat
  <2>4. Append(<<a, b>>, c) = <<a, b, c>>
    <3>1. /\ Append(<<a, b>>, c) \in Seq(S) /\ Len(Append(<<a, b>>, c)) = 3
          /\ Append(<<a, b>>, c)[1] = a /\ Append(<<a, b>>, c)[2] = b
          /\ Append(<<a, b>>, c)[3] = c
      BY <2>1, <2>2, AppendProperties
    <3>2. /\ <<a, b, c>> \in Seq(S) /\ Len(<<a, b, c>>) = 3
          /\ <<a, b, c>>[1] = a /\ <<a, b, c>>[2] = b /\ <<a, b, c>>[3] = c
      BY <2>1
    <3>3. \A n \in 1..3 : Append(<<a, b>>, c)[n] = <<a, b, c>>[n]
      BY <3>1, <3>2
    <3>4. QED
      BY <3>1, <3>2, <3>3, SeqEqual
  <2>5. QED
    BY <2>2, <2>3, <2>4 DEF S
<1>3. LastSays(<<a, b>> \o <<c>>, name, u, w)
  BY <1>1, <1>2, SaysConcat
<1>4. QED
  BY <1>2, <1>3

-----------------------------------------------------------------------------
(* What the events of one step of the engine tell *)

EngineTells ==
    /\ LastSays(events', "StatusChanged", snap.status, snap'.status)
    /\ LastSays(events', "RepeatChanged", repeat, repeat')
    /\ LastSays(events', "ShuffleChanged", shuffle, shuffle')

\* The kinds of events can be told apart.
LEMMA EventKinds ==
    /\ \A x : /\ StatusChanged(x) = <<"StatusChanged", x>> /\ StatusChanged(x)[1] = "StatusChanged"
              /\ RepeatChanged(x) = <<"RepeatChanged", x>> /\ RepeatChanged(x)[1] = "RepeatChanged"
              /\ ShuffleChanged(x) = <<"ShuffleChanged", x>>
              /\ ShuffleChanged(x)[1] = "ShuffleChanged"
              /\ Seeked(x)[1] = "Seeked"
    /\ TrackChanged[1] = "TrackChanged" /\ QueueEnded[1] = "QueueEnded"
    /\ PlaybackError[1] = "PlaybackError"
BY DEF StatusChanged, RepeatChanged, ShuffleChanged, Seeked, TrackChanged, QueueEnded,
       PlaybackError

\* A step that leaves status and modes needs no event of theirs.
LEMMA SilentTells ==
    ASSUME NEW e, events' \in {<<>>, <<e>>}, snap'.status = snap.status, UNCHANGED modeVars,
           e[1] \notin {"StatusChanged", "RepeatChanged", "ShuffleChanged"}
    PROVE  EngineTells
<1>1. repeat' = repeat /\ shuffle' = shuffle
  BY DEF modeVars
<1>2. CASE events' = <<>>
  BY <1>1, <1>2, SaysNothing DEF EngineTells
<1>3. CASE events' = <<e>>
  BY <1>1, <1>3, SaysOne DEF EngineTells
<1>4. QED
  BY <1>2, <1>3

\* A step that tells the status it publishes.
LEMMA StatusTells ==
    ASSUME NEW s, snap'.status = s, UNCHANGED modeVars,
           events' \in {<<StatusChanged(s)>>,
                        <<StatusChanged(s), QueueEnded>>,
                        <<TrackChanged, QueueEnded, StatusChanged(s)>>,
                        <<TrackChanged, StatusChanged(s)>>,
                        <<PlaybackError, TrackChanged, StatusChanged(s)>>,
                        <<QueueEnded, StatusChanged(s)>>}
    PROVE  EngineTells
<1> DEFINE old == snap.status
           S == "StatusChanged"
           R == "RepeatChanged"
           H == "ShuffleChanged"
<1>0. /\ repeat' = repeat /\ shuffle' = shuffle
      /\ StatusChanged(s) = <<S, s>> /\ StatusChanged(s)[1] \notin {R, H}
      /\ TrackChanged[1] \notin {S, R, H} /\ QueueEnded[1] \notin {S, R, H}
      /\ PlaybackError[1] \notin {S, R, H}
  BY EventKinds DEF modeVars
<1>1. CASE events' = <<StatusChanged(s)>>
  <2>1. LastSays(events', S, old, s)
    BY <1>0, <1>1, SaysOne
  <2>2. LastSays(events', R, repeat, repeat) /\ LastSays(events', H, shuffle, shuffle)
    BY <1>0, <1>1, SaysOne
  <2>3. QED
    BY <1>0, <2>1, <2>2 DEF EngineTells
<1>2. CASE events' = <<StatusChanged(s), QueueEnded>>
  <2>1. LastSays(events', S, old, s)
    BY <1>0, <1>2, SaysTwo
  <2>2. LastSays(events', R, repeat, repeat) /\ LastSays(events', H, shuffle, shuffle)
    BY <1>0, <1>2, SaysTwo
  <2>3. QED
    BY <1>0, <2>1, <2>2 DEF EngineTells
<1>3. ASSUME NEW e, events' = <<e, StatusChanged(s)>>, e[1] \notin {S, R, H}
      PROVE  EngineTells
  <2>1. LastSays(events', S, old, s)
    BY <1>0, <1>3, SaysTwo
  <2>2. LastSays(events', R, repeat, repeat) /\ LastSays(events', H, shuffle, shuffle)
    BY <1>0, <1>3, SaysTwo
  <2>3. QED
    BY <1>0, <2>1, <2>2 DEF EngineTells
<1>4. ASSUME NEW d, NEW e, events' = <<d, e, StatusChanged(s)>>,
             d[1] \notin {S, R, H}, e[1] \notin {S, R, H}
      PROVE  EngineTells
  <2>1. LastSays(events', S, old, s)
    BY <1>0, <1>4, SaysThree
  <2>2. LastSays(events', R, repeat, repeat) /\ LastSays(events', H, shuffle, shuffle)
    BY <1>0, <1>4, SaysThree
  <2>3. QED
    BY <1>0, <2>1, <2>2 DEF EngineTells
<1>5. QED
  BY <1>0, <1>1, <1>2, <1>3, <1>4

\* Whatever the engine does, the events it sends bring whoever showed its
\* status and modes before to those it has after.
LEMMA StepTells ==
    ASSUME NowInv, Command \/ Engine \/ Audio
    PROVE  EngineTells
<1>1. IInv /\ snap \in Snapshots
  BY DEF NowInv, IInv, TypeOK
<1>2. QueueEnded[1] \notin {"StatusChanged", "RepeatChanged", "ShuffleChanged"}
      /\ PlaybackError[1] \notin {"StatusChanged", "RepeatChanged", "ShuffleChanged"}
  BY EventKinds
<1>3. CASE Starts
  <2>1. events' = <<>> /\ snap'.status = snap.status /\ UNCHANGED modeVars
    BY <1>1, <1>3
    DEF Starts, PlayQueue, AppendAndStart, PublishQueue, RemoveCurrent, PlayAt, Advance, PreviousTrack,
        ResumeReload, PollRepeatsTrack, Snapshots
  <2>2. QED
    BY <1>2, <2>1, SilentTells
<1>4. CASE EditsAround
  <2>1. events' = <<>> /\ snap'.status = snap.status /\ UNCHANGED modeVars
    BY <1>1, <1>4 DEF EditsAround, AppendBehind, PlayNextBehind, RemoveOther, MoveInQueue,
                      Snapshots
  <2>2. QED
    BY <1>2, <2>1, SilentTells
<1>5. CASE Shutdown \/ OpenOutput
  <2>1. /\ events' \in {<<>>, <<PlaybackError>>}
        /\ snap'.status = snap.status /\ UNCHANGED modeVars
    BY <1>5 DEF Shutdown, OpenOutput
  <2>2. QED
    BY <1>2, <2>1, SilentTells
<1>6. CASE Stops
  <2>1. /\ snap'.status = "stopped" /\ UNCHANGED modeVars
        /\ events' \in {<<StatusChanged("stopped")>>,
                        <<StatusChanged("stopped"), QueueEnded>>,
                        <<TrackChanged, QueueEnded, StatusChanged("stopped")>>}
    BY <1>1, <1>6 DEF Stops, PlayQueueEmpty, ClearQueue, StopPlayback, RemoveLastEntry,
                      Snapshots
  <2>2. QED
    BY <2>1, StatusTells
<1>7. CASE LoadSucceeds \/ LoadFails \/ PollExhausted
  <2>1. /\ UNCHANGED modeVars
        /\ events' \in {<<TrackChanged, StatusChanged(snap'.status)>>,
                        <<PlaybackError, TrackChanged, StatusChanged(snap'.status)>>,
                        <<QueueEnded, StatusChanged(snap'.status)>>}
    BY <1>1, <1>7 DEF LoadSucceeds, LoadFails, PollExhausted, Snapshots
  <2>2. QED
    BY <2>1, StatusTells
<1>8. CASE Adjusts
  <2>1. CASE Pause \/ ResumeSink
    <3>1. events' = <<StatusChanged(snap'.status)>> /\ UNCHANGED modeVars
      BY <1>1, <2>1 DEF Pause, ResumeSink, SetStatus, Snapshots
    <3>2. QED
      BY <3>1, StatusTells
  <2>2. ASSUME NEW r \in RepeatModes, SetRepeat(r)
        PROVE  EngineTells
    <3>1. /\ events' = <<RepeatChanged(r)>> /\ repeat' = r
          /\ UNCHANGED <<shuffle, snap>>
      BY <2>2 DEF SetRepeat
    <3>2. /\ RepeatChanged(r) = <<"RepeatChanged", r>>
          /\ RepeatChanged(r)[1] \notin {"StatusChanged", "ShuffleChanged"}
      BY EventKinds
    <3>3. QED
      BY <3>1, <3>2, SaysOne DEF EngineTells
  <2>3. ASSUME NEW on \in BOOLEAN, SetShuffle(on)
        PROVE  EngineTells
    <3>1. /\ events' = <<ShuffleChanged(on)>> /\ shuffle' = on
          /\ UNCHANGED <<repeat, snap>>
      BY <2>3, Zenon DEF SetShuffle
    <3>2. /\ ShuffleChanged(on) = <<"ShuffleChanged", on>>
          /\ ShuffleChanged(on)[1] \notin {"StatusChanged", "RepeatChanged"}
      BY EventKinds
    <3>3. LastSays(events', "ShuffleChanged", shuffle, on)
      BY <3>1, <3>2, SaysOne
    <3>4. LastSays(events', "ShuffleChanged", shuffle, shuffle')
      BY <3>1, <3>3, Zenon
    <3>5. /\ LastSays(events', "StatusChanged", snap.status, snap'.status)
          /\ LastSays(events', "RepeatChanged", repeat, repeat')
      BY <3>1, <3>2, SaysOne
    <3>6. QED
      BY <3>4, <3>5 DEF EngineTells
  <2>4. ASSUME NEW p \in Positions, NEW ok \in BOOLEAN, Seek(p, ok)
        PROVE  EngineTells
    <3>1. /\ events' \in {<<>>, <<Seeked(p)>>}
          /\ snap'.status = snap.status /\ UNCHANGED modeVars
      BY <1>1, <2>4 DEF Seek, Snapshots
    <3>2. Seeked(p)[1] \notin {"StatusChanged", "RepeatChanged", "ShuffleChanged"}
      BY EventKinds
    <3>3. QED
      BY <3>1, <3>2, SilentTells
  <2>5. ASSUME \/ \E ok \in BOOLEAN : PreviousRestart(ok)
               \/ \E v \in Volumes : SetVolume(v)
               \/ PollProgress \/ SinkPlays \/ SinkEnds
        PROVE  EngineTells
    <3>1. events' = <<>> /\ snap'.status = snap.status /\ UNCHANGED modeVars
      BY <1>1, <2>5 DEF PreviousRestart, SetVolume, PollProgress, SinkPlays, SinkEnds, Snapshots
    <3>2. QED
      BY <1>2, <3>1, SilentTells
  <2>6. QED
    BY <1>8, <2>1, <2>2, <2>3, <2>4, <2>5 DEF Adjusts
<1>9. QED
  BY <1>1, <1>3, <1>4, <1>5, <1>6, <1>7, <1>8, ActionKinds, OtherKinds

-----------------------------------------------------------------------------
(* The bridge *)

TrackIsTold == snap.track \in {NoTrack, bus.track} \/ TrackChanged \in ToSet(pending)

BridgeInv == NowInv /\ pending \in Seq(Events) /\ BusAgrees

\* A step that sends what it tells keeps the bus with the engine.
LEMMA SendKeepsBus ==
    ASSUME BridgeInv, SendEvents, UNCHANGED bus, NowInv', EngineTells,
           snap'.track \notin {snap.track, NoTrack} => TrackChanged \in ToSet(events')
    PROVE  BridgeInv'
<1>1. /\ pending \in Seq(Events) /\ events' \in Seq(Events) /\ bus' = bus
      /\ pending' = pending \o events'
  BY DEF BridgeInv, SendEvents, NowInv, IInv, TypeOK
<1>2. pending' \in Seq(Events)
  BY <1>1, ConcatProperties
<1>3. /\ LastSays(pending', "StatusChanged", bus'.status, snap'.status)
      /\ LastSays(pending', "RepeatChanged", bus'.repeat, repeat')
      /\ LastSays(pending', "ShuffleChanged", bus'.shuffle, shuffle')
  <2>1. LastSays(pending', "StatusChanged", bus'.status, snap'.status)
    BY <1>1, SaysConcat DEF BridgeInv, BusAgrees, EngineTells
  <2>2. LastSays(pending', "RepeatChanged", bus'.repeat, repeat')
    BY <1>1, SaysConcat DEF BridgeInv, BusAgrees, EngineTells
  <2>3. LastSays(pending', "ShuffleChanged", bus'.shuffle, shuffle')
    BY <1>1, SaysConcat DEF BridgeInv, BusAgrees, EngineTells
  <2>4. QED
    BY <2>1, <2>2, <2>3
<1>4. ToSet(pending') = ToSet(pending) \cup ToSet(events')
  <2>1. \A q : ToSet(q) = Range(q)
    BY DEF ToSet, Range
  <2>2. QED
    BY <1>1, <2>1, RangeConcatenation
<1>5. TrackIsTold'
  BY <1>1, <1>4 DEF BridgeInv, BusAgrees, TrackIsTold
<1>6. QED
  BY <1>2, <1>3, <1>5 DEF BridgeInv, BusAgrees, TrackIsTold

\* The engine's own steps, by whichever call.
LEMMA EngineStep ==
    ASSUME BridgeInv, Command \/ Engine \/ Audio, SendEvents, UNCHANGED bus
    PROVE  BridgeInv'
<1>1. NowInv /\ [Next]_vars
  BY DEF BridgeInv, Next
<1>2. NowInv'
  BY <1>1, NextNow
<1>3. EngineTells
  BY <1>1, StepTells
<1>4. snap'.track \notin {snap.track, NoTrack} => TrackChanged \in ToSet(events')
  BY <1>1, TrackIsAnnounced
<1>5. QED
  BY <1>2, <1>3, <1>4, SendKeepsBus

\* A command that finds nothing to act on.
LEMMA IgnoredKeepsNow ==
    ASSUME NowInv, Ignored
    PROVE  NowInv' /\ EngineTells /\ snap' = snap
<1>1. /\ events' = <<>> /\ submitted' = NoTrack /\ snap' = snap
      /\ UNCHANGED <<pc, orderVars, modeVars, current, volVars, sinkVars>>
  BY DEF Ignored
<1>2. TypeOK'
  <2>1. <<>> \in Seq(Events) /\ NoTrack \in TrackOrNone
    BY DEF TrackOrNone
  <2>2. QED
    BY <1>1, <2>1 DEF NowInv, IInv, TypeOK, orderVars, modeVars, volVars, sinkVars
<1>3. (PlayOrderInv /\ LoadTargetExists /\ SinkHasQueue)'
  BY <1>1 DEF NowInv, IInv, PlayOrderInv, OrderNonEmpty, OrderEmpty, LoadTargetExists,
              SinkHasQueue, orderVars, sinkVars
<1>4. (OpeningIsBlank /\ LoadingIsSilent /\ NowPlayingIsQueueEntry)'
  BY <1>1 DEF NowInv, OpeningIsBlank, LoadingIsSilent, NowPlayingIsQueueEntry, SinkHasQueue,
              LoadedHasSink, LoadedIsEntry, QueueEntry, orderVars, sinkVars
<1>5. (VolumeFollowsTrack /\ StatusMatchesSink /\ SnapshotLocatesTrack)'
  BY <1>1 DEF NowInv, VolumeFollowsTrack, StatusMatchesSink, SnapshotLocatesTrack, QueueEntry,
              orderVars, volVars, sinkVars
<1>6. EngineTells
  BY <1>1, SaysNothing DEF EngineTells, modeVars
<1>7. QED
  BY <1>1, <1>2, <1>3, <1>4, <1>5, <1>6 DEF NowInv, IInv

LEMMA ServeStep ==
    ASSUME BridgeInv, Serve
    PROVE  BridgeInv'
<1>1. CASE Ignored
  BY <1>1, IgnoredKeepsNow, SendKeepsBus DEF Serve, BridgeInv
<1>2. CASE Pause \/ Resume \/ \E p \in Positions, ok \in BOOLEAN : Seek(p, ok)
  <2>1. Command
    BY <1>2 DEF Command, Control
  <2>2. QED
    BY <2>1, EngineStep DEF Serve
<1>3. QED
  BY <1>1, <1>2 DEF Serve

\* The bridge shows what the event says, and of the track what it reads.
LEMMA BridgeStep ==
    ASSUME BridgeInv, Bridge
    PROVE  BridgeInv'
<1> DEFINE e == Head(pending)
<1>1. /\ pending \in Seq(Events) /\ pending # <<>> /\ pending' = Tail(pending)
      /\ bus' = [status  |-> IF e[1] = "StatusChanged" THEN e[2] ELSE bus.status,
                 track   |-> MetadataAfter(e),
                 repeat  |-> IF e[1] = "RepeatChanged" THEN e[2] ELSE bus.repeat,
                 shuffle |-> IF e[1] = "ShuffleChanged" THEN e[2] ELSE bus.shuffle]
      /\ UNCHANGED vars
  BY DEF Bridge, BridgeInv
<1>2. NowInv'
  BY <1>1, NextNow DEF BridgeInv
<1>3. snap' = snap /\ repeat' = repeat /\ shuffle' = shuffle
  BY <1>1 DEF vars, modeVars
<1>4. pending' \in Seq(Events)
  BY <1>1
<1>5. LastSays(pending', "StatusChanged", bus'.status, snap'.status)
  <2>1. bus'.status = IF e[1] = "StatusChanged" THEN e[2] ELSE bus.status
    BY <1>1
  <2>2. QED
    BY <1>1, <1>3, <2>1, SaysTail DEF BridgeInv, BusAgrees
<1>6. LastSays(pending', "RepeatChanged", bus'.repeat, repeat')
  <2>1. bus'.repeat = IF e[1] = "RepeatChanged" THEN e[2] ELSE bus.repeat
    BY <1>1
  <2>2. QED
    BY <1>1, <1>3, <2>1, SaysTail DEF BridgeInv, BusAgrees
<1>7. LastSays(pending', "ShuffleChanged", bus'.shuffle, shuffle')
  <2>1. bus'.shuffle = IF e[1] = "ShuffleChanged" THEN e[2] ELSE bus.shuffle
    BY <1>1, Zenon
  <2>2. LastSays(pending, "ShuffleChanged", bus.shuffle, shuffle)
    BY DEF BridgeInv, BusAgrees
  <2>3. LastSays(Tail(pending), "ShuffleChanged",
                 IF e[1] = "ShuffleChanged" THEN e[2] ELSE bus.shuffle, shuffle)
    BY <1>1, <2>2, SaysTail
  <2>4. QED
    BY <1>1, <1>3, <2>1, <2>3, Zenon
<1>8. TrackIsTold'
  <2>1. bus'.track = IF e = TrackChanged THEN snap.track ELSE bus.track
    BY <1>1 DEF MetadataAfter
  <2>2. CASE e = TrackChanged
    BY <1>3, <2>1, <2>2 DEF TrackIsTold
  <2>3. CASE e # TrackChanged
    <3>1. TrackChanged \in ToSet(pending) => TrackChanged \in ToSet(pending')
      <4> SUFFICES ASSUME TrackChanged \in ToSet(pending) PROVE TrackChanged \in ToSet(pending')
        OBVIOUS
      <4>1. PICK n \in DOMAIN pending : pending[n] = TrackChanged
        BY DEF ToSet
      <4>2. n \in 2..Len(pending)
        BY <1>1, <2>3, <4>1
      <4>3. n - 1 \in DOMAIN pending' /\ pending'[n - 1] = TrackChanged
        BY <1>1, <4>1, <4>2
      <4>4. QED
        BY <4>3 DEF ToSet
    <3>2. QED
      BY <1>3, <2>1, <2>3, <3>1 DEF TrackIsTold, BridgeInv, BusAgrees
  <2>4. QED
    BY <2>2, <2>3
<1>9. QED
  BY <1>2, <1>4, <1>5, <1>6, <1>7, <1>8 DEF BridgeInv, BusAgrees, TrackIsTold

\* At first the bus shows what the engine starts with.
LEMMA BridgeInitInv == BridgeInit => BridgeInv
<1> SUFFICES ASSUME BridgeInit PROVE BridgeInv
  OBVIOUS
<1>1. NowInv /\ pending = <<>> /\ pending \in Seq(Events)
  BY InitNow DEF BridgeInit
<1>2. /\ bus.status = "stopped" /\ bus.track = NoTrack /\ bus.repeat = "off"
      /\ snap.status = "stopped" /\ snap.track = NoTrack /\ repeat = "off"
  BY DEF BridgeInit, Init
<1>3. bus.shuffle = FALSE /\ shuffle = FALSE
  BY Zenon DEF BridgeInit, Init
<1>4. /\ LastSays(pending, "StatusChanged", bus.status, snap.status)
      /\ LastSays(pending, "RepeatChanged", bus.repeat, repeat)
  BY <1>1, <1>2, SaysNothing
<1>5. LastSays(pending, "ShuffleChanged", bus.shuffle, shuffle)
  BY <1>1, <1>3, SaysNothing, Zenon
<1>6. QED
  BY <1>1, <1>2, <1>4, <1>5 DEF BridgeInv, BusAgrees

LEMMA BridgeNextInv == BridgeInv /\ [BridgeNext]_allVars => BridgeInv'
<1> SUFFICES ASSUME BridgeInv, [BridgeNext]_allVars PROVE BridgeInv'
  OBVIOUS
<1>1. ASSUME UNCHANGED <<vars, pending, bus>> PROVE BridgeInv'
  <2>1. NowInv'
    BY <1>1, NextNow DEF BridgeInv
  <2>2. snap' = snap /\ repeat' = repeat /\ shuffle' = shuffle
    BY <1>1 DEF vars, modeVars
  <2>3. BusAgrees'
    BY <1>1, <2>2 DEF BridgeInv, BusAgrees, LastSays
  <2>4. QED
    BY <1>1, <2>1, <2>3 DEF BridgeInv
<1>2. CASE CallMethod \/ RunEngine
  BY <1>2, EngineStep DEF CallMethod, RunEngine
<1>3. CASE PlayPause \/ \E offset \in Offsets : SeekBy(offset)
  BY <1>1, <1>3 DEF PlayPause, SeekBy
<1>4. CASE Serve
  BY <1>4, ServeStep
<1>5. CASE Bridge
  BY <1>5, BridgeStep
<1>6. CASE UNCHANGED allVars
  BY <1>1, <1>6 DEF allVars
<1>7. QED
  BY <1>2, <1>3, <1>4, <1>5, <1>6 DEF BridgeNext, Method

-----------------------------------------------------------------------------
(* The results *)

\* The engine's invariant, and with it what is proved of the sink and of the
\* snapshot, holds with the methods that read the snapshot first and send a
\* command that may be stale when it is served (mpris.rs, play_pause and seek).
THEOREM BridgeInvariant == BridgeSpec => []BridgeInv
BY BridgeInitInv, BridgeNextInv, PTL DEF BridgeSpec

\* However late bridge_playback_events_to_mpris receives what the engine sent,
\* the bus ends with the status, the modes and the track the engine has.
THEOREM BusIsTold == BridgeSpec => []BusAgrees
<1>1. BridgeInv => BusAgrees
  BY DEF BridgeInv
<1>2. QED
  BY <1>1, BridgeInvariant, PTL
=============================================================================
