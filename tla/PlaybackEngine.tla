--------------------------- MODULE PlaybackEngine ---------------------------
(***************************************************************************)
(* The playback engine thread of maraetaid (daemon/src/playback.rs): the   *)
(* loop of run_engine, which serves one command at a time or, when none    *)
(* arrives for POLL_INTERVAL, polls its sink.                              *)
(*                                                                         *)
(* A handler is one step, except where it blocks: start_playback_at        *)
(* fetches and decodes the stream over HTTP before it publishes anything,  *)
(* and until it returns other threads read the half-updated snapshot.  So  *)
(* it is two steps: StartPlaybackAt (ends with pc = "loading") and         *)
(* LoadSucceeds or LoadFails.                                              *)
(*                                                                         *)
(* The rodio Sink and the decoder are external: the audio position moves   *)
(* on its own, a source may run out at any moment, a seek may fail, and a  *)
(* stream may fail to decode.                                              *)
(***************************************************************************)
EXTENDS PlayOrder, SequencesExt

CONSTANTS
    Tracks,            \* what a queue entry can be (TrackMeta)
    NoTrack,           \* Option::None where a track is expected
    TrackDuration,     \* [Tracks -> Nat]: ticks; 0 = no duration or no song id
    TrackGain,         \* [Tracks -> Int]: replay_gain_db
    Volumes,           \* the volumes clients set
    FullVolume,        \* the volume the engine starts with (1.0)
    RestartThreshold,  \* RESTART_THRESHOLD in ticks
    ScrobbleCap,       \* the 4-minute cap of scrobble_threshold in ticks
    MaxQueue,          \* bound: entries in the queue
    MaxBatch,          \* bound: tracks in one AppendQueue or PlayNext
    MaxPos             \* bound: ticks of audio position

ASSUME TracksAssumption == NoTrack \notin Tracks
ASSUME DurationAssumption == TrackDuration \in [Tracks -> Nat]
ASSUME GainAssumption == TrackGain \in [Tracks -> Int]
ASSUME VolumeAssumption == FullVolume \in Volumes
ASSUME ThresholdAssumption == RestartThreshold \in Nat /\ ScrobbleCap \in Nat \ {0}
ASSUME BoundAssumption == MaxQueue \in Nat /\ MaxBatch \in Nat /\ MaxPos \in Nat

VARIABLES
    pc,             \* where the thread is: opening, idle, loading, exited
    queue, index, play_order, order_pos, repeat, shuffle, current,
    volume,         \* stands for state.volume and snapshot.volume: written together
    volume_factor,  \* what VolumeControl multiplies by: a volume and a gain
    sink,           \* state.sink: none, or what its source is doing
    pos,            \* sink.get_pos(), 0 without a sink
    snap,           \* the shared Snapshot (its repeat, shuffle: as the engine's)
    events,         \* what the last step sent on the event channel
    submitted       \* the track the last step submitted as played, if any

orderVars == <<queue, index, play_order, order_pos>>
modeVars  == <<repeat, shuffle>>
volVars   == <<volume, volume_factor>>
sinkVars  == <<sink, pos>>
vars == <<pc, orderVars, modeVars, current, volVars, sinkVars, snap, events, submitted>>

Statuses    == {"stopped", "playing", "paused"}
RepeatModes == {"off", "track", "queue"}
Positions   == 0..MaxPos
Batches     == BoundedSeq(Tracks, MaxBatch) \ {<<>>}
InputIndices == 0..MaxQueue   \* the indices clients send, one past the end included

TrackOrNone == Tracks \cup {NoTrack}

StatusChanged(s)  == <<"StatusChanged", s>>
Seeked(p)         == <<"Seeked", p>>
RepeatChanged(r)  == <<"RepeatChanged", r>>
ShuffleChanged(b) == <<"ShuffleChanged", b>>
TrackChanged  == <<"TrackChanged">>
QueueEnded    == <<"QueueEnded">>
PlaybackError == <<"PlaybackError">>

-----------------------------------------------------------------------------
(* Helpers of the handlers *)

QueueEntry(i) == queue[i + 1]

CurrentPosition == IF sink = "none" THEN 0 ELSE pos

\* position >= scrobble_threshold(d): half the track, or the cap.
PastScrobbleThreshold(p, d) == 2 * p >= d \/ p >= ScrobbleCap

ScrobbleEligible(t, p) ==
    /\ t # NoTrack
    /\ TrackDuration[t] > 0
    /\ PastScrobbleThreshold(p, TrackDuration[t])

MaybeScrobbleOutgoing(p) ==
    submitted' = IF ScrobbleEligible(current, p) THEN current ELSE NoTrack

\* dB, attenuate-only: a positive gain is clamped to unity.
ReplayGainScale(db) == IF db > 0 THEN 0 ELSE db

\* The gain that SetVolume combines with; forgotten, every track is played flat.
NoGainOf(t) == 0
GainOf(t) == IF t = NoTrack THEN 0 ELSE TrackGain[t]

\* set_status, and with the announcement left out.
SetStatusSilently(s) == snap' = [snap EXCEPT !.status = s] /\ events' = <<>>

SetStatus(s) ==
    /\ snap' = [snap EXCEPT !.status = s]
    /\ events' = <<StatusChanged(s)>>

\* Sink::try_seek: it may refuse, and a source that has ended does not move.
TrySeek(p, ok) ==
    /\ pos' = IF ok /\ sink # "ended" THEN p ELSE pos
    /\ UNCHANGED sink

\* The queue is published and nothing else, and that forgotten.
PublishNothing == UNCHANGED snap
PublishQueue   == snap' = [snap EXCEPT !.queue = queue']

DropSink == sink' = "none" /\ pos' = 0

\* regenerate_play_order without its second line.
RegenerateKeepingCursor(on, anchor) ==
    /\ play_order' \in ShuffledOrders(Len(queue), on, anchor)
    /\ UNCHANGED order_pos

\* regenerate_play_order: the cursor is resynced to wherever `index` went.
RegeneratePlayOrder(on, anchor) ==
    /\ play_order' \in ShuffledOrders(Len(queue), on, anchor)
    /\ order_pos' = Position(play_order', index, 0)

\* start_playback_at without "Keeps play_order[order_pos] == index true".
BeginLoadAtFront(i, outgoing) ==
    /\ DropSink
    /\ index' = i /\ current' = outgoing /\ pc' = "loading"
    /\ order_pos' = 0

\* start_playback_at up to the blocking load of queue'[i]; `outgoing` is what
\* state.current holds until the load is over.  i is always an index of queue'
\* (lemma StartsLoad), so the code's early return is never taken.
BeginLoad(i, outgoing) ==
    /\ DropSink
    /\ IF i < Len(queue')
       THEN /\ index' = i
            /\ order_pos' = Position(play_order', i, i)
            /\ current' = outgoing
            /\ pc' = "loading"
       ELSE /\ current' = NoTrack
            /\ UNCHANGED <<index, order_pos, pc>>

\* What EngineState.current is there to prevent: the outgoing track is looked
\* up in the queue, which PlayQueue has already replaced.
StartScrobblingEntry(i) ==
    /\ submitted' = IF /\ index < Len(queue')
                       /\ ScrobbleEligible(queue'[index + 1], CurrentPosition)
                    THEN queue'[index + 1] ELSE NoTrack
    /\ BeginLoad(i, current)

StartPlaybackAt(i) ==
    /\ MaybeScrobbleOutgoing(CurrentPosition)
    /\ BeginLoad(i, current)

-----------------------------------------------------------------------------
(* The thread starts *)

Init ==
    /\ pc = "opening"
    /\ queue = <<>> /\ index = 0 /\ play_order = <<>> /\ order_pos = 0
    /\ repeat = "off" /\ shuffle = FALSE
    /\ current = NoTrack
    /\ volume = FullVolume /\ volume_factor = <<FullVolume, 0>>
    /\ sink = "none" /\ pos = 0
    /\ snap = [status |-> "stopped", position |-> 0, track |-> NoTrack,
               queue_index |-> 0, queue_len |-> 0, queue |-> <<>>,
               spectrum |-> "flat"]
    /\ events = <<>> /\ submitted = NoTrack

\* Without an audio device the thread reports it and ends.
OpenOutput ==
    /\ pc = "opening"
    /\ \/ pc' = "idle" /\ events' = <<>>
       \/ pc' = "exited" /\ events' = <<PlaybackError>>
    /\ submitted' = NoTrack
    /\ UNCHANGED <<orderVars, modeVars, current, volVars, sinkVars, snap>>

-----------------------------------------------------------------------------
(* The load: the second half of start_playback_at *)

LoadSucceeds ==
    LET track == QueueEntry(index) IN
    /\ pc = "loading"
    /\ pc' = "idle"
    /\ current' = track
    /\ volume_factor' = <<volume, ReplayGainScale(TrackGain[track])>>
    /\ sink' = "playing" /\ pos' = 0
    /\ snap' = [snap EXCEPT !.status = "playing", !.position = 0, !.track = track,
                            !.queue_index = index, !.queue_len = Len(queue)]
    /\ events' = <<TrackChanged, StatusChanged("playing")>>
    /\ submitted' = NoTrack
    /\ UNCHANGED <<orderVars, modeVars, volume>>

LoadFails ==
    /\ pc = "loading"
    /\ pc' = "idle"
    /\ current' = NoTrack
    /\ snap' = [snap EXCEPT !.status = "stopped", !.position = 0, !.track = NoTrack,
                            !.queue_index = index, !.queue_len = Len(queue),
                            !.spectrum = "flat"]
    /\ events' = <<PlaybackError, TrackChanged, StatusChanged("stopped")>>
    /\ submitted' = NoTrack
    /\ UNCHANGED <<orderVars, modeVars, volVars, sinkVars>>

-----------------------------------------------------------------------------
(* Commands that edit the queue *)

PlayQueueEmpty ==
    /\ pc = "idle"
    /\ queue' = <<>> /\ play_order' = <<>> /\ index' = 0 /\ order_pos' = 0
    /\ MaybeScrobbleOutgoing(CurrentPosition)
    /\ DropSink
    /\ current' = NoTrack
    /\ snap' = [snap EXCEPT !.status = "stopped", !.position = 0, !.track = NoTrack,
                            !.queue_index = 0, !.queue_len = 0, !.queue = <<>>,
                            !.spectrum = "flat"]
    /\ events' = <<TrackChanged, QueueEnded, StatusChanged("stopped")>>
    /\ UNCHANGED <<pc, modeVars, volVars>>

PlayQueue(tracks, start) ==
    LET n == Len(tracks)
        first == IF start < n THEN start ELSE n - 1
    IN
    /\ pc = "idle" /\ tracks # <<>>
    /\ queue' = tracks
    /\ play_order' \in NewQueueOrders(n, shuffle, first)
    /\ StartPlaybackAt(first)
    /\ PublishQueue
    /\ events' = <<>>
    /\ UNCHANGED <<modeVars, volVars>>

\* AppendQueue, and PlayNext when there is no sink: the same handler text.
AppendAndStart(tracks) ==
    /\ pc = "idle" /\ sink = "none"
    /\ Len(queue) + Len(tracks) <= MaxQueue
    /\ queue' = queue \o tracks
    /\ play_order' = AfterAppend(play_order, Len(tracks))
    /\ StartPlaybackAt(Len(queue))
    /\ PublishQueue
    /\ events' = <<>>
    /\ UNCHANGED <<modeVars, volVars>>

AppendBehind(tracks) ==
    /\ pc = "idle" /\ sink # "none"
    /\ Len(queue) + Len(tracks) <= MaxQueue
    /\ queue' = queue \o tracks
    /\ play_order' = AfterAppend(play_order, Len(tracks))
    /\ snap' = [snap EXCEPT !.queue = queue', !.queue_len = Len(queue')]
    /\ events' = <<>> /\ submitted' = NoTrack
    /\ UNCHANGED <<pc, index, order_pos, modeVars, current, volVars, sinkVars>>

AppendQueue(tracks) == AppendAndStart(tracks) \/ AppendBehind(tracks)

PlayNextBehind(tracks) ==
    /\ pc = "idle" /\ sink # "none"
    /\ Len(queue) + Len(tracks) <= MaxQueue
    /\ queue' = SubSeq(queue, 1, index + 1) \o tracks
                  \o SubSeq(queue, index + 2, Len(queue))
    /\ play_order' = PlayNextInsertion(play_order, order_pos, index, Len(tracks))
    /\ snap' = [snap EXCEPT !.queue = queue', !.queue_len = Len(queue')]
    /\ events' = <<>> /\ submitted' = NoTrack
    /\ UNCHANGED <<pc, index, order_pos, modeVars, current, volVars, sinkVars>>

PlayNext(tracks) == AppendAndStart(tracks) \/ PlayNextBehind(tracks)

\* The removed entry is the current one: its sink goes, and either the queue
\* is now empty or the entry that took the slot (the last one, past the end)
\* is started.
RemoveLastEntry(i) ==
    /\ pc = "idle" /\ i = index /\ Len(queue) = 1
    /\ queue' = <<>> /\ play_order' = <<>> /\ index' = 0 /\ order_pos' = 0
    /\ MaybeScrobbleOutgoing(CurrentPosition)
    /\ DropSink
    /\ current' = NoTrack
    /\ snap' = [snap EXCEPT !.status = "stopped", !.track = NoTrack,
                            !.queue_index = 0, !.queue_len = 0, !.queue = <<>>,
                            !.spectrum = "flat"]
    /\ events' = <<StatusChanged("stopped"), QueueEnded>>
    /\ UNCHANGED <<pc, modeVars, volVars>>

RemoveCurrent(i) ==
    /\ pc = "idle" /\ i < Len(queue) /\ i = index /\ Len(queue) > 1
    /\ queue' = RemoveAt(queue, i + 1)
    /\ play_order' = AfterRemove(play_order, i)
    /\ MaybeScrobbleOutgoing(CurrentPosition)
    /\ BeginLoad(IF i < Len(queue) - 1 THEN i ELSE Len(queue) - 2, NoTrack)
    /\ events' = <<>>
    /\ UNCHANGED <<modeVars, volVars, snap>>

\* Where `index` goes when entry i leaves: down by one if i was before it.
\* A slip: it moves whatever was removed.
IndexAlwaysShifts(i) == index - 1
IndexAfterRemove(i)  == IF i < index THEN index - 1 ELSE index

RemoveOther(i) ==
    /\ pc = "idle" /\ i < Len(queue) /\ i # index
    /\ queue' = RemoveAt(queue, i + 1)
    /\ play_order' = AfterRemove(play_order, i)
    /\ index' = IndexAfterRemove(i)
    /\ order_pos' = Position(play_order', index', 0)
    /\ snap' = [snap EXCEPT !.queue = queue', !.queue_len = Len(queue'),
                            !.queue_index = index']
    /\ events' = <<>> /\ submitted' = NoTrack
    /\ UNCHANGED <<pc, modeVars, current, volVars, sinkVars>>

RemoveFromQueue(i) == RemoveLastEntry(i) \/ RemoveCurrent(i) \/ RemoveOther(i)

MoveInQueue(from, to) ==
    /\ pc = "idle"
    /\ from < Len(queue) /\ to < Len(queue) /\ from # to
    /\ queue' = InsertAt(RemoveAt(queue, from + 1), to + 1, QueueEntry(from))
    /\ play_order' = AfterMove(play_order, from, to)
    /\ index' = RemapIndexAfterMove(index, from, to)
    /\ order_pos' = Position(play_order', index', 0)
    /\ snap' = [snap EXCEPT !.queue = queue', !.queue_index = index']
    /\ events' = <<>> /\ submitted' = NoTrack
    /\ UNCHANGED <<pc, modeVars, current, volVars, sinkVars>>

\* Unlike an empty PlayQueue it sends no TrackChanged and leaves snap.position.
ClearQueue ==
    /\ pc = "idle"
    /\ queue' = <<>> /\ play_order' = <<>> /\ index' = 0 /\ order_pos' = 0
    /\ MaybeScrobbleOutgoing(CurrentPosition)
    /\ DropSink
    /\ current' = NoTrack
    /\ snap' = [snap EXCEPT !.status = "stopped", !.track = NoTrack,
                            !.queue_index = 0, !.queue_len = 0, !.queue = <<>>,
                            !.spectrum = "flat"]
    /\ events' = <<StatusChanged("stopped"), QueueEnded>>
    /\ UNCHANGED <<pc, modeVars, volVars>>

-----------------------------------------------------------------------------
(* Commands that move through the queue *)

PlayAt(i) ==
    /\ pc = "idle" /\ i < Len(queue)
    /\ UNCHANGED <<queue, play_order>>
    /\ StartPlaybackAt(i)
    /\ events' = <<>>
    /\ UNCHANGED <<modeVars, volVars, snap>>

\* The bound of Next and of the poll; one short, the last entry is never next.
HasSuccessorButLast == order_pos + 2 < Len(play_order)
HasSuccessor == order_pos + 1 < Len(play_order)

\* The next entry of the order; past its end, with repeat = queue, the first
\* one of the same order or of a fresh shuffle.  Next and the poll share it.
Advance ==
    /\ UNCHANGED queue
    /\ \/ /\ HasSuccessor
          /\ UNCHANGED play_order
          /\ StartPlaybackAt(play_order[order_pos + 2])
       \/ /\ ~HasSuccessor /\ repeat = "queue" /\ play_order # <<>>
          /\ play_order' \in IF shuffle
                             THEN ShuffledOrders(Len(queue), shuffle, NoAnchor)
                             ELSE {play_order}
          /\ StartPlaybackAt(play_order'[1])
    /\ events' = <<>>
    /\ UNCHANGED <<modeVars, volVars, snap>>

NextTrack == pc = "idle" /\ Advance

RestartsCurrent == CurrentPosition > RestartThreshold \/ order_pos = 0

\* The result of try_seek is ignored; the snapshot shows 0 either way.
PreviousRestart(ok) ==
    /\ pc = "idle" /\ RestartsCurrent
    /\ MaybeScrobbleOutgoing(CurrentPosition)
    /\ IF sink # "none"
       THEN TrySeek(0, ok) /\ snap' = [snap EXCEPT !.position = 0]
       ELSE UNCHANGED <<sinkVars, snap>>
    /\ events' = <<>>
    /\ UNCHANGED <<pc, orderVars, modeVars, current, volVars>>

PreviousTrack ==
    /\ pc = "idle" /\ ~RestartsCurrent
    /\ UNCHANGED <<queue, play_order>>
    /\ StartPlaybackAt(play_order[order_pos])
    /\ events' = <<>>
    /\ UNCHANGED <<modeVars, volVars, snap>>

-----------------------------------------------------------------------------
(* Commands on the sink and the modes *)

Pause ==
    /\ pc = "idle" /\ sink # "none"
    /\ sink' = IF sink = "playing" THEN "paused" ELSE sink
    /\ SetStatus("paused") /\ submitted' = NoTrack
    /\ UNCHANGED <<pc, orderVars, modeVars, current, volVars, pos>>

\* Resume, and resuming whatever sink there is, an exhausted one included.
ResumeAnySink ==
    /\ pc = "idle" /\ sink # "none"
    /\ sink' = IF sink = "paused" THEN "playing" ELSE sink
    /\ SetStatus("playing") /\ submitted' = NoTrack
    /\ UNCHANGED <<pc, orderVars, modeVars, current, volVars, pos>>

ResumeSink ==
    /\ pc = "idle" /\ current # NoTrack /\ sink # "none"
    /\ sink' = IF sink = "paused" THEN "playing" ELSE sink
    /\ SetStatus("playing") /\ submitted' = NoTrack
    /\ UNCHANGED <<pc, orderVars, modeVars, current, volVars, pos>>

ResumeReload ==
    /\ pc = "idle" /\ current = NoTrack /\ queue # <<>>
    /\ UNCHANGED <<queue, play_order>>
    /\ StartPlaybackAt(IF index < Len(queue) THEN index ELSE Len(queue) - 1)
    /\ events' = <<>>
    /\ UNCHANGED <<modeVars, volVars, snap>>

Resume == ResumeSink \/ ResumeReload

StopPlayback ==
    /\ pc = "idle"
    /\ MaybeScrobbleOutgoing(CurrentPosition)
    /\ DropSink
    /\ current' = NoTrack
    /\ snap' = [snap EXCEPT !.status = "stopped", !.spectrum = "flat"]
    /\ events' = <<StatusChanged("stopped")>>
    /\ UNCHANGED <<pc, orderVars, modeVars, volVars>>

Seek(p, ok) ==
    /\ pc = "idle" /\ sink # "none"
    /\ TrySeek(p, ok)
    /\ IF ok
       THEN snap' = [snap EXCEPT !.position = p] /\ events' = <<Seeked(p)>>
       ELSE UNCHANGED snap /\ events' = <<>>
    /\ submitted' = NoTrack
    /\ UNCHANGED <<pc, orderVars, modeVars, current, volVars>>

SetVolume(v) ==
    /\ pc = "idle"
    /\ volume' = v
    /\ volume_factor' = <<v, ReplayGainScale(GainOf(current))>>
    /\ events' = <<>> /\ submitted' = NoTrack
    /\ UNCHANGED <<pc, orderVars, modeVars, current, sinkVars, snap>>

\* SetRepeat, and CycleRepeat, which sets the one after the present mode.
SetRepeat(r) ==
    /\ pc = "idle"
    /\ repeat' = r
    /\ events' = <<RepeatChanged(r)>> /\ submitted' = NoTrack
    /\ UNCHANGED <<pc, orderVars, shuffle, current, volVars, sinkVars, snap>>

CycleRepeat ==
    SetRepeat(CASE repeat = "off" -> "track"
                [] repeat = "track" -> "queue"
                [] repeat = "queue" -> "off")

\* SetShuffle, and ToggleShuffle, which sets the other value.  The order is
\* rebuilt only when the mode changes, around the current index.
SetShuffle(on) ==
    /\ pc = "idle"
    /\ shuffle' = on
    /\ IF on # shuffle THEN RegeneratePlayOrder(on, index)
                       ELSE UNCHANGED <<play_order, order_pos>>
    /\ events' = <<ShuffleChanged(on)>> /\ submitted' = NoTrack
    /\ UNCHANGED <<pc, queue, index, repeat, current, volVars, sinkVars, snap>>

ToggleShuffle == SetShuffle(~shuffle)

\* The sink is stopped; nothing is scrobbled, nothing published.
Shutdown ==
    /\ pc = "idle"
    /\ pc' = "exited"
    /\ DropSink
    /\ events' = <<>> /\ submitted' = NoTrack
    /\ UNCHANGED <<orderVars, modeVars, current, volVars, snap>>

-----------------------------------------------------------------------------
(* The poll, and the sink on its own *)

TrackEnded == sink = "ended" /\ snap.status = "playing"

PollRepeatsTrack ==
    /\ pc = "idle" /\ TrackEnded /\ repeat = "track"
    /\ UNCHANGED <<queue, play_order>>
    /\ StartPlaybackAt(index)
    /\ events' = <<>>
    /\ UNCHANGED <<modeVars, volVars, snap>>

PollAdvances == pc = "idle" /\ TrackEnded /\ repeat # "track" /\ Advance

\* The end of the queue: the exhausted sink stays where it is.
PollExhausted ==
    /\ pc = "idle" /\ TrackEnded
    /\ repeat # "track" /\ ~HasSuccessor
    /\ repeat = "queue" => play_order = <<>>
    /\ MaybeScrobbleOutgoing(CurrentPosition)
    /\ current' = NoTrack
    /\ snap' = [snap EXCEPT !.status = "stopped", !.spectrum = "flat"]
    /\ events' = <<QueueEnded, StatusChanged("stopped")>>
    /\ UNCHANGED <<pc, orderVars, modeVars, volVars, sinkVars>>

PollProgress ==
    /\ pc = "idle" /\ sink # "none" /\ ~TrackEnded
    /\ \E bars \in IF snap.status = "playing" THEN {"flat", "live"} ELSE {snap.spectrum} :
          snap' = [snap EXCEPT !.position = pos, !.spectrum = bars]
    /\ events' = <<>> /\ submitted' = NoTrack
    /\ UNCHANGED <<pc, orderVars, modeVars, current, volVars, sinkVars>>

Poll == PollRepeatsTrack \/ PollAdvances \/ PollExhausted \/ PollProgress

\* The audio callback pulls samples: the position moves ...
SinkPlays ==
    /\ sink = "playing" /\ pos < MaxPos
    /\ pos' = pos + 1
    /\ events' = <<>> /\ submitted' = NoTrack
    /\ UNCHANGED <<pc, orderVars, modeVars, current, volVars, sink, snap>>

\* ... until the source has no more of them, or its stream breaks.
SinkEnds ==
    /\ sink = "playing"
    /\ sink' = "ended"
    /\ events' = <<>> /\ submitted' = NoTrack
    /\ UNCHANGED <<pc, orderVars, modeVars, current, volVars, pos, snap>>

-----------------------------------------------------------------------------
EditQueue ==
    \/ PlayQueueEmpty
    \/ \E tracks \in BoundedSeq(Tracks, MaxQueue), start \in InputIndices :
          PlayQueue(tracks, start)
    \/ \E tracks \in Batches : AppendQueue(tracks) \/ PlayNext(tracks)
    \/ \E i \in InputIndices : RemoveFromQueue(i)
    \/ \E from, to \in InputIndices : MoveInQueue(from, to)
    \/ ClearQueue

Navigate ==
    \/ \E i \in InputIndices : PlayAt(i)
    \/ NextTrack
    \/ \E ok \in BOOLEAN : PreviousRestart(ok)
    \/ PreviousTrack

Control ==
    \/ Pause
    \/ Resume
    \/ StopPlayback
    \/ \E p \in Positions, ok \in BOOLEAN : Seek(p, ok)
    \/ \E v \in Volumes : SetVolume(v)
    \/ \E r \in RepeatModes : SetRepeat(r)
    \/ CycleRepeat
    \/ \E on \in BOOLEAN : SetShuffle(on)
    \/ ToggleShuffle
    \/ Shutdown

Command == EditQueue \/ Navigate \/ Control

Engine == OpenOutput \/ LoadSucceeds \/ LoadFails \/ Poll

Audio == SinkPlays \/ SinkEnds

\* The thread has returned: commands sent to it are logged and dropped.
Exited == pc = "exited" /\ UNCHANGED vars

Next == Command \/ Engine \/ Audio \/ Exited

Spec == Init /\ [][Next]_vars

-----------------------------------------------------------------------------
(* Properties *)

Events ==
    {TrackChanged, QueueEnded, PlaybackError}
      \cup {StatusChanged(s) : s \in Statuses}
      \cup {Seeked(p) : p \in Positions}
      \cup {RepeatChanged(r) : r \in RepeatModes}
      \cup {ShuffleChanged(b) : b \in BOOLEAN}

Snapshots ==
    [status : Statuses, position : Positions, track : TrackOrNone,
     queue_index : Nat, queue_len : Nat, queue : Seq(Tracks),
     spectrum : {"flat", "live"}]

\* The type of every variable.  A length in the snapshot is a Nat: it may
\* belong to a queue that has since been replaced.
TypeOK ==
    /\ pc \in {"opening", "idle", "loading", "exited"}
    /\ queue \in Seq(Tracks)
    /\ index \in Nat
    /\ play_order \in Seq(Nat)
    /\ order_pos \in Nat
    /\ repeat \in RepeatModes
    /\ shuffle \in BOOLEAN
    /\ current \in TrackOrNone
    /\ volume \in Volumes
    /\ volume_factor \in Volumes \X Int
    /\ sink \in {"none", "playing", "paused", "ended"}
    /\ pos \in Positions
    /\ snap \in Snapshots
    /\ events \in Seq(Events)
    /\ submitted \in TrackOrNone

\* The doc of EngineState.play_order: a permutation of the queue's indices,
\* and play_order[order_pos] = index, however the engine got there.  The
\* handlers index play_order and queue without a check on its strength: were
\* it to fail, a splice, an insert or an index expression would panic and
\* take the engine thread with it.
OrderNonEmpty ==
    queue # <<>> => /\ order_pos \in QueueIndices(Len(queue))
                    /\ play_order[order_pos + 1] = index
OrderEmpty == queue = <<>> => index = 0 /\ order_pos = 0
PlayOrderInv ==
    /\ IsPlayOrder(play_order, Len(queue))
    /\ OrderNonEmpty
    /\ OrderEmpty

\* What is being loaded is still in the queue when the load is over.  The
\* proofs rest on it.
LoadTargetExists == pc = "loading" => index \in QueueIndices(Len(queue))

\* The engine, whenever it is between two commands, is playing the entry that
\* `index` names: no edit of the queue makes it play, scrobble or take the
\* gain of one track while it counts itself at another.
SinkHasQueue  == sink # "none" => queue # <<>>
LoadedHasSink == pc = "idle" /\ current # NoTrack => sink # "none"
LoadedIsEntry == sink # "none" /\ current # NoTrack => current = QueueEntry(index)
NowPlayingIsQueueEntry == SinkHasQueue /\ LoadedHasSink /\ LoadedIsEntry

\* What VolumeControl applies to the samples is the user's volume and the
\* gain of the track they belong to, across loads, failures and stops.
VolumeFollowsTrack ==
    sink # "none" /\ current # NoTrack =>
        volume_factor = <<volume, ReplayGainScale(TrackGain[current])>>

\* Between two commands a reader of the snapshot is told the truth about the
\* audio: "playing" only with a sink that plays or has just run out, "paused"
\* never while samples are being played, "stopped" never with audible audio,
\* nor with a spectrum left standing.
StatusMatchesSink ==
    pc = "idle" =>
        /\ snap.status = "playing" => sink \in {"playing", "ended"} /\ current # NoTrack
        /\ snap.status = "paused"  => sink \in {"paused", "ended"}
        /\ snap.status = "stopped" => sink \in {"none", "ended"} /\ snap.spectrum = "flat"

\* Between two commands "track 3 of 12" is right, and the track shown is the
\* one at that index.
SnapshotLocatesTrack ==
    pc = "idle" =>
        /\ snap.queue_index = index
        /\ snap.queue_len = Len(queue)
        /\ snap.track # NoTrack => queue # <<>> /\ snap.track = QueueEntry(index)

-----------------------------------------------------------------------------
(* What a step may never do *)

\* The tracks still to come, in the order they will be played.
Upcoming == [k \in 1..(Len(play_order) - order_pos - 1) |->
                QueueEntry(play_order[order_pos + 1 + k])]

\* The docs of AppendQueue and PlayNext: with something loaded, appended
\* tracks come after all that is still to come and "play next" tracks before
\* it, whatever the shuffle; nothing to come is lost, repeated or reordered.
EditsKeepUpcoming ==
    [][Len(queue') > Len(queue) => \A tracks \in Batches :
          /\ AppendBehind(tracks) => Upcoming' = Upcoming \o tracks
          /\ PlayNextBehind(tracks) => Upcoming' = tracks \o Upcoming]_vars

\* Removing another entry takes at most that one out of what is to come.
RemoveKeepsUpcoming ==
    [][Len(queue') < Len(queue) => \A i \in InputIndices : RemoveOther(i) =>
          \/ Upcoming' = Upcoming
          \/ \E k \in DOMAIN Upcoming : /\ play_order[order_pos + 1 + k] = i
                                        /\ Upcoming' = RemoveAt(Upcoming, k)]_vars

\* Turning shuffle on, or replacing the queue while it is on, leaves every
\* other track of the queue still to come ("entries shuffled before it would
\* never be visited", new_queue_play_order).
ShuffleLeavesAllToCome ==
    [][(shuffle' /\ queue' # <<>>)
         /\ \/ ~shuffle
            \/ pc' = "loading" /\ \E start \in InputIndices : PlayQueue(queue', start)
       => Len(Upcoming') = Len(queue') - 1]_vars

\* What a listener is promised of the engine, without its queue, its order and
\* its cursor.  A sink that is paused is heard: it goes on where it was.
Heard == IF sink \in {"playing", "paused"} THEN current ELSE NoTrack

Queues == BoundedSeq(Tracks, MaxQueue) \ {<<>>}

PlayedLine == INSTANCE PlayLine
    WITH line <- Line(queue, play_order), at <- order_pos, heard <- Heard,
         Additions <- Batches, Replacements <- Queues

\* Where each place of an order comes from: the queue, or the order before.
FromQueue == [k \in DOMAIN play_order' |-> play_order'[k] + 1]
FromOrder == [k \in DOMAIN play_order' |-> Position(play_order, play_order'[k], 0) + 1]

\* Each command, poll and load does to the line what is promised of it: which
\* of the line's actions it is, and from which place each track comes.  (A
\* theorem of the proofs; evaluating it at every step is too slow for a run.)
ActsOnLine ==
    /\ \A tracks \in Batches :
          /\ AppendBehind(tracks)   => PlayedLine!AddLast(tracks)
          /\ AppendAndStart(tracks) => PlayedLine!AddAndGo(tracks)
          /\ PlayNextBehind(tracks) => PlayedLine!AddNext(tracks)
    /\ \A tracks \in BoundedSeq(Tracks, MaxQueue), start \in InputIndices :
          PlayQueue(tracks, start) =>
          PlayedLine!Replace(tracks, FromQueue,
                             IF start < Len(tracks) THEN start + 1 ELSE Len(tracks))
    /\ \A i \in InputIndices :
          /\ RemoveOther(i)   => PlayedLine!TakeOut(Position(play_order, i, 0) + 1)
          /\ RemoveCurrent(i) => PlayedLine!TakeOutHere
          /\ PlayAt(i)        => PlayedLine!GoTo(Position(play_order, i, 0))
          /\ \A to \in InputIndices : MoveInQueue(i, to) => UNCHANGED PlayedLine!vars
    /\ Advance       => PlayedLine!Forward \/ PlayedLine!Wrap(FromOrder)
    /\ PreviousTrack => PlayedLine!GoTo(order_pos - 1)
    /\ ResumeReload \/ PollRepeatsTrack => PlayedLine!GoTo(order_pos)
    /\ \A on \in BOOLEAN : SetShuffle(on) =>
          IF queue = <<>> THEN UNCHANGED PlayedLine!vars ELSE PlayedLine!Reorder(FromOrder)
    /\ LoadSucceeds  => PlayedLine!Hear

\* The engine plays a line: in whatever mix of edits, jumps, shuffles, wraps,
\* loads and ends of tracks, what is heard is what is at the place in the line;
\* and while it is heard, an edit of the queue, shuffled or not, is an edit of
\* the line around it.
ImplementsPlayLine == PlayedLine!Spec

\* A listen that is past the threshold is submitted by whichever step ends it:
\* a load over it, a stop, a clear, a removal, the end of the queue.  Only the
\* shutdown forgets it.
ListenEnds == sink # "none" /\ current # NoTrack
                /\ (sink' = "none" \/ current' = NoTrack)
NoListenLost ==
    [][ListenEnds /\ ScrobbleEligible(current, pos) /\ pc' # "exited"
         => submitted' = current]_vars

\* Nothing that changes the published status, or publishes another track,
\* goes unannounced: the MPRIS bridge re-reads only when an event tells it to.
ChangesAreAnnounced ==
    [][/\ snap'.status # snap.status => StatusChanged(snap'.status) \in ToSet(events')
       /\ snap'.track \notin {snap.track, NoTrack} => TrackChanged \in ToSet(events')]_vars

\* Whoever holds the engine's queue still holds it after any step, except after
\* the removal of the entry that is playing: that one publishes the index and
\* the length of a queue it has not published, and the clients go on acting on
\* the indices of the old one.
EditsArePublished ==
    [][snap.queue = queue =>
          snap'.queue = queue' \/ \E i \in InputIndices : RemoveCurrent(i)]_vars

\* The docs of AppendQueue and PlayNext: "If nothing is currently playing,
\* playback starts at the first appended track".
AppendToStoppedStarts ==
    [][\A tracks \in Batches : AppendQueue(tracks) /\ snap.status = "stopped"
          => pc' = "loading" /\ index' = Len(queue)]_vars
=============================================================================
