# A formal model of maraetai

maraetai is a music player in two processes: `maraetaid`, a daemon that owns the
queue and the audio device, and `maraetai`, a terminal client that browses a
Subsonic/Navidrome library and tells the daemon what to play. These modules model
the daemon - its playback engine, its idle timer, its life from start to exit, its
HTTP reader, what it tells the desktop's bus - the socket between the two, and of the
client its screens, the search for a daemon and what it does beside its event loop.
They are checked with TLC, and their central invariants proved with TLAPS. They
are translated from `src/daemon/src/` and `src/tui/src/`, read with the tests there;
`PROJECT.json` maps every definition to its lines.

## 1. The system

| component | state | operations | concurrency and failure |
|---|---|---|---|
| playback engine thread (`daemon/src/playback.rs`) | queue, current index, play order and cursor, modes, loaded track, sink, volume factor | 19 commands from a channel; a poll when no command comes for 250 ms | blocks for seconds while a stream is opened; the audio callback moves on its own; seeks and loads fail |
| play-order arithmetic (same file) | none: pure functions | shuffle, new queue, append, insert, remove, move | off-by-one at each edge |
| snapshot and events (same file) | `Mutex<Snapshot>`, an unbounded event channel | handlers lock it several times each; readers clone it | readers see it between two locks |
| scrobbling (same file) | none of its own | a detached thread per request | nothing waits for it |
| daemon main (`main.rs`) | the shutdown `Notify`, the socket path | start, select on shutdown/signals/socket task, stop the engine | exit removes the socket by path |
| lifecycle (`lifecycle.rs`) | the locked pidfile; `idle_for` | acquire the lock; tick the idle timer | two starts; activity read and cleared between commands |
| MPRIS bridge (`main.rs`, `mpris.rs`) | what the bus was last told | drains events, re-reads the snapshot | reads later than the event |
| D-Bus and socket control (`control.rs`, `socket_control.rs`) | one stream per client | forward a command, answer at once | answers before the engine acts |
| range reader (`range_reader.rs`) | position, length, open body, bytes to skip | read, seek | server ignores Range, short bodies, errors |
| visualizer (`visualizer.rs`) | ring of samples, peak | push, clear, compute | written by the audio thread |
| configuration (`common/src/config.rs`) | a file and a keyring entry | load, save | the two are written one after the other |
| TUI application (`tui/src/app.rs`) | tab, stack of screens, marks, prompt, update state, art and lyrics fetches | keys, polls, library requests | answers arrive after the user has moved on |
| TUI lifecycle and clients (`tui/src/lifecycle.rs`, `socket_client.rs`) | a session, a stream behind a mutex | find or spawn a daemon (5 s), call and wait | two clients spawn; a call is dropped half way |
| update check and install (`tui/src/update_check.rs`) | none: tasks that answer through a channel | one request; two `cargo install`, a line at a time | answers late, ends half way |
| library client, art, login | none | REST calls | one of several requests fails |

Clients send commands over D-Bus (Linux) or the Unix socket (macOS); the control
layer puts them in the engine's channel and answers without waiting. The engine
publishes its state in the snapshot, which the control layer and the idle timer
read, and its transitions as events, which the MPRIS bridge turns into signals.
The commands' only effect on the idle timer is the `activity` flag.

What makes each part correct: the engine plays the entry it says it plays, steps
through every entry once per lap, and never indexes out of its queue; its edits do
to the line of tracks what their docs promise; a listen counts once and is never
lost; the published status, index and track are true whenever the engine is idle.
A serving daemon is reachable and alone; a client's call keeps it for the whole
timeout, and nobody's keeps it for ever; bytes come from where the reader says it is.
The client shows the art and lyrics of the song that plays, and the state of the one
update task there is. A key goes to one place, a cursor and a mark are on a row, and a row of
a playlist is the song that a removal by its index takes away. An answer belongs to
its request and comes back, whatever the engine is doing; a stop that is reported does
happen; and what the bus shows catches up with the engine.
For the parts still to come: a client's index hits the queue entry it was read for, or
misses.

## 2. The modules

| module | models | correspondence |
|---|---|---|
| `PlayOrder` | the pure functions on play orders | one operator per Rust function; the random shuffle is the set of orders it can return; indices stay 0-based as elements |
| `PlayOrderCheck` | nothing further: applies `PlayOrder` to every order it can reach | compares its closed forms with the `filter`/`map`/`splice` chains of the source, and what they do to the line of entries with their docs |
| `PlaybackEngine` | the engine thread | one action per `Command` arm of `run_engine`, one per branch of `poll_progress`, `OpenOutput`, `LoadSucceeds`/`LoadFails` |
| `PlayLine` | what a listener is promised: a line of tracks, a place in it, the track that is heard | abstract specification, implemented by `PlaybackEngine`: `Line(queue, play_order)`, `order_pos`, and `current` while the sink has sound |
| `PlaybackLiveness` | `PlaybackEngine` with clients that fall silent, and fairness | |
| `IdleTimer` | `run_idle_timer` against clients and the music | `take_activity` and `is_playing` are separate steps, as is the notification; time is in ticks |
| `DaemonLifecycle` | daemon processes from start to exit, clients that find or spawn one, over the locked pidfile and the socket's path | one action per system call that others can see; a client is one run of `ensure_daemon_running` |
| `ByteStream` | what a reader promises: the bytes at a position | abstract specification |
| `RangeReader` | the HTTP range reader, which implements it | one action per response kind and per iteration of the loop of `read`; seeks |
| `SideTasks` | the client's event loop with its art and lyrics fetches and its update task | one action per round of a drain and per key that matters to an update; the fetches, the check and the install are actions of their own |
| `TuiScreens` | the client's screens: the stack, who gets a key, cursor, marks, filters, prompts, and the playlists they edit | one action per key, with everything that key awaits; a request may fail |
| `ControlSocket` | the socket from the client's `call` through the handlers and the command channel to the engine and `main` | one action per write, read or notification that another party can see; a client is one connection |
| `MprisBridge` | the two D-Bus interfaces around the engine and the task that turns events into signals | `PlaybackEngine` itself, composed with its event channel, the bus and one method that reads before it sends |
| `MC...` | constants for TLC | |
| `PlayOrder_proofs`, `PlaybackEngine_proofs` (with `MprisBridge`), `IdleTimer_proofs`, `DaemonLifecycle_proofs`, `RangeReader_proofs`, `SideTasks_proofs`, `ControlSocket_proofs`, `TuiScreens_proofs` | theorems | section 5 |

State of `PlaybackEngine` against the code: `queue`, `index`, `play_order`,
`order_pos`, `repeat`, `shuffle`, `current` are the fields of `EngineState`;
`volume` is both `state.volume` and `snapshot.volume`, written together by the one
command that sets them; `volume_factor` is the pair (volume, gain) whose product the
code stores; `sink` is `state.sink` with what its source is doing (`playing`,
`paused`, `ended`, or `none`); `pos` is `sink.get_pos()`; `snap` is the snapshot
without the fields that always equal the engine's (`repeat`, `shuffle`, `volume`);
`events` is what the last step put in the event channel; `submitted` the track the
last step scrobbled; `pc` says where the thread is.

Grain. A command handler is one step, with one exception: `start_playback_at` blocks
in HTTP and the decoder, so it is split into `StartPlaybackAt`, which ends with
`pc = "loading"`, and `LoadSucceeds` or `LoadFails`. Between the two no command is
served, but the audio of nothing plays and the snapshot still shows what it showed,
which is why the properties on the snapshot are about `pc = "idle"`. The several
short locks of the snapshot inside one handler are one step.

Abstractions. A track is a model value with a duration (0: none, or no song id) and
a gain; a position is a number of ticks; a spectrum frame is `flat` or `live`;
volumes are values of a set; the replay gain stays in decibels, so that "clamped to
unity" is `min(0, db)`. `Next` past the end and `PlayAt` out of range leave the
state alone in the code and are no step here. `SetRepeat`, `SetShuffle` exist on
Linux only; the model has them. The sink and the decoder are external: a source may
run out at any moment, a seek may fail, a load may fail, and a seek on a source that
has ended does not move it. In the code a removal from a playing queue drops the
sink without `stop()`; rodio stops a dropped sink, so both are `DropSink`.

State of the others. `IdleTimer`: `idle_for` and `activity` are the code's; `wake`
is what is left of the sleep; `playing` is `snapshot().status == Playing`; the
clock `since_call`, which the code does not have, measures the time since the last call. `DaemonLifecycle`: `lock` is the flock, `pidfile` whose pid the file
holds, `socket` whose listener the path leads to; `pc` and `tui` say where each
process is. A process that dies, in whatever way, gives the lock back and leaves its
files. The transport is macOS's socket; Linux takes a bus name instead. The sleep of
five seconds is taken to outlast any start or exit, so that a client gives up only
when every process is at rest. `RangeReader`: the code's `pos`, `len`,
`pending_skip`; `body` is the offset of its next byte and whether it is over;
`buffer` the size of the caller's buffer, 0 between calls. Bytes are known by their
offset, so that a wrong byte is a wrong number. The server may answer each request
with 206, with 200, or not at all; a body may be cut at any byte; a body whose read
failed has ended, which is how the blocking client's body behaves. `cut` is a history
variable: the open body was cut and no byte read since; an end reported early must
come with it. The largest
position, 2^64 - 1, is the constant `MaxOffset`, and the checked additions of
`offset` are checks against it.

`SideTasks`: `step` is where the loop is between one status and the next; `wanted` is
`current_art_url` and `current_lyrics_song_id`; `shown` the key of what a panel holds,
which the code does not keep but discards by; `fetching` the tasks under way;
`arrived` and `updates` the unbounded channels; `log` the lines of `Applying`;
`tasks` the check or the install with the package it is at; `installed` a history
variable. A line of cargo's output is known by its package. Screens are Settings or
another one; a key that prompts, filters or help take is `OtherKey`. What a status
tells, and which commit is the newer, is a choice. Both panels take note of a status
in one step: the code forgets old lyrics only after it has drained the art, which
neither sees of the other. Quitting the client, which abandons an install, is not
modelled.

`TuiScreens`: `stack`, `filter_editing`, `show_help` and `prompt` are the fields of
`App`; a screen is a record with the fields that any of them has (`rows` is `songs`,
`tracks`, `playlists`, ...; `ids` is `song_ids` of the picker); `contents`
stands for the playlists of the service and `failed` for the count in the message.
The loop awaits every request of a key before it reads the next one, which is why a
key is one step. A filter is the set of the names it matches, a text whether it is
empty. A song in a list may occur twice; marks are by song id, as in the code.
That this client alone edits the playlists is an assumption: another one would make
rows stale, and the code cannot know.

`ControlSocket`: `side` is where a client's `call` is, `request` and `inbox` the line
there and the line back, `handler` and `reply` the task of `handle_connection`,
`channel` the engine's `mpsc`, `daemon` where `main` is. The mutex around a client's
stream makes its calls one after the other, so that one line each way suffices. `sent`,
`answered` and `served` count and record commands and are read by properties and
by the bound on commands only; `quitters` is whose Quit has notified `main`, of which
the code keeps one permit. The engine's work on a command is open-ended.

`MprisBridge`: `pending` is the event channel and `bus` what a D-Bus client caches;
`inFlight` is the command of a `PlayPause` or relative `Seek` between the read of the
snapshot and its service. Any other method is served at once: its arguments are
arbitrary, so that its wait in the channel adds nothing.

## 3. The runs

| run | instance | checks |
|---|---|---|
| `order_arithmetic` | every order of up to 5 entries, batches up to 3 | `MatchesSource`, `EditsKeepLine` |
| `engine_order` | 2 interchangeable tracks, queue up to 3, batches up to 2 | `TypeOK`, `PlayOrderInv`, `NowPlayingIsQueueEntry`, `StatusMatchesSink`, `SnapshotLocatesTrack`, `EditsKeepUpcoming`, `RemoveKeepsUpcoming`, `ShuffleLeavesAllToCome`, `ChangesAreAnnounced`, `EditsArePublished`, `ImplementsPlayLine` |
| `engine_listen` | 2 tracks, a short attenuated and a long unattenuated one, 2 volumes, 3 positions, queue up to 2 | `VolumeFollowsTrack`, `NoListenLost` |
| `engine_liveness` | 1 track (entries are told apart by index), queue up to 3 | `PlaysToTheEnd`, `VisitsEveryEntry` |
| `idle_timer` | a timeout of 5 ticks, checks every 2 | `ClientGetsTimeout`, `AbandonedDaemonStops` |
| `daemon_lifecycle` | 4 processes, 2 clients, up to 2 stops or crashes; a stale pidfile and socket | `TypeOK`, `ServingIsReachable`, `EveryClientIsServed` |
| `side_tasks` | 2 songs, one without art; one fetch per key at a time, a log of 1 line, channel of 2, 2 tasks | `PanelsShowCurrentSong`, `LoadingIsUnderWay`, `StateIsThatOfTask`, `AppliedMeansBoth`, `ResultsLand` |
| `range_reader` | 4 bytes, positions to 6, buffers and chunks of 2, a server that refuses and breaks | `TypeOK`, `ImplementsByteStream`, `ReadsReturn` |
| `tui_screens` | 2 songs, 2 playlists, lists of up to 2 rows, Home with an empty section, a section longer than its preview of 2, and a short one | `TypeOK`, `OneTakesKeys`, `SelectionOnRows`, `RowsArePlaylist`, `RemovesWhatIsMarked` |
| `control_socket` | 2 connections, one of 2 commands and one of 1, reads, quits; a device or none | `AnsweredIsQueued`, `QuitIsNotReportedFailed`, `CallsReturn`, `QuitStops` |
| `mpris_bridge` | 2 interchangeable tracks, queue up to 2, a relative seek back, the engine waiting while more than 1 event does | `BusAgrees` |

`ImplementsPlayLine` is a refinement: each step of the engine is a step of the abstract
line of tracks, or a stutter of it, so that whatever is heard is what is at the place in
the line. `PlayLine` allows a command any of its actions; which of them each command is,
and from which place of the old line each track of the new one comes, is `ActsOnLine`.
That one is a theorem (`CommandsActOnLine`) and in no run: every command would be evaluated
again, for all its arguments, at every step. The types of `SideTasks` and `ControlSocket`
are theorems too, and in no run.

Bounds and why they do. `MaxQueue = 3` is the least queue in which an entry lies
strictly between two others, before and behind the cursor, which every case of the
index remapping needs; `PlayOrderCheck` takes the arithmetic alone to 5 entries,
where an edit can be away from every edge. `MaxBatch = 2` distinguishes a batch's
order. Two tracks suffice where the properties compare entries, since equal entries
in a queue are allowed and the model's queue holds duplicates; they are symmetric
only in the run whose constants do not tell them apart and that checks no liveness.
`MaxPos = 2` with `RestartThreshold = 1`, `ScrobbleCap = 2` and durations of 2 and
20 puts positions on both sides of every threshold: half of the short track is 1,
the cap of the long one 2, the restart threshold 1. `InputIndices` includes one
index past the longest queue. A timeout of 5 checked every 2 is no
multiple of the check interval. Two stops let a process crash while another is on its
way out; a fourth process starts after both. Positions up to 6 on 4 bytes reach
beyond the end, and a skip of 4 takes several chunks. With one fetch of a key at a time
an old answer still waits in the channel when its song is wanted again; an
install of two packages sends more lines than the log keeps; and a second task is one
more than there may be. Two rows suffice for the order of a bulk removal: taking row
0 first shifts row 1; a list of two with the same song twice has two rows for one mark.
In `control_socket` the first client's two commands can be swapped and the other's comes
between them; a Quit of either meets the other's call at every point. In
`mpris_bridge` two commands' events wait together at most, so that the track changes
again before the bridge looks.
Deadlock is checked, except in
`engine_liveness`, where a silent engine with nothing to play really does stop, in
`daemon_lifecycle` and `control_socket`, whose processes and clients all end, and in
`mpris_bridge`, whose engine exits.

One run is expected to be violated; it shows a disagreement between the code and its
own documentation.

| run | the docs say | the code does |
|---|---|---|
| `append_to_stopped` | appending when nothing is playing starts the first appended track (`playback.rs:257`) | after the queue has played out the exhausted sink is kept, and `sink.is_none()` is the test |

Further disagreements met while modelling, for which no run is kept. In the engine and
the daemon: the snapshot's queue, said to be cloned when the queue changes
(`playback.rs:135`), is not when the current entry is removed from a longer queue
(`:680`; the one exception that `EditsArePublished` makes); the play order, said to be the identity when shuffle is off (`:544`), is
remapped by a move (`:721`), so that the moved entry keeps its old turn; `has_next`
(`playback.rs:150`) goes by the queue index, from which shuffle parts the cursor that
`Next` goes by, so that index and length are not "enough" for `CanGoNext` (`:130`); a
`Previous` whose seek fails submits a listen (`:783`) and goes on with it, to submit it
again, where the comment has a separate, independently eligible play (`:777`); a paused engine
keeps its last spectrum (`playback.rs:791` against `:141`; `StatusMatchesSink` demands
a flat one of a stopped engine only); the idle timer learns of music only by asking,
so a queue that ends just before a check leaves less than the timeout
(`lifecycle.rs:79` against `:59`), and a track may start between its last question
and the notification (`lifecycle.rs:91` against `playback.rs:353`); a second start
empties the pidfile before it is refused the lock (`lifecycle.rs:39` against `:20`);
a client whose old daemon no longer answers but still holds the lock spawns one that
ends at it, and gives up (`tui/src/lifecycle.rs:86` against `:73`); a read behind
the end asks for a range that a server may refuse, instead of returning 0
(`range_reader.rs:128` against `:123`); and on Linux `Quit` notifies `main` before its
reply is out (`control.rs:173`), the order that `socket_control.rs:76` warns of.

In the client: `u` is said to be for the Settings tab (`app.rs:783`, `:1009`), but
`request_apply_update` (`:1013`) does not look at the screen, and two presses anywhere
start the install of an update that is known; after `J` or `K` "the moved track is now
at `new_real`" (`:1763`), though the command was only queued and the refreshed rows may
be of the queue before it; the star glyph flips on the first row of a song only
(`:1972`), and on every marked row even if its request failed (`:2003`); `refresh_queue`
clamps the cursor to the whole queue (`:1805`) where it is a position within the filtered
one (`:1285`), so that after `d` under a filter it can be on no row; on Home, with an
empty first section, the first Down goes to the second song (`:602`), the cursor
of a fresh screen being on no song; and a call that has failed once makes every later
one fail, since nothing connects again.

The two halves of `AppendQueue`, and of `PlayNext`, are why `EditsKeepUpcoming`
speaks of the handler's second half by name: it is about a loaded engine.

## 4. Fairness

`PlaybackLiveness` lets clients send commands as long as they like and then fall
silent. Weak fairness is on: the start of the thread; the end of a load (the
blocking HTTP client gives up after its default timeout of 30 s); the poll, but only
once the clients are silent; and the end of a source that is being played. The
condition on the poll is the code's: `recv_timeout` starts its 250 ms anew after
each command, so clients that never pause for that long keep the engine from
polling. No fairness is put on any command.

`PlaysToTheEnd`: with repeat off the engine comes to rest. `VisitsEveryEntry`: with
repeat = queue every entry of the queue is reached on every lap, shuffled or not,
unless a load fails, which stops the engine.

`IdleTimer`: time passes and a task that is awake is scheduled; sleeps may last
longer than asked. `AbandonedDaemonStops`: either something plays again and again,
or clients call again and again, or the timer fires. `DaemonLifecycle`: a process
that runs is scheduled; no stop, crash or start by hand is ever forced. A client that
spawns while a daemon is on its way out may fail, so `EveryClientIsServed` is about
behaviours in which none has stopped.
`SideTasks`: the loop turns, since a wait for a key ends after 250 ms, which takes for
granted that the daemon answers the client's status call. Nothing is assumed of
fetches and update tasks, whose requests have no timeout: `ResultsLand` is about tasks
that have ended.
`RangeReader`: a request, and a read of a body, ends, since the blocking client times
out; nobody is forced to call or to break a connection.
`ControlSocket`: tokio runs a handler that can go on; a client in a call reads the line,
or the end of the stream, that is there; `main`, once a Quit has notified it, goes on to
its end. Nothing is assumed of the engine, which may load for ever, and nobody is forced to call,
to quit or to leave. `CallsReturn` and `QuitStops` hold under that. `TuiScreens` and
`MprisBridge` are checked for safety only, and state no fairness.

## 5. The proofs

All theorems are about the specification of their module with arbitrary constants under the named assumptions
of its module. In `PlaybackEngine`: `NoTrack` is no track, durations are naturals, gains integers,
the full volume is a volume, thresholds and bounds are naturals (the scrobble cap at
least 1). Nothing else is assumed; the bounds are arbitrary.

- `PlayOrder_proofs`, the lemmas on sequences and orders that the engine's proofs use, and
  three theorems. Each edit maps play orders to play orders (`...IsPlayOrder`), and
  `Position` finds an index where it is (`PositionInOrder`): first-order facts about
  permutations; the random shuffle needs only that its result is one. `OrdersStayOrders`
  is that invariant for any sequence of edits. `EditsDoAsTheySay` is about the line of
  entries, `Line(queue, order)`: one lemma per edit (`LineAfter...`) says what becomes of
  it when queue and order are edited together. `ClosedFormsMatchSource` compares with the source's
  chains. The filter is a recursive function, and what it returns would be induction over
  the sequence; `FilterOutEntries` goes by the least length at which it would be wrong
  instead (`LeastNat`, from the library's `WFMin`).
- `PlaybackEngine_proofs`, in six parts.
  - *`IInv`* is `TypeOK`, `PlayOrderInv`, `LoadTargetExists` and `SinkHasQueue`.
    `PlayOrderInv` is not inductive alone: that a finished load's entry is still in the
    queue (`LoadTargetExists`) is what makes the second half of `start_playback_at` well
    typed, that a sink means a queue (`SinkHasQueue`) is what keeps "play next" from
    inserting past the end of an empty one, and the types of `queue` and `play_order`
    are what the lemmas on orders apply to. The step theorem has one case per action.
    `StartsLoad` shows that every caller of `start_playback_at` passes an index of the
    queue, hence that its early return (`playback.rs:1097`) is dead code. Results:
    `TypeCorrect`, `PlayOrderCorrect`.
  - *`NowInv`* relates sink, loaded track, queue entry, volume factor and snapshot, and
    says that a device is opened, and a stream loaded, in silence (`OpeningIsBlank`,
    `LoadingIsSilent`). That edits keep the current entry's track
    (`EditsKeepCurrentEntry`) is where the remapping of `index` and the edit of the queue
    have to agree. Results: `PlaysTheQueueEntry`, `VolumeIsRight`, `StatusIsRight`,
    `PositionIsRight`; and of the steps between such states, `NoListenIsLost` (every step
    that ends a loaded listen scrobbles the outgoing track at the sink's position) and
    `PublishedIsAnnounced` (what a step changes for readers of the snapshot it also
    announces).
  - *What is to come*: the line of tracks behind the cursor, as a function of queue,
    order and cursor, before and after each edit. Appended tracks come last and "play
    next" comes at once (`EditsComeWhereTheySay`), a removal takes one entry and
    leaves the others in their order (`RemovalTakesOneEntry`), and turning shuffle on, or
    replacing the queue while it is on, leaves every other entry to come
    (`ShufflePutsNothingBehind`). All three rest on `PlayOrderInv`: equal
    lines need an order that names each entry once.
  - *What is published*: every step that changes the queue also publishes it, except the
    removal of the current entry (`EditsShow`).
  - *The line*: `StepActsOnLine` takes the commands, polls and loads one after the other and
    shows, from the lemmas on lines, which action of `PlayLine` each is, with the
    rearrangement that witnesses it. `CommandsActOnLine` is that as a theorem. The refinement
    itself (`EnginePlaysLine`) adds the steps that leave the line alone and those that
    silence it; it needs `NowInv`: that what the sink plays is the entry at the cursor is what
    makes the end of a load a `Hear`.
  - *The bus*: `BridgeInv` is `NowInv` with the type of the channel and
    `BusAgrees`. The engine's steps are those already proved about, taken with the events
    they send; the stale commands of `PlayPause` and `Seek` are commands like any other,
    since the proofs of the engine use no knowledge of a command's argument. `BusAgrees` asks
    of the waiting events what the last of each kind says, so the lemmas that carry it are
    about what is last in a sequence when another is appended, or its head taken
    (`SaysConcat`, `SaysTail`). Results: `BridgeInvariant`, `BusIsTold`.
- `IdleTimer_proofs`: `TimerInv` counts: as long as no call waits to be noticed,
  `idle_for` plus one interval is at most the time since the last call plus what is
  left of the sleep. The `~activity` in it is what makes it inductive across calls.
  Assumed: the horizon of the clock lies a check interval beyond the timeout.
  Result: `ClientsKeepTheDaemon`.
- `DaemonLifecycle_proofs`: `HoldersHold`, that whoever is between `flock` and the
  drop of its guard holds the lock, makes `ServingIsReachable` inductive: binding and
  removing go by the path, and only a holder does either. Two lemmas carry the steps,
  one for a process that goes on and one for a process that ends. Result:
  `ServerIsReachable`, for any number of processes; `LifecycleTypeCorrect`.
- `RangeReader_proofs`: `ReaderInv` says that an open body with what is still to be
  skipped leads to the position, and that a body is over only at the end or after a
  cut. From it `StepRefines` maps every step of the reader to one of `ByteStream` or
  to a stutter. Results: `ReaderTypeCorrect`, `IsByteStream`.
- `SideTasks_proofs`: `SideInv` is `TypeOK` with both panel properties, which are
  inductive together with the types of the panels (`PanelStep`); the update state is
  apart (`UpdateStep`). That no song is `NoKey` keeps a missing key from being taken
  for an answer. `JobInv` is about the update: at most one task or result is under way
  (`OneJob`), it is the one the screen tells of (`JobIsTold`), what the screen tells of is
  under way (`ToldIsUnderWay`), and how much an install has installed (`InstallSoFar`).
  None of the four is inductive without the first. Results: `SideTypeCorrect`,
  `PanelsAreRight`, `LoadingEnds`, `OneUpdateTask`, `AppliedIsWhole`.
- `ControlSocket_proofs`: `SocketInv` says of every connection that there is one line
  on it at a time (`OneLine`), which is the client's last (`LastLine`) and its own
  (`OwnLines`), that whoever has a line with the handler waits for it or has left
  (`Awaited`), and that a Quit on its way to `main` has its answer in the client's
  inbox or was read (`QuitAnswered`). The last is `QuitIsNotReportedFailed` made
  inductive: a call fails on an empty inbox only. Results: `SocketTypeCorrect`,
  `QuitIsAnswered`. `QueueInv` says of each client's commands that the engine has
  taken them in their order (`TakenInOrder`), that those in the channel wait in theirs
  (`WaitsInOrder`), and that between them they are all that the handler has read
  (`WaitingUpTo`); the handler answers only what it has sent on, so that nothing answered
  is lost as long as the engine thread is there. Result: `AnswersAreKept`. All for any number of clients.
- `TuiScreens_proofs` begins with sets of indices in their order: `InOrder` lists such a
  set, `Rank` is a member's place in it, and the two are inverse. Here too the least counterexample
  stands in for induction. `RemovesNamed` is what a bulk removal does: the function that takes
  the marked rows one after the other, last first, unfolds to the playlist without them,
  in its order. `TuiInv` is then `StackInv`, `PlaylistsOK` and `ModeInv`. `StackInv` says of
  every screen on the stack that its rows, filter, cursor and marks fit each other
  (`Sound`), that it is where such a screen may be (`Placed`), and that it shows the
  playlists as they are (`Shows`). It takes all three: that a playlist's songs are only
  ever second on the stack keeps other screens from showing the one being edited, and that
  nothing is marked while a query is typed keeps marks from outliving their rows. `ModeInv`
  adds that a prompt, a filter or a query belongs to the screen on top. Assumed: the library is
  finite, and Home has a section. Each part was checked with TLC before it was proved.
  Results: `TuiInvariant`, `StackTypes`, `OneOverlay`, `CursorAndMarks`,
  `RowsArePlaylistSongs`, `RemovalIsMeant`.

Model-checked only: the liveness properties `PlaysToTheEnd`, `VisitsEveryEntry`,
`AbandonedDaemonStops`, `EveryClientIsServed`, `ResultsLand`, `ReadsReturn`,
`CallsReturn` and `QuitStops` (liveness under fairness is beyond the prover); and
`AppendToStoppedStarts`, which does not hold. Every
invariant and every action property of the passing runs, and both refinements, are theorems. Recursive operators
are kept out of the modules proofs use: `PlayOrder` writes removals and insertions as
closed forms, which `PlayOrderCheck` shows to be the source's, `TuiScreens` writes its
filters as the listing of a set of indices.

## 6. Not modelled

In the engine: picking and opening the output device beyond success or failure
(`playback.rs:465-530`); the conversions between `TrackMeta`, queue rows and status
tuples; the sample arithmetic of `VolumeControl` (only which factor it reads); the
FFT; the now-playing notification; logging. `IdleTimer` and `DaemonLifecycle` are
not composed with the engine: the timer sees its status only, and any stop of a
daemon is one step. `ControlSocket` and `TuiScreens` are not composed with it either:
what a command does is `PlaybackEngine`'s, what a client shows of the queue is any queue.

In the client: stars, the lyrics panel's toggle and scroll, the text of messages, what a key
sends to the daemon (tracks with their URLs and tags), and a client that is told to
quit in the middle of a key. Of the service: other clients that edit its playlists,
and an answer lost after the request was served. Of Linux's transport: the registration
of bus names, `Quit`, `CanGoNext`, a signal that cannot be emitted.

Credentials (a file and a keyring entry, written one after the other) have no module
yet. The spectrum visualizer is floating-point signal processing, the library client
beyond its effect on playlists REST and JSON, drawing, cover-art rendering, TOML, HTTP
headers, password hashing, the login prompt and the build script pure I/O or data shape;
they will stay out.

## 7. Plan

In the order of how much depends on it.

1. `SnapshotLocks`: the handlers split at each lock of the snapshot and at each
   event, with a reader in between; `PlaybackEngine` as the abstract specification
   it refines, and what readers may see meanwhile.
2. `ClientView`: `ControlSocket`'s channel in front of `PlaybackEngine`, and Queue
   screens that act on indices they read earlier.
3. `CredentialStore`: the save in two parts and what a load sees in between.
4. Proofs: the refinement of 1, and the safety of the modules of 2 and 3.
