----------------------------- MODULE MprisBridge -----------------------------
(***************************************************************************)
(* The daemon on Linux around its engine thread: the methods of the two    *)
(* D-Bus interfaces (daemon/src/control.rs, daemon/src/mpris.rs), the      *)
(* channel the engine sends its events on, and the task that turns events  *)
(* into signals on the bus (bridge_playback_events_to_mpris in             *)
(* daemon/src/main.rs).  The engine is PlaybackEngine itself.              *)
(*                                                                         *)
(* A method that sends what its caller asked for has its command served    *)
(* whenever the engine is idle: how long it waited in the command channel  *)
(* makes no difference, for its arguments are arbitrary.  PlayPause and    *)
(* the relative Seek read the snapshot and send what follows from it: that *)
(* command is in flight while the engine goes on.                          *)
(*                                                                         *)
(* A signal is taken to reach the bus: where emitting one fails, the code  *)
(* logs it and goes on.                                                    *)
(***************************************************************************)
EXTENDS PlaybackEngine

CONSTANTS
    Offsets,       \* the relative seeks of MPRIS, in ticks
    EventBound     \* bound: the engine runs on while at most so many events wait

ASSUME BridgeAssumption == EventBound \in Nat /\ Offsets \subseteq Int

VARIABLES
    inFlight,   \* the command of a PlayPause or Seek that is not served yet
    pending,    \* events sent and not received
    bus         \* what a D-Bus client that caches the properties shows

allVars == <<vars, inFlight, pending, bus>>

Nothing   == <<"Nothing">>
ToPause   == <<"Pause">>
ToResume  == <<"Resume">>
ToSeek(p) == <<"Seek", p>>

BridgeInit ==
    /\ Init
    /\ inFlight = Nothing /\ pending = <<>>
    /\ bus = [status |-> "stopped", track |-> NoTrack, repeat |-> "off", shuffle |-> FALSE]

-----------------------------------------------------------------------------
(* The engine and its event channel *)

\* What is sent in a step goes into the event channel in that order.
SendEvents == Len(pending) <= EventBound /\ pending' = pending \o events'

\* The methods of Daemon1 and of the Player that send what they are asked for.
CallMethod == Command /\ SendEvents /\ UNCHANGED <<inFlight, bus>>

RunEngine == (Engine \/ Audio) /\ SendEvents /\ UNCHANGED <<inFlight, bus>>

-----------------------------------------------------------------------------
(* The methods that read the snapshot first *)

\* play_pause: the opposite of the status it sees.
PlayPause ==
    /\ inFlight = Nothing /\ pc # "exited"
    /\ inFlight' = IF snap.status = "playing" THEN ToPause ELSE ToResume
    /\ UNCHANGED <<vars, pending, bus>>

SeekTarget(p) == IF p < 0 THEN 0 ELSE p

\* seek: the position it sees and the offset, at least 0.
SeekBy(offset) ==
    /\ inFlight = Nothing /\ pc # "exited"
    /\ snap.position + offset <= MaxPos
    /\ inFlight' = ToSeek(SeekTarget(snap.position + offset))
    /\ UNCHANGED <<vars, pending, bus>>

\* The command finds nothing to act on: its arm of the match does nothing.
Ignored ==
    /\ pc = "idle"
    /\ IF inFlight = ToResume
       THEN IF current # NoTrack THEN sink = "none" ELSE queue = <<>>
       ELSE sink = "none"
    /\ events' = <<>> /\ submitted' = NoTrack
    /\ UNCHANGED <<pc, orderVars, modeVars, current, volVars, sinkVars, snap>>

Serve ==
    /\ inFlight # Nothing
    /\ \/ inFlight = ToPause /\ Pause
       \/ inFlight = ToResume /\ Resume
       \/ \E p \in Positions, ok \in BOOLEAN : inFlight = ToSeek(p) /\ Seek(p, ok)
       \/ Ignored
    /\ SendEvents /\ inFlight' = Nothing
    /\ UNCHANGED bus

-----------------------------------------------------------------------------
(* bridge_playback_events_to_mpris *)

\* A bridge that takes the metadata once, when it starts.
MetadataAtStart(e) == bus.track

\* metadata() is read when the event is received, not when it was sent.
MetadataAfter(e) == IF e = TrackChanged THEN snap.track ELSE bus.track

Bridge ==
    /\ pending # <<>>
    /\ LET e == Head(pending) IN
          bus' = [status  |-> IF e[1] = "StatusChanged" THEN e[2] ELSE bus.status,
                  track   |-> MetadataAfter(e),
                  repeat  |-> IF e[1] = "RepeatChanged" THEN e[2] ELSE bus.repeat,
                  shuffle |-> IF e[1] = "ShuffleChanged" THEN e[2] ELSE bus.shuffle]
    /\ pending' = Tail(pending)
    /\ UNCHANGED <<vars, inFlight>>

-----------------------------------------------------------------------------
Method == CallMethod \/ PlayPause \/ \E offset \in Offsets : SeekBy(offset)

BridgeNext == Method \/ Serve \/ RunEngine \/ Bridge

BridgeSpec == BridgeInit /\ [][BridgeNext]_allVars

-----------------------------------------------------------------------------
(* Properties *)

\* Whoever shows a property and hears these events of it shows v after them.
LastSays(heard, name, shown, v) ==
    \/ shown = v /\ \A n \in DOMAIN heard : heard[n][1] # name
    \/ \E n \in DOMAIN heard :
          /\ heard[n] = <<name, v>>
          /\ \A m \in DOMAIN heard : m > n => heard[m][1] # name

\* The engine only writes a plain snapshot; the bus learns of it by events that
\* it receives later, and of the track by looking again.  Still, whatever is
\* received when, no client is left with an old status, mode or track: what
\* the bus shows, with what is still to be received, is what the engine has.
\* (A track that was only taken away stays on the bus, with status "stopped".)
BusAgrees ==
    /\ LastSays(pending, "StatusChanged", bus.status, snap.status)
    /\ LastSays(pending, "RepeatChanged", bus.repeat, repeat)
    /\ LastSays(pending, "ShuffleChanged", bus.shuffle, shuffle)
    /\ snap.track \in {NoTrack, bus.track} \/ TrackChanged \in ToSet(pending)
=============================================================================
