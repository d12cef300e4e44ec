----------------------------- MODULE IdleTimer -----------------------------
(***************************************************************************)
(* The idle timer of one daemon (run_idle_timer in daemon/src/lifecycle.rs)*)
(* against the clients that call it and the engine that plays.             *)
(*                                                                         *)
(* The timer asks two questions, one after the other: has a client called  *)
(* since the last check (take_activity, which also forgets it), and, if    *)
(* not, is a track playing (is_playing, which locks the snapshot).  Other  *)
(* threads run between the two, and before the notification is sent.       *)
(*                                                                         *)
(* Time is counted in ticks.  A sleep may last longer than asked, so       *)
(* nothing forces the timer to wake as soon as it may.                     *)
(***************************************************************************)
EXTENDS Integers

CONSTANTS
    Timeout,   \* Config::idle_timeout
    CheckCap,  \* the 30 seconds that check_interval is at most
    Horizon    \* bound: the longest time the clock below tells apart

CheckInterval == IF Timeout < CheckCap THEN Timeout ELSE CheckCap

ASSUME TimesAssumption ==
    /\ Timeout \in Nat /\ CheckCap \in Nat /\ Horizon \in Nat
    /\ Horizon >= Timeout + CheckCap

VARIABLES
    timer,       \* sleeping, asking (between the two questions), firing, fired
    wake,        \* ticks the sleep has still to last
    idle_for,
    activity,    \* PlaybackHandle.activity
    pending,     \* a command the engine has yet to serve
    playing,     \* the snapshot's status is Playing
    since_call   \* clock: since a client last called

timerVars  == <<timer, wake, idle_for>>
clientVars == <<activity, pending, since_call>>
vars == <<timerVars, clientVars, playing>>

Init ==
    /\ timer = "sleeping" /\ wake = CheckInterval /\ idle_for = 0
    /\ activity = FALSE /\ pending = FALSE /\ playing = FALSE
    /\ since_call = 0   \* counted from the start of the timer

-----------------------------------------------------------------------------
(* Clients and the engine *)

\* PlaybackHandle::send.
SendCommand ==
    /\ activity' = TRUE /\ pending' = TRUE /\ since_call' = 0
    /\ UNCHANGED <<timerVars, playing>>

\* The control interface's status(), which an open client calls several times
\* a second.
PollStatus ==
    /\ activity' = TRUE /\ since_call' = 0
    /\ UNCHANGED <<pending, timerVars, playing>>

\* What a command, or the end of the load it started, leaves in the snapshot.
ServeCommand ==
    /\ pending
    /\ pending' = FALSE
    /\ playing' \in BOOLEAN
    /\ UNCHANGED <<timerVars, activity, since_call>>

\* The queue has played out, or its next track does not load.
MusicEnds ==
    /\ playing
    /\ playing' = FALSE
    /\ UNCHANGED <<timerVars, clientVars>>

-----------------------------------------------------------------------------
(* The timer *)

\* The sleep of one round.
Sleep == timer' = "sleeping" /\ wake' = CheckInterval

\* take_activity with the flag read and not cleared.
TakeActivityLeavingFlag ==
    /\ timer = "sleeping" /\ wake = 0
    /\ IF activity THEN Sleep /\ idle_for' = 0
                   ELSE timer' = "asking" /\ UNCHANGED <<wake, idle_for>>
    /\ UNCHANGED <<clientVars, playing>>

\* The activity taken, and the `idle_for = ZERO` before the `continue` left out.
TakeActivityKeepingCount ==
    /\ timer = "sleeping" /\ wake = 0
    /\ activity' = FALSE
    /\ IF activity THEN Sleep ELSE timer' = "asking" /\ UNCHANGED wake
    /\ UNCHANGED <<idle_for, pending, since_call, playing>>

TakeActivity ==
    /\ timer = "sleeping" /\ wake = 0
    /\ activity' = FALSE
    /\ IF activity THEN Sleep /\ idle_for' = 0
                   ELSE timer' = "asking" /\ UNCHANGED <<wake, idle_for>>
    /\ UNCHANGED <<pending, since_call, playing>>

SeePlaying ==
    /\ timer = "asking" /\ playing
    /\ Sleep /\ idle_for' = 0
    /\ UNCHANGED <<clientVars, playing>>

SeeIdle ==
    /\ timer = "asking" /\ ~playing
    /\ idle_for' = idle_for + CheckInterval
    /\ IF idle_for' >= Timeout THEN timer' = "firing" /\ UNCHANGED wake ELSE Sleep
    /\ UNCHANGED <<clientVars, playing>>

\* shutdown.notify_one(), and the task returns.
Fire ==
    /\ timer = "firing"
    /\ timer' = "fired"
    /\ UNCHANGED <<wake, idle_for, clientVars, playing>>

Later(clock) == IF clock < Horizon THEN clock + 1 ELSE Horizon

Tick ==
    /\ wake' = IF wake > 0 THEN wake - 1 ELSE 0
    /\ since_call' = Later(since_call)
    /\ UNCHANGED <<timer, idle_for, activity, pending, playing>>

-----------------------------------------------------------------------------
ClientCalls == SendCommand \/ PollStatus

Timer == TakeActivity \/ SeePlaying \/ SeeIdle \/ Fire

Next == ClientCalls \/ ServeCommand \/ MusicEnds \/ Timer \/ Tick

\* Time passes, and a task that is awake is scheduled.
Spec == Init /\ [][Next]_vars /\ WF_vars(Tick) /\ WF_vars(Timer)

-----------------------------------------------------------------------------
(* Properties *)

\* The types.
TypeOK ==
    /\ timer \in {"sleeping", "asking", "firing", "fired"}
    /\ wake \in 0..CheckInterval
    /\ idle_for \in Nat
    /\ activity \in BOOLEAN /\ pending \in BOOLEAN /\ playing \in BOOLEAN
    /\ since_call \in 0..Horizon

\* The timer makes up its mind.
Decides == timer = "asking" /\ timer' = "firing"

\* The doc of run_idle_timer, clients' half: whoever calls the daemon keeps it
\* for the whole timeout from that call on, wherever between two checks the
\* call falls; hence a client that polls more often than that keeps it for
\* good.  Only a call that lands after the timer's last question (the flag is
\* up again) comes too late.
ClientGetsTimeout ==
    [][Decides /\ ~activity => since_call >= Timeout]_vars

\* "Nothing here should let the daemon sit around": with nobody calling and
\* nothing playing, it goes.
AbandonedDaemonStops ==
    []<>playing \/ []<><<ClientCalls>>_vars \/ <>(timer = "fired")
=============================================================================
