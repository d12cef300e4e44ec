--------------------------- MODULE DaemonLifecycle ---------------------------
(***************************************************************************)
(* Daemon processes from their start to their exit (daemon/src/main.rs,    *)
(* lifecycle.rs, socket_control.rs) and terminal clients that find one or  *)
(* spawn one (tui/src/lifecycle.rs), over what they share: the locked      *)
(* pidfile and the path of the control socket.                             *)
(*                                                                         *)
(* The transport is macOS's socket.  A process runs once; the state of an  *)
(* earlier boot or of a crashed run may lie about when the first starts.   *)
(***************************************************************************)
EXTENDS Naturals, FiniteSets

CONSTANTS
    Daemons,   \* the processes that may be started (bound: their number)
    Tuis,      \* clients that run ensure_daemon_running, once each
    NoDaemon,  \* an unlocked, empty or absent file
    Leftover,  \* the file of a process of an earlier run
    MaxStops   \* bound: stops, crashes and failed binds, taken together

ASSUME DaemonAssumption ==
    /\ NoDaemon \notin Daemons /\ Leftover \notin Daemons /\ NoDaemon # Leftover
    /\ MaxStops \in Nat

VARIABLES
    pc,       \* where each process is
    lock,     \* who holds the flock on the pidfile
    pidfile,  \* whose pid the pidfile holds
    socket,   \* whose listener the socket path leads to
    stops,    \* how many of these so far
    tui       \* where each client is

vars == <<pc, lock, pidfile, socket, stops, tui>>

Owners == Daemons \cup {NoDaemon, Leftover}

Init ==
    /\ pc = [d \in Daemons |-> "unstarted"]
    /\ lock = NoDaemon
    /\ pidfile \in {NoDaemon, Leftover} /\ socket \in {NoDaemon, Leftover}
    /\ stops = 0
    /\ tui = [t \in Tuis |-> "starting"]

Goes(d, from, to) == pc[d] = from /\ pc' = [pc EXCEPT ![d] = to]

\* A process that ends, one way or another, closes its files.  A lock that is
\* a mark in a file would stay.
EndsLeavingLock(d) ==
    /\ pc' = [pc EXCEPT ![d] = "gone"]
    /\ lock' = IF lock = d THEN Leftover ELSE lock

Ends(d) ==
    /\ pc' = [pc EXCEPT ![d] = "gone"]
    /\ lock' = IF lock = d THEN NoDaemon ELSE lock

-----------------------------------------------------------------------------
(* A daemon: acquire_single_instance_lock, bind *)

\* open() truncates the pidfile, locked or not.
OpenPidfile(d) ==
    /\ Goes(d, "started", "opened")
    /\ pidfile' = NoDaemon
    /\ UNCHANGED <<lock, socket, stops, tui>>

Lock(d) ==
    /\ lock = NoDaemon /\ Goes(d, "opened", "locked")
    /\ lock' = d
    /\ UNCHANGED <<pidfile, socket, stops, tui>>

LockRefused(d) ==
    /\ pc[d] = "opened" /\ lock # NoDaemon
    /\ Ends(d)
    /\ UNCHANGED <<pidfile, socket, stops, tui>>

WritePid(d) ==
    /\ Goes(d, "locked", "named")
    /\ pidfile' = d
    /\ UNCHANGED <<lock, socket, stops, tui>>

\* The stale socket left where it is.
KeepStaleSocket(d) ==
    /\ Goes(d, "named", "cleared")
    /\ UNCHANGED <<lock, pidfile, socket, stops, tui>>

\* bind() of socket_control.rs: whatever lies at the path is removed ...
RemoveStaleSocket(d) ==
    /\ Goes(d, "named", "cleared")
    /\ socket' = NoDaemon
    /\ UNCHANGED <<lock, pidfile, stops, tui>>

\* ... and a listener put there, which answers from then on.
Bind(d) ==
    /\ socket = NoDaemon /\ Goes(d, "cleared", "serving")
    /\ socket' = d
    /\ UNCHANGED <<lock, pidfile, stops, tui>>

\* The path is taken, or cannot be bound to.
BindFails(d) ==
    /\ pc[d] = "cleared"
    /\ socket # NoDaemon \/ stops < MaxStops
    /\ stops' = IF socket = NoDaemon THEN stops + 1 ELSE stops
    /\ Ends(d)
    /\ UNCHANGED <<pidfile, socket, tui>>

-----------------------------------------------------------------------------
(* A daemon: the way out of main *)

\* The lock given back before the socket is removed.
StopUnlocking(d) ==
    /\ stops < MaxStops /\ stops' = stops + 1
    /\ Goes(d, "serving", "stopping")
    /\ lock' = NoDaemon
    /\ UNCHANGED <<pidfile, socket, tui>>

\* Quit, the idle timer, a signal, or a failing server task ends the select;
\* the server is aborted.
Stop(d) ==
    /\ stops < MaxStops /\ stops' = stops + 1
    /\ Goes(d, "serving", "stopping")
    /\ UNCHANGED <<lock, pidfile, socket, tui>>

\* remove_file goes by the path.
RemoveSocket(d) ==
    /\ Goes(d, "stopping", "leaving")
    /\ socket' = NoDaemon
    /\ UNCHANGED <<lock, pidfile, stops, tui>>

\* The guard, main's first local, is dropped last.
Exit(d) ==
    /\ pc[d] = "leaving"
    /\ Ends(d)
    /\ UNCHANGED <<pidfile, socket, stops, tui>>

Crash(d) ==
    /\ stops < MaxStops /\ stops' = stops + 1
    /\ pc[d] \notin {"unstarted", "gone"}
    /\ Ends(d)
    /\ UNCHANGED <<pidfile, socket, tui>>

-----------------------------------------------------------------------------
(* A client: ensure_daemon_running *)

\* status() is answered.
Reachable == \E d \in Daemons : pc[d] = "serving" /\ socket = d

Becomes(t, state) == tui' = [tui EXCEPT ![t] = state]

Probe(t) ==
    /\ tui[t] = "starting"
    /\ Becomes(t, IF Reachable THEN "connected" ELSE "absent")
    /\ UNCHANGED <<pc, lock, pidfile, socket, stops>>

SpawnDaemon(t) ==
    /\ tui[t] = "absent"
    /\ \E d \in Daemons : Goes(d, "unstarted", "started")
    /\ Becomes(t, "waiting")
    /\ UNCHANGED <<lock, pidfile, socket, stops>>

Poll(t) ==
    /\ tui[t] = "waiting" /\ Reachable
    /\ Becomes(t, "connected")
    /\ UNCHANGED <<pc, lock, pidfile, socket, stops>>

\* SPAWN_WAIT_TIMEOUT is taken to be longer than any start or exit.
AtRest == \A d \in Daemons : pc[d] \in {"unstarted", "serving", "gone"}

GiveUp(t) ==
    /\ tui[t] = "waiting" /\ AtRest /\ ~Reachable
    /\ Becomes(t, "failed")
    /\ UNCHANGED <<pc, lock, pidfile, socket, stops>>

\* The user starts one by hand; a process is kept for each client to spawn.
StartByHand ==
    /\ Cardinality({d \in Daemons : pc[d] = "unstarted"})
         > Cardinality({t \in Tuis : tui[t] \in {"starting", "absent"}})
    /\ \E d \in Daemons : Goes(d, "unstarted", "started")
    /\ UNCHANGED <<lock, pidfile, socket, stops, tui>>

-----------------------------------------------------------------------------
DaemonStep(d) ==
    \/ OpenPidfile(d) \/ Lock(d) \/ LockRefused(d) \/ WritePid(d)
    \/ RemoveStaleSocket(d) \/ Bind(d) \/ RemoveSocket(d) \/ Exit(d)

TuiStep(t) == Probe(t) \/ SpawnDaemon(t) \/ Poll(t) \/ GiveUp(t)

Next ==
    \/ \E d \in Daemons : DaemonStep(d) \/ Stop(d) \/ Crash(d) \/ BindFails(d)
    \/ \E t \in Tuis : TuiStep(t)
    \/ StartByHand

\* Processes that run are scheduled; nobody has to stop one.
Spec ==
    /\ Init /\ [][Next]_vars
    /\ \A d \in Daemons : WF_vars(DaemonStep(d))
    /\ \A t \in Tuis : WF_vars(TuiStep(t))

-----------------------------------------------------------------------------
(* Properties *)

\* The types: a lock is held by a process that can still give it back, never
\* by one of an earlier run.
TypeOK ==
    /\ pc \in [Daemons -> {"unstarted", "started", "opened", "locked", "named",
                           "cleared", "serving", "stopping", "leaving", "gone"}]
    /\ lock \in Daemons \cup {NoDaemon}
    /\ pidfile \in Owners /\ socket \in Owners
    /\ stops \in 0..MaxStops
    /\ tui \in [Tuis -> {"starting", "absent", "waiting", "connected", "failed"}]

\* A daemon that serves is the one at the socket's path, whoever starts, stops
\* or crashes around it: neither a successor's bind nor a predecessor's
\* remove_file, both of which go by the path, takes it away.
ServingIsReachable == \A d \in Daemons : pc[d] = "serving" => socket = d

\* As long as no daemon is stopped, every client gets one: racing starts, a
\* stale pidfile and a stale socket notwithstanding.
EveryClientIsServed ==
    [](stops = 0) => \A t \in Tuis : <>(tui[t] = "connected")
=============================================================================
