---------------------------- MODULE ControlSocket ----------------------------
(***************************************************************************)
(* The control channel on macOS: a client's call (tui/src/socket_client.rs)*)
(* over a Unix socket to a handler task of the daemon                      *)
(* (daemon/src/socket_control.rs), the command channel from the handlers   *)
(* to the engine thread (PlaybackHandle::send), and the select of main     *)
(* that a Quit wakes.                                                      *)
(*                                                                         *)
(* A request is one of three kinds: a command, which is queued for the     *)
(* engine and answered Unit; a read, which is answered from the shared     *)
(* snapshot (Queue, Spectrum, Status); and Quit.  A client stands for one  *)
(* connection: whoever connects again is another client.                   *)
(*                                                                         *)
(* What the engine does with a command is the business of PlaybackEngine;  *)
(* here it takes a command, is busy with it for as long as it likes (it    *)
(* may be loading a stream) and is done with it.                           *)
(***************************************************************************)
EXTENDS Naturals, Sequences

CONSTANTS
    Clients,       \* the connections
    MaxCommands    \* [Clients -> Nat], bound: the commands a client sends

ASSUME CommandsAssumption == MaxCommands \in [Clients -> Nat]

VARIABLES
    side,      \* the client: new, ready, calling; in the end left, stopped (its
               \* Quit went well) or failed (a call did: so do all after it)
    sent,      \* how many commands it has written
    answered,  \* how many of them have been answered
    request,   \* the line on its way to the handler
    inbox,     \* the line on its way back
    handler,   \* the daemon's end: none, backlog, reading, replying, notifying, done
    reply,     \* what the handler is writing
    channel,   \* PlaybackHandle's commands that the engine has not received
    engine,    \* the engine thread: absent (no audio device), idle, busy, exited
    hand,      \* the command the engine is busy with
    served,    \* what it has done, client by client
    quitters,  \* the clients whose Quit has notified main
    daemon     \* main: serving, stopping, closed (no socket any more), gone

clientVars == <<side, sent, answered>>
wireVars   == <<request, inbox, handler, reply>>
engineVars == <<channel, engine, hand, served>>
mainVars   == <<quitters, daemon>>
vars == <<clientVars, wireVars, engineVars, mainVars>>

Nothing       == <<"Nothing">>
Command(c, k) == <<"Command", c, k>>   \* the k-th command of client c
Read          == <<"Read">>
Quit          == <<"Quit">>
Shutdown      == <<"Shutdown">>

CommandsOf(c) == {Command(c, k) : k \in 1..MaxCommands[c]}
RequestsOf(c) == CommandsOf(c) \cup {Read, Quit}
Commands      == UNION {CommandsOf(c) : c \in Clients}

\* Only an engine thread that has not returned holds the receiving end.
EngineReceives == engine \in {"idle", "busy"}

\* PlaybackHandle::send: to an engine that is gone, an error in the log.
Sent(q, command) == IF EngineReceives THEN Append(q, command) ELSE q

Init ==
    /\ side = [c \in Clients |-> "new"]
    /\ sent = [c \in Clients |-> 0] /\ answered = [c \in Clients |-> 0]
    /\ request = [c \in Clients |-> Nothing] /\ inbox = [c \in Clients |-> Nothing]
    /\ handler = [c \in Clients |-> "none"] /\ reply = [c \in Clients |-> Nothing]
    /\ channel = <<>> /\ engine \in {"idle", "absent"}
    /\ hand = Nothing /\ served = [c \in Clients |-> <<>>]
    /\ quitters = {} /\ daemon = "serving"

-----------------------------------------------------------------------------
(* The client *)

\* connect: into the listener's backlog, or refused.
Connect(c) ==
    /\ side[c] = "new"
    /\ IF daemon \in {"serving", "stopping"}
       THEN /\ side' = [side EXCEPT ![c] = "ready"]
            /\ handler' = [handler EXCEPT ![c] = "backlog"]
       ELSE side' = [side EXCEPT ![c] = "failed"] /\ UNCHANGED handler
    /\ UNCHANGED <<sent, answered, request, inbox, reply, engineVars, mainVars>>

\* The first half of call: the lock is taken and the line is written, unless
\* the daemon's end is closed.
Call(c) ==
    \E r \in {Read, Quit}
               \cup {Command(c, k) : k \in {sent[c] + 1} \cap 1..MaxCommands[c]} :
       /\ side[c] = "ready"
       /\ IF handler[c] = "done"
          THEN side' = [side EXCEPT ![c] = "failed"] /\ UNCHANGED <<sent, request>>
          ELSE /\ request' = [request EXCEPT ![c] = r]
               /\ side' = [side EXCEPT ![c] = "calling"]
               /\ sent' = [sent EXCEPT ![c] = IF r \in CommandsOf(c) THEN @ + 1 ELSE @]
       /\ UNCHANGED <<answered, inbox, handler, reply, engineVars, mainVars>>

\* The second half: the line of the answer is there.  Whoever sent the Quit
\* (the Q key, `maraetai daemon stop`) is through with the daemon.
Return(c) ==
    /\ side[c] = "calling" /\ inbox[c] # Nothing
    /\ inbox' = [inbox EXCEPT ![c] = Nothing]
    /\ side' = [side EXCEPT ![c] = IF inbox[c] = Quit THEN "stopped" ELSE "ready"]
    /\ answered' = [answered EXCEPT ![c] = IF inbox[c] \in CommandsOf(c) THEN @ + 1 ELSE @]
    /\ UNCHANGED <<sent, request, handler, reply, engineVars, mainVars>>

\* Or no line comes any more: "daemon closed the control socket".
CallFails(c) ==
    /\ side[c] = "calling" /\ inbox[c] = Nothing /\ handler[c] = "done"
    /\ side' = [side EXCEPT ![c] = "failed"]
    /\ UNCHANGED <<sent, answered, wireVars, engineVars, mainVars>>

\* The q key between two calls; the end of its process at any time.
Leave(c) ==
    /\ side[c] \in {"ready", "calling"}
    /\ side' = [side EXCEPT ![c] = "left"]
    /\ UNCHANGED <<sent, answered, wireVars, engineVars, mainVars>>

-----------------------------------------------------------------------------
(* The daemon's end: serve and handle_connection *)

Accept(c) ==
    /\ handler[c] = "backlog"
    /\ handler' = [handler EXCEPT ![c] = "reading"]
    /\ UNCHANGED <<clientVars, request, inbox, reply, engineVars, mainVars>>

\* A command channel of one place, with try_send.
QueuedIfRoom(q, r) == IF r \in Commands /\ q = <<>> THEN Sent(q, r) ELSE q
Queued(q, r) == IF r \in Commands THEN Sent(q, r) ELSE q

\* The next line is read; it may be from a client that has left since.
TakesLine(c) ==
    /\ handler[c] = "reading" /\ request[c] # Nothing
    /\ request' = [request EXCEPT ![c] = Nothing]
    /\ reply' = [reply EXCEPT ![c] = request[c]]
    /\ handler' = [handler EXCEPT ![c] = "replying"]

\* A handler that has each command served before it answers.
DispatchWhenEngineRests(c) ==
    /\ engine # "busy" /\ TakesLine(c)
    /\ channel' = Queued(channel, request[c])
    /\ UNCHANGED <<clientVars, inbox, engine, hand, served, mainVars>>

\* The order of control.rs: main is notified before the answer is written.
DispatchNotifying(c) ==
    /\ TakesLine(c)
    /\ channel' = Queued(channel, request[c])
    /\ quitters' = IF request[c] = Quit THEN quitters \cup {c} ELSE quitters
    /\ UNCHANGED <<clientVars, inbox, engine, hand, served, daemon>>

\* dispatch: a command is in the channel before its Unit is.
Dispatch(c) ==
    /\ TakesLine(c)
    /\ channel' = Queued(channel, request[c])
    /\ UNCHANGED <<clientVars, inbox, engine, hand, served, mainVars>>

\* After the reply: the next line, or, for a Quit, the notification.
AfterReplyReadOn(r) == "reading"
AfterReply(r) == IF r = Quit THEN "notifying" ELSE "reading"

\* The answer is written; with nobody to read it the handler returns, and a
\* Quit is forgotten.
Reply(c) ==
    /\ handler[c] = "replying"
    /\ reply' = [reply EXCEPT ![c] = Nothing]
    /\ IF side[c] = "left"
       THEN handler' = [handler EXCEPT ![c] = "done"] /\ UNCHANGED inbox
       ELSE /\ inbox' = [inbox EXCEPT ![c] = reply[c]]
            /\ handler' = [handler EXCEPT ![c] = AfterReply(reply[c])]
    /\ UNCHANGED <<clientVars, request, engineVars, mainVars>>

Notify(c) ==
    /\ handler[c] = "notifying"
    /\ quitters' = quitters \cup {c}
    /\ handler' = [handler EXCEPT ![c] = "done"]
    /\ UNCHANGED <<clientVars, request, inbox, reply, engineVars, daemon>>

Disconnected(c) ==
    /\ handler[c] = "reading" /\ request[c] = Nothing
    /\ side[c] = "left"
    /\ handler' = [handler EXCEPT ![c] = "done"]
    /\ UNCHANGED <<clientVars, request, inbox, reply, engineVars, mainVars>>

-----------------------------------------------------------------------------
(* The engine thread *)

Receive ==
    /\ engine = "idle" /\ channel # <<>>
    /\ IF Head(channel) = Shutdown
       THEN engine' = "exited" /\ channel' = <<>> /\ UNCHANGED hand
       ELSE engine' = "busy" /\ channel' = Tail(channel) /\ hand' = Head(channel)
    /\ UNCHANGED <<clientVars, wireVars, served, mainVars>>

Finish ==
    /\ engine = "busy"
    /\ engine' = "idle" /\ hand' = Nothing
    /\ served' = [served EXCEPT ![hand[2]] = Append(@, hand)]
    /\ UNCHANGED <<clientVars, wireVars, channel, mainVars>>

-----------------------------------------------------------------------------
(* main *)

\* The select is over: by the permit of a notify_one (which is kept until main
\* takes it), be it a Quit's or the idle timer's, by a signal, or because accept
\* failed.
Wake ==
    /\ daemon = "serving" /\ daemon' = "stopping"
    /\ channel' = Sent(channel, Shutdown)
    /\ UNCHANGED <<clientVars, wireVars, engine, hand, served, quitters>>

WakeForQuit == quitters # {} /\ Wake

\* The listener goes with its task, and its backlog with it; the handlers are
\* tasks of their own and go on.
CloseSocket ==
    /\ daemon = "stopping" /\ daemon' = "closed"
    /\ handler' = [c \in Clients |-> IF handler[c] = "backlog" THEN "done" ELSE handler[c]]
    /\ UNCHANGED <<clientVars, request, inbox, reply, engineVars, quitters>>

\* main returns and takes every task and thread of the process with it.
Exit ==
    /\ daemon = "closed" /\ daemon' = "gone"
    /\ handler' = [c \in Clients |-> IF handler[c] = "none" THEN "none" ELSE "done"]
    /\ engine' = "exited" /\ channel' = <<>> /\ hand' = Nothing
    /\ UNCHANGED <<clientVars, request, inbox, reply, served, quitters>>

-----------------------------------------------------------------------------
Client(c)  == Connect(c) \/ Call(c) \/ Return(c) \/ CallFails(c) \/ Leave(c)
Handler(c) == Accept(c) \/ Dispatch(c) \/ Reply(c) \/ Notify(c) \/ Disconnected(c)
Engine     == Receive \/ Finish
Main       == Wake \/ CloseSocket \/ Exit

Next == (\E c \in Clients : Client(c) \/ Handler(c)) \/ Engine \/ Main

\* tokio runs every task that is ready, and a client reads what is there.  The
\* engine is left out: it may be loading for as long as it likes.
Fairness ==
    /\ \A c \in Clients : WF_vars(Handler(c)) /\ WF_vars(Return(c) \/ CallFails(c))
    /\ WF_vars(WakeForQuit) /\ WF_vars(CloseSocket) /\ WF_vars(Exit)

Spec == Init /\ [][Next]_vars /\ Fairness

-----------------------------------------------------------------------------
(* Properties *)

Lines == {Nothing, Read, Quit} \cup Commands

\* The type of every variable.
TypeOK ==
    /\ side \in [Clients -> {"new", "ready", "calling", "left", "stopped", "failed"}]
    /\ sent \in [Clients -> Nat] /\ answered \in [Clients -> Nat]
    /\ \A c \in Clients : answered[c] <= sent[c] /\ sent[c] <= MaxCommands[c]
    /\ request \in [Clients -> Lines]
    /\ inbox \in [Clients -> Lines]
    /\ handler \in [Clients -> {"none", "backlog", "reading", "replying", "notifying", "done"}]
    /\ reply \in [Clients -> Lines]
    /\ channel \in Seq(Commands \cup {Shutdown})
    /\ engine \in {"absent", "idle", "busy", "exited"}
    /\ hand \in Commands \cup {Nothing}
    /\ served \in [Clients -> Seq(Commands)]
    /\ quitters \subseteq Clients
    /\ daemon \in {"serving", "stopping", "closed", "gone"}

\* How many commands of a client the engine has taken: those it has done, and
\* the one it is busy with.
BusyWith(c) == engine = "busy" /\ hand \in CommandsOf(c)
Taken(c) == IF BusyWith(c) THEN Len(served[c]) + 1 ELSE Len(served[c])

\* The numbers of those that wait.
Waiting(c) ==
    {k \in 1..MaxCommands[c] : \E n \in DOMAIN channel : channel[n] = Command(c, k)}

\* The first of its commands were done, the next is in hand, and those after
\* it, up to the last one, wait in their order.
TakenInOrder(c) ==
    /\ \A k \in 1..Len(served[c]) : served[c][k] = Command(c, k)
    /\ BusyWith(c) => hand = Command(c, Taken(c))
WaitsInOrder(c) ==
    \A i, j \in DOMAIN channel : \A k, l \in 1..MaxCommands[c] :
       i < j /\ channel[i] = Command(c, k) /\ channel[j] = Command(c, l) => k < l
WaitingUpTo(c, last) == Taken(c) <= last /\ Waiting(c) = (Taken(c) + 1)..last

\* A Unit answers a command that is only queued.  Still, as long as the engine
\* thread is there, every command a client was told "ok" for is done or waiting
\* to be, once, in the order the client sent them, whatever the other clients
\* send, whether the client is still there, and however long a load takes.
AnsweredIsQueued ==
    EngineReceives =>
        \A c \in Clients :
           /\ TakenInOrder(c) /\ WaitsInOrder(c)
           /\ \E last \in answered[c]..sent[c] : WaitingUpTo(c, last)

\* "Reply before waking main, otherwise process teardown can close the socket
\* while the client is still awaiting the Quit response and report a false
\* failure for a successful stop" (socket_control.rs): a client whose Quit
\* reached main is never told that its call failed.
QuitIsNotReportedFailed == \A c \in quitters : side[c] # "failed"

\* Every call comes to an end, with an answer or a closed socket, although the
\* engine may be busy for ever and the daemon may go at any moment.
CallsReturn == \A c \in Clients : side[c] = "calling" ~> side[c] # "calling"

\* A stop that was reported to the client as done does come about.
QuitStops == \A c \in Clients : side[c] = "stopped" ~> daemon = "gone"
=============================================================================
