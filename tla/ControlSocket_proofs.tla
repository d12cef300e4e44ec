------------------------- MODULE ControlSocket_proofs -------------------------
(***************************************************************************)
(* However many clients call, leave and quit, and whenever the daemon      *)
(* goes: every line is in one place, a Quit that was heard was answered,   *)
(* and every command that was answered is done or waits, once, in order.   *)
(***************************************************************************)
EXTENDS ControlSocket, TLAPS

\* One line between a client and its handler: on its way there, being
\* answered, or on its way back; none while the client is not in a call.
OneLine(c) ==
    /\ request[c] # Nothing => reply[c] = Nothing /\ inbox[c] = Nothing
    /\ reply[c] # Nothing => inbox[c] = Nothing
    /\ side[c] \in {"new", "ready"} =>
          request[c] = Nothing /\ reply[c] = Nothing /\ inbox[c] = Nothing

\* It is the last command written, if it is one, and its answer is not
\* counted yet.
LastCommand(c, line) ==
    line[c] \in CommandsOf(c) => line[c] = Command(c, sent[c]) /\ answered[c] < sent[c]

LastLine(c) == LastCommand(c, request) /\ LastCommand(c, reply) /\ LastCommand(c, inbox)

\* A client's lines are its own.
OwnLines(c) == {request[c], reply[c], inbox[c]} \subseteq RequestsOf(c) \cup {Nothing}

\* A handler that has taken a line has a client that waits, or has left.
Awaited(c) ==
    /\ request[c] # Nothing /\ handler[c] # "done" => side[c] \in {"calling", "left"}
    /\ handler[c] = "replying" => reply[c] # Nothing /\ side[c] \in {"calling", "left"}

\* Whose Quit goes to main, its answer is there or has been read.
QuitAnswered(c) ==
    handler[c] = "notifying" \/ c \in quitters =>
        \/ side[c] \in {"stopped", "left"}
        \/ side[c] = "calling" /\ inbox[c] = Quit

ClientInv(c) == OneLine(c) /\ LastLine(c) /\ OwnLines(c) /\ Awaited(c) /\ QuitAnswered(c)

WireInv == \A c \in Clients : ClientInv(c)

BusyInv == engine = "busy" => hand \in Commands

SocketInv == TypeOK /\ WireInv /\ BusyInv

\* The kinds of lines can be told apart.
LEMMA LinesDiffer ==
    /\ Nothing # Read /\ Nothing # Quit /\ Read # Quit
    /\ \A c \in Clients : /\ Nothing \notin CommandsOf(c)
                          /\ Read \notin CommandsOf(c)
                          /\ Quit \notin CommandsOf(c)
    /\ Shutdown \notin Commands
BY DEF Nothing, Read, Quit, Shutdown, CommandsOf, Commands, Command

\* A command knows its client.
LEMMA CommandsOfClients ==
    /\ \A c \in Clients : CommandsOf(c) \subseteq Commands
    /\ \A m \in Commands : m[2] \in Clients
BY DEF Commands, CommandsOf, Command

\* In the initial states nobody has said anything.
LEMMA InitInv == Init => SocketInv
BY LinesDiffer, CommandsAssumption
   DEF Init, SocketInv, TypeOK, WireInv, ClientInv, OneLine, LastCommand, LastLine, OwnLines,
       Awaited, QuitAnswered, BusyInv, Lines

\* A step that leaves a client's side and wire alone disturbs none of it.
LEMMA Untouched ==
    ASSUME NEW d \in Clients, ClientInv(d),
           side'[d] = side[d], sent'[d] = sent[d], answered'[d] = answered[d],
           request'[d] = request[d], inbox'[d] = inbox[d], reply'[d] = reply[d],
           handler'[d] \in {handler[d], "done"},
           d \in quitters' <=> d \in quitters
    PROVE  ClientInv(d)'
BY DEF ClientInv, OneLine, LastCommand, LastLine, OwnLines, Awaited, QuitAnswered

-----------------------------------------------------------------------------
(* The client's steps *)

LEMMA ConnectStep == ASSUME SocketInv, NEW c \in Clients, Connect(c) PROVE SocketInv'
<1>1. TypeOK /\ ClientInv(c) /\ \A d \in Clients : ClientInv(d)
  BY DEF SocketInv, WireInv
<1>2. TypeOK'
  BY <1>1 DEF Connect, TypeOK, engineVars, mainVars
<1>3. ClientInv(c)'
  BY <1>1, LinesDiffer DEF Connect, TypeOK, engineVars, mainVars, ClientInv, OneLine, LastCommand, LastLine, OwnLines, Awaited, QuitAnswered
<1>4. ASSUME NEW d \in Clients, d # c PROVE ClientInv(d)'
  BY <1>1, <1>4, Untouched DEF Connect, TypeOK, engineVars, mainVars
<1>5. BusyInv'
  BY DEF SocketInv, BusyInv, Connect, engineVars, mainVars
<1>6. QED
  BY <1>2, <1>3, <1>4, <1>5 DEF SocketInv, WireInv

LEMMA CallStep == ASSUME SocketInv, NEW c \in Clients, Call(c) PROVE SocketInv'
<1>1. TypeOK /\ ClientInv(c) /\ \A d \in Clients : ClientInv(d)
  BY DEF SocketInv, WireInv
<1>2. PICK r \in {Read, Quit} \cup {Command(c, k) : k \in {sent[c] + 1} \cap 1..MaxCommands[c]} :
         /\ side[c] = "ready"
         /\ IF handler[c] = "done"
            THEN side' = [side EXCEPT ![c] = "failed"] /\ UNCHANGED <<sent, request>>
            ELSE /\ request' = [request EXCEPT ![c] = r]
                 /\ side' = [side EXCEPT ![c] = "calling"]
                 /\ sent' = [sent EXCEPT ![c] = IF r \in CommandsOf(c) THEN @ + 1 ELSE @]
         /\ UNCHANGED <<answered, inbox, handler, reply, engineVars, mainVars>>
  BY DEF Call
<1>3. /\ r \in RequestsOf(c) /\ r # Nothing
      /\ r \in CommandsOf(c) => r = Command(c, sent[c] + 1) /\ sent[c] + 1 <= MaxCommands[c]
  <2>1. CASE r \in {Read, Quit}
    BY <2>1, LinesDiffer DEF RequestsOf
  <2>2. CASE \E k \in {sent[c] + 1} \cap 1..MaxCommands[c] : r = Command(c, k)
    <3>1. r = Command(c, sent[c] + 1) /\ sent[c] + 1 \in 1..MaxCommands[c]
      BY <2>2
    <3>2. r \in CommandsOf(c)
      BY <3>1 DEF CommandsOf
    <3>3. QED
      BY <3>1, <3>2, LinesDiffer, CommandsAssumption DEF RequestsOf
  <2>3. QED
    BY <1>2, <2>1, <2>2
<1>4. TypeOK'
  <2>1. request' \in [Clients -> Lines]
    <3>1. request' = request \/ request' = [request EXCEPT ![c] = r]
      BY <1>2
    <3>2. r \in Lines
      BY <1>3, CommandsOfClients DEF Lines, RequestsOf
    <3>3. request \in [Clients -> Lines]
      BY <1>1 DEF TypeOK
    <3>4. QED
      BY <3>1, <3>2, <3>3
  <2>2. /\ sent' \in [Clients -> Nat]
        /\ \A d \in Clients : answered[d] <= sent'[d] /\ sent'[d] <= MaxCommands[d]
    <3>1. \/ sent' = sent
          \/ sent' = [sent EXCEPT ![c] = sent[c] + 1] /\ r \in CommandsOf(c)
      <4>1. sent = [sent EXCEPT ![c] = sent[c]]
        BY <1>1 DEF TypeOK
      <4>2. QED
        BY <1>2, <4>1
    <3>2. /\ sent \in [Clients -> Nat] /\ answered \in [Clients -> Nat]
          /\ \A d \in Clients : answered[d] <= sent[d] /\ sent[d] <= MaxCommands[d]
      BY <1>1 DEF TypeOK
    <3>3. QED
      BY <1>3, <3>1, <3>2, CommandsAssumption
  <2>3. side' \in [Clients -> {"new", "ready", "calling", "left", "stopped", "failed"}]
    BY <1>1, <1>2 DEF TypeOK
  <2>4. QED
    BY <1>1, <1>2, <2>1, <2>2, <2>3 DEF TypeOK, engineVars, mainVars
<1>5. ClientInv(c)'
  <2>1. /\ request[c] = Nothing /\ reply[c] = Nothing /\ inbox[c] = Nothing
        /\ handler[c] \notin {"replying", "notifying"} /\ c \notin quitters
        /\ UNCHANGED <<answered, inbox, handler, reply, quitters>>
    BY <1>1, <1>2 DEF ClientInv, OneLine, Awaited, QuitAnswered, mainVars
  <2>2. CASE handler[c] = "done"
    BY <1>1, <1>2, <2>1, <2>2, LinesDiffer
       DEF TypeOK, ClientInv, OneLine, LastCommand, LastLine, OwnLines, Awaited, QuitAnswered
  <2>3. CASE handler[c] # "done"
    <3>1. /\ request'[c] = r /\ side'[c] = "calling"
          /\ sent'[c] = IF r \in CommandsOf(c) THEN sent[c] + 1 ELSE sent[c]
      BY <1>1, <1>2, <2>3 DEF TypeOK
    <3>2. LastLine(c)'
      BY <1>1, <1>3, <2>1, <3>1, LinesDiffer DEF TypeOK, LastLine, LastCommand
    <3>3. (OneLine(c) /\ OwnLines(c) /\ Awaited(c) /\ QuitAnswered(c))'
      BY <1>3, <2>1, <3>1 DEF OneLine, OwnLines, Awaited, QuitAnswered
    <3>4. QED
      BY <3>2, <3>3 DEF ClientInv
  <2>4. QED
    BY <2>2, <2>3
<1>6. ASSUME NEW d \in Clients, d # c PROVE ClientInv(d)'
  BY <1>1, <1>6, Untouched DEF Call, TypeOK, mainVars
<1>7. BusyInv'
  BY DEF SocketInv, BusyInv, Call, engineVars
<1>8. QED
  BY <1>4, <1>5, <1>6, <1>7 DEF SocketInv, WireInv

LEMMA ReturnStep == ASSUME SocketInv, NEW c \in Clients, Return(c) PROVE SocketInv'
<1>1. TypeOK /\ ClientInv(c) /\ \A d \in Clients : ClientInv(d)
  BY DEF SocketInv, WireInv
<1>2. TypeOK'
  <2>1. inbox[c] \in CommandsOf(c) => answered[c] < sent[c]
    BY <1>1 DEF ClientInv, LastLine, LastCommand
  <2>2. answered' \in [Clients -> Nat] /\ \A d \in Clients : answered'[d] <= sent[d]
    BY <1>1, <2>1 DEF Return, TypeOK
  <2>3. QED
    BY <1>1, <2>2 DEF Return, TypeOK, Lines, engineVars, mainVars
<1>3. ClientInv(c)'
  BY <1>1, LinesDiffer DEF Return, TypeOK, engineVars, mainVars, ClientInv, OneLine, LastCommand, LastLine, OwnLines, Awaited, QuitAnswered
<1>4. ASSUME NEW d \in Clients, d # c PROVE ClientInv(d)'
  BY <1>1, <1>4, Untouched DEF Return, TypeOK, engineVars, mainVars
<1>5. BusyInv'
  BY DEF SocketInv, BusyInv, Return, engineVars, mainVars
<1>6. QED
  BY <1>2, <1>3, <1>4, <1>5 DEF SocketInv, WireInv

LEMMA CallFailsStep == ASSUME SocketInv, NEW c \in Clients, CallFails(c) PROVE SocketInv'
<1>1. TypeOK /\ ClientInv(c) /\ \A d \in Clients : ClientInv(d)
  BY DEF SocketInv, WireInv
<1>2. TypeOK'
  BY <1>1 DEF CallFails, TypeOK, engineVars, mainVars, wireVars
<1>3. ClientInv(c)'
  BY <1>1, LinesDiffer DEF CallFails, TypeOK, engineVars, mainVars, ClientInv, OneLine, LastCommand, LastLine, OwnLines, Awaited, QuitAnswered, wireVars
<1>4. ASSUME NEW d \in Clients, d # c PROVE ClientInv(d)'
  BY <1>1, <1>4, Untouched DEF CallFails, TypeOK, engineVars, mainVars, wireVars
<1>5. BusyInv'
  BY DEF SocketInv, BusyInv, CallFails, engineVars, mainVars, wireVars
<1>6. QED
  BY <1>2, <1>3, <1>4, <1>5 DEF SocketInv, WireInv

LEMMA LeaveStep == ASSUME SocketInv, NEW c \in Clients, Leave(c) PROVE SocketInv'
<1>1. TypeOK /\ ClientInv(c) /\ \A d \in Clients : ClientInv(d)
  BY DEF SocketInv, WireInv
<1>2. TypeOK'
  BY <1>1 DEF Leave, TypeOK, engineVars, mainVars, wireVars
<1>3. ClientInv(c)'
  BY <1>1, LinesDiffer DEF Leave, TypeOK, engineVars, mainVars, ClientInv, OneLine, LastCommand, LastLine, OwnLines, Awaited, QuitAnswered, wireVars
<1>4. ASSUME NEW d \in Clients, d # c PROVE ClientInv(d)'
  BY <1>1, <1>4, Untouched DEF Leave, TypeOK, engineVars, mainVars, wireVars
<1>5. BusyInv'
  BY DEF SocketInv, BusyInv, Leave, engineVars, mainVars, wireVars
<1>6. QED
  BY <1>2, <1>3, <1>4, <1>5 DEF SocketInv, WireInv

-----------------------------------------------------------------------------
(* The handler's steps *)

LEMMA AcceptStep == ASSUME SocketInv, NEW c \in Clients, Accept(c) PROVE SocketInv'
<1>1. TypeOK /\ ClientInv(c) /\ \A d \in Clients : ClientInv(d)
  BY DEF SocketInv, WireInv
<1>2. TypeOK'
  BY <1>1 DEF Accept, TypeOK, engineVars, mainVars, clientVars
<1>3. ClientInv(c)'
  BY <1>1, LinesDiffer DEF Accept, TypeOK, engineVars, mainVars, ClientInv, OneLine, LastCommand, LastLine, OwnLines, Awaited, QuitAnswered, clientVars
<1>4. ASSUME NEW d \in Clients, d # c PROVE ClientInv(d)'
  BY <1>1, <1>4, Untouched DEF Accept, TypeOK, engineVars, mainVars, clientVars
<1>5. BusyInv'
  BY DEF SocketInv, BusyInv, Accept, engineVars, mainVars, clientVars
<1>6. QED
  BY <1>2, <1>3, <1>4, <1>5 DEF SocketInv, WireInv

LEMMA DispatchStep == ASSUME SocketInv, NEW c \in Clients, Dispatch(c) PROVE SocketInv'
<1>1. TypeOK /\ ClientInv(c) /\ \A d \in Clients : ClientInv(d)
  BY DEF SocketInv, WireInv
<1>2. TypeOK'
  BY <1>1, CommandsOfClients DEF Dispatch, TypeOK, engineVars, mainVars, clientVars, TakesLine, Queued, Sent, Lines
<1>3. ClientInv(c)'
  BY <1>1, LinesDiffer DEF Dispatch, TypeOK, engineVars, mainVars, ClientInv, OneLine, LastCommand, LastLine, OwnLines, Awaited, QuitAnswered, clientVars, TakesLine
<1>4. ASSUME NEW d \in Clients, d # c PROVE ClientInv(d)'
  BY <1>1, <1>4, Untouched DEF Dispatch, TypeOK, engineVars, mainVars, clientVars, TakesLine
<1>5. BusyInv'
  BY DEF SocketInv, BusyInv, Dispatch, engineVars, mainVars, clientVars, TakesLine
<1>6. QED
  BY <1>2, <1>3, <1>4, <1>5 DEF SocketInv, WireInv

LEMMA ReplyStep == ASSUME SocketInv, NEW c \in Clients, Reply(c) PROVE SocketInv'
<1>1. TypeOK /\ ClientInv(c) /\ \A d \in Clients : ClientInv(d)
  BY DEF SocketInv, WireInv
<1>2. TypeOK'
  BY <1>1 DEF Reply, TypeOK, engineVars, mainVars, clientVars, AfterReply, Lines
<1>3. ClientInv(c)'
  BY <1>1, LinesDiffer DEF Reply, TypeOK, engineVars, mainVars, ClientInv, OneLine, LastCommand, LastLine, OwnLines, Awaited, QuitAnswered, clientVars, AfterReply
<1>4. ASSUME NEW d \in Clients, d # c PROVE ClientInv(d)'
  BY <1>1, <1>4, Untouched DEF Reply, TypeOK, engineVars, mainVars, clientVars
<1>5. BusyInv'
  BY DEF SocketInv, BusyInv, Reply, engineVars, mainVars, clientVars
<1>6. QED
  BY <1>2, <1>3, <1>4, <1>5 DEF SocketInv, WireInv

LEMMA NotifyStep == ASSUME SocketInv, NEW c \in Clients, Notify(c) PROVE SocketInv'
<1>1. TypeOK /\ ClientInv(c) /\ \A d \in Clients : ClientInv(d)
  BY DEF SocketInv, WireInv
<1>2. TypeOK'
  BY <1>1 DEF Notify, TypeOK, engineVars, mainVars, clientVars
<1>3. ClientInv(c)'
  BY <1>1, LinesDiffer DEF Notify, TypeOK, engineVars, mainVars, ClientInv, OneLine, LastCommand, LastLine, OwnLines, Awaited, QuitAnswered, clientVars
<1>4. ASSUME NEW d \in Clients, d # c PROVE ClientInv(d)'
  BY <1>1, <1>4, Untouched DEF Notify, TypeOK, engineVars, mainVars, clientVars
<1>5. BusyInv'
  BY DEF SocketInv, BusyInv, Notify, engineVars, mainVars, clientVars
<1>6. QED
  BY <1>2, <1>3, <1>4, <1>5 DEF SocketInv, WireInv

LEMMA DisconnectedStep == ASSUME SocketInv, NEW c \in Clients, Disconnected(c) PROVE SocketInv'
<1>1. TypeOK /\ ClientInv(c) /\ \A d \in Clients : ClientInv(d)
  BY DEF SocketInv, WireInv
<1>2. TypeOK'
  BY <1>1 DEF Disconnected, TypeOK, engineVars, mainVars, clientVars
<1>3. ClientInv(c)'
  BY <1>1, LinesDiffer DEF Disconnected, TypeOK, engineVars, mainVars, ClientInv, OneLine, LastCommand, LastLine, OwnLines, Awaited, QuitAnswered, clientVars
<1>4. ASSUME NEW d \in Clients, d # c PROVE ClientInv(d)'
  BY <1>1, <1>4, Untouched DEF Disconnected, TypeOK, engineVars, mainVars, clientVars
<1>5. BusyInv'
  BY DEF SocketInv, BusyInv, Disconnected, engineVars, mainVars, clientVars
<1>6. QED
  BY <1>2, <1>3, <1>4, <1>5 DEF SocketInv, WireInv

-----------------------------------------------------------------------------
(* The steps of the engine and of main *)

LEMMA ReceiveStep == ASSUME SocketInv, Receive PROVE SocketInv'
<1>1. TypeOK /\ BusyInv /\ \A d \in Clients : ClientInv(d)
  BY DEF SocketInv, WireInv
<1>2. TypeOK'
  <2>1. channel # <<>> => Head(channel) \in Commands \cup {Shutdown} /\ Tail(channel) \in Seq(Commands \cup {Shutdown})
    BY <1>1 DEF TypeOK
  <2>2. channel' \in Seq(Commands \cup {Shutdown})
    <3>1. channel' = <<>> \/ channel' = Tail(channel)
      BY DEF Receive
    <3>2. <<>> \in Seq(Commands \cup {Shutdown})
      OBVIOUS
    <3>3. QED
      BY <2>1, <3>1, <3>2 DEF Receive
  <2>3. engine' \in {"idle", "busy", "exited"} /\ hand' \in Commands \cup {Nothing}
    BY <1>1, <2>1 DEF Receive, TypeOK
  <2>4. QED
    BY <1>1, <2>2, <2>3 DEF Receive, TypeOK, clientVars, wireVars, mainVars
<1>3. ASSUME NEW d \in Clients PROVE ClientInv(d)'
  BY <1>1, Untouched DEF Receive, TypeOK, clientVars, wireVars, mainVars, engineVars
<1>4. BusyInv'
  BY <1>1 DEF Receive, TypeOK, BusyInv
<1>5. QED
  BY <1>2, <1>3, <1>4 DEF SocketInv, WireInv

LEMMA FinishStep == ASSUME SocketInv, Finish PROVE SocketInv'
<1>1. TypeOK /\ BusyInv /\ \A d \in Clients : ClientInv(d)
  BY DEF SocketInv, WireInv
<1>2. TypeOK'
  BY <1>1, CommandsOfClients DEF Finish, TypeOK, BusyInv, clientVars, wireVars, engineVars, mainVars
<1>3. ASSUME NEW d \in Clients PROVE ClientInv(d)'
  BY <1>1, Untouched DEF Finish, TypeOK, clientVars, wireVars, mainVars, engineVars
<1>4. BusyInv'
  BY DEF Finish, BusyInv
<1>5. QED
  BY <1>2, <1>3, <1>4 DEF SocketInv, WireInv

LEMMA WakeStep == ASSUME SocketInv, Wake PROVE SocketInv'
<1>1. TypeOK /\ BusyInv /\ \A d \in Clients : ClientInv(d)
  BY DEF SocketInv, WireInv
<1>2. TypeOK'
  BY <1>1 DEF Wake, Sent, TypeOK, clientVars, wireVars, engineVars, mainVars
<1>3. ASSUME NEW d \in Clients PROVE ClientInv(d)'
  BY <1>1, Untouched DEF Wake, TypeOK, clientVars, wireVars, mainVars, engineVars
<1>4. BusyInv'
  BY <1>1 DEF Wake, BusyInv
<1>5. QED
  BY <1>2, <1>3, <1>4 DEF SocketInv, WireInv

LEMMA CloseSocketStep == ASSUME SocketInv, CloseSocket PROVE SocketInv'
<1>1. TypeOK /\ BusyInv /\ \A d \in Clients : ClientInv(d)
  BY DEF SocketInv, WireInv
<1>2. TypeOK'
  BY <1>1 DEF CloseSocket, TypeOK, clientVars, wireVars, engineVars, mainVars
<1>3. ASSUME NEW d \in Clients PROVE ClientInv(d)'
  BY <1>1, Untouched DEF CloseSocket, TypeOK, clientVars, wireVars, mainVars, engineVars
<1>4. BusyInv'
  BY <1>1 DEF CloseSocket, BusyInv, engineVars
<1>5. QED
  BY <1>2, <1>3, <1>4 DEF SocketInv, WireInv

LEMMA ExitStep == ASSUME SocketInv, Exit PROVE SocketInv'
<1>1. TypeOK /\ BusyInv /\ \A d \in Clients : ClientInv(d)
  BY DEF SocketInv, WireInv
<1>2. TypeOK'
  BY <1>1 DEF Exit, TypeOK, clientVars, wireVars, engineVars, mainVars
<1>3. ASSUME NEW d \in Clients PROVE ClientInv(d)'
  BY <1>1, Untouched DEF Exit, TypeOK, clientVars, wireVars, mainVars, engineVars
<1>4. BusyInv'
  BY DEF Exit, BusyInv
<1>5. QED
  BY <1>2, <1>3, <1>4 DEF SocketInv, WireInv

LEMMA StepInv == SocketInv /\ [Next]_vars => SocketInv'
<1> SUFFICES ASSUME SocketInv, [Next]_vars PROVE SocketInv'
  OBVIOUS
<1>1. ASSUME NEW c \in Clients, Client(c) PROVE SocketInv'
  BY <1>1, ConnectStep, CallStep, ReturnStep, CallFailsStep, LeaveStep DEF Client
<1>2. ASSUME NEW c \in Clients, Handler(c) PROVE SocketInv'
  BY <1>2, AcceptStep, DispatchStep, ReplyStep, NotifyStep, DisconnectedStep DEF Handler
<1>3. CASE Engine
  BY <1>3, ReceiveStep, FinishStep DEF Engine
<1>4. CASE Main
  BY <1>4, WakeStep, CloseSocketStep, ExitStep DEF Main
<1>5. CASE UNCHANGED vars
  BY <1>5 DEF vars, clientVars, wireVars, engineVars, mainVars, SocketInv, TypeOK, WireInv,
              ClientInv, OneLine, LastCommand, LastLine, OwnLines, Awaited, QuitAnswered, BusyInv
<1>6. QED
  BY <1>1, <1>2, <1>3, <1>4, <1>5 DEF Next

-----------------------------------------------------------------------------
(* What waits for the engine *)

\* How many of a client's commands have reached the engine's channel: all but
\* the one whose line its handler has not read yet.
Dispatched(c) == IF request[c] \in CommandsOf(c) THEN sent[c] - 1 ELSE sent[c]

QueuedFor(c) == TakenInOrder(c) /\ WaitsInOrder(c) /\ WaitingUpTo(c, Dispatched(c))

QueueInv == EngineReceives => \A c \in Clients : QueuedFor(c)

\* A command is one client's, has one number and is no Shutdown.
LEMMA CommandsApart ==
    /\ \A c, d, k, l : Command(c, k) = Command(d, l) => c = d /\ k = l
    /\ \A c, k : Command(c, k) # Shutdown /\ Command(c, k) # Nothing
    /\ \A c, k : Command(c, k)[2] = c
BY DEF Command, Shutdown, Nothing

\* The channel holds messages at its places.
LEMMA ChannelPlaces ==
    ASSUME TypeOK
    PROVE  /\ channel \in Seq(Commands \cup {Shutdown})
           /\ Len(channel) \in Nat /\ DOMAIN channel = 1..Len(channel)
           /\ \A c \in Clients : /\ sent[c] \in Nat /\ answered[c] \in Nat
                                 /\ MaxCommands[c] \in Nat /\ sent[c] <= MaxCommands[c]
                                 /\ served[c] \in Seq(Commands) /\ Len(served[c]) \in Nat
                                 /\ Taken(c) \in Nat
<1>1. /\ channel \in Seq(Commands \cup {Shutdown})
      /\ \A c \in Clients : /\ sent[c] \in Nat /\ answered[c] \in Nat
                            /\ MaxCommands[c] \in Nat /\ sent[c] <= MaxCommands[c]
                            /\ served[c] \in Seq(Commands)
  BY CommandsAssumption DEF TypeOK
<1>2. Len(channel) \in Nat /\ DOMAIN channel = 1..Len(channel)
  BY <1>1
<1>3. \A c \in Clients : Len(served[c]) \in Nat
  <2> SUFFICES ASSUME NEW c \in Clients PROVE Len(served[c]) \in Nat
    OBVIOUS
  <2>1. served[c] \in Seq(Commands)
    BY <1>1
  <2>2. QED
    BY <2>1
<1>4. QED
  BY <1>1, <1>2, <1>3 DEF Taken

\* What was dispatched lies between what was answered and what was sent.
LEMMA DispatchedRange ==
    ASSUME SocketInv, NEW c \in Clients
    PROVE  Dispatched(c) \in answered[c]..sent[c] /\ Dispatched(c) \in Nat
<1>1. sent[c] \in Nat /\ answered[c] \in Nat /\ answered[c] <= sent[c]
  BY DEF SocketInv, TypeOK
<1>2. request[c] \in CommandsOf(c) => answered[c] < sent[c]
  BY DEF SocketInv, WireInv, ClientInv, LastLine, LastCommand
<1>3. QED
  BY <1>1, <1>2 DEF Dispatched

\* A step that neither touches the engine nor reads or writes the line of a
\* client's command leaves its queue alone.
LEMMA QueueUntouched ==
    ASSUME NEW c \in Clients, QueuedFor(c), UNCHANGED engineVars, Dispatched(c)' = Dispatched(c)
    PROVE  QueuedFor(c)'
BY DEF engineVars, QueuedFor, TakenInOrder, WaitsInOrder, WaitingUpTo, Waiting, Taken, BusyWith

\* The numbers that wait once a message is appended.
LEMMA AppendWaits ==
    ASSUME TypeOK, NEW m \in Commands \cup {Shutdown}, channel' = Append(channel, m),
           NEW c \in Clients
    PROVE  /\ Len(channel') = Len(channel) + 1 /\ DOMAIN channel' = 1..Len(channel')
           /\ channel'[Len(channel) + 1] = m
           /\ \A n \in 1..Len(channel) : channel'[n] = channel[n]
           /\ Waiting(c)' = Waiting(c) \cup {k \in 1..MaxCommands[c] : m = Command(c, k)}
<1>1. channel \in Seq(Commands \cup {Shutdown}) /\ Len(channel) \in Nat
  BY ChannelPlaces
<1>2. /\ Len(channel') = Len(channel) + 1 /\ DOMAIN channel' = 1..Len(channel')
      /\ channel'[Len(channel) + 1] = m
      /\ \A n \in 1..Len(channel) : channel'[n] = channel[n]
  BY <1>1
<1>3. DOMAIN channel = 1..Len(channel) /\ DOMAIN channel' = DOMAIN channel \cup {Len(channel) + 1}
  BY <1>1, <1>2
<1>4. Waiting(c)' = Waiting(c) \cup {k \in 1..MaxCommands[c] : m = Command(c, k)}
  BY <1>2, <1>3 DEF Waiting
<1>5. QED
  BY <1>2, <1>4

\* An append that brings a client nothing changes nothing for it.
LEMMA OthersAppend ==
    ASSUME TypeOK, NEW m \in Commands \cup {Shutdown}, channel' = Append(channel, m),
           UNCHANGED <<engine, hand, served>>,
           NEW c \in Clients, QueuedFor(c), Dispatched(c)' = Dispatched(c),
           \A k : m # Command(c, k)
    PROVE  QueuedFor(c)'
<1>0. {k \in 1..MaxCommands[c] : m = Command(c, k)} = {}
  OBVIOUS
<1>1. /\ Len(channel) \in Nat /\ DOMAIN channel = 1..Len(channel)
      /\ Len(channel') = Len(channel) + 1 /\ DOMAIN channel' = 1..Len(channel')
      /\ channel'[Len(channel) + 1] = m
      /\ \A n \in 1..Len(channel) : channel'[n] = channel[n]
      /\ Waiting(c)' = Waiting(c)
  BY <1>0, AppendWaits, ChannelPlaces
<1>2. TakenInOrder(c)' /\ Taken(c)' = Taken(c)
  BY DEF QueuedFor, TakenInOrder, Taken, BusyWith
<1>3. WaitsInOrder(c)'
  <2> SUFFICES ASSUME NEW i \in DOMAIN channel', NEW j \in DOMAIN channel',
                      NEW k \in 1..MaxCommands[c], NEW l \in 1..MaxCommands[c],
                      i < j, channel'[i] = Command(c, k), channel'[j] = Command(c, l)
               PROVE  k < l
    BY DEF WaitsInOrder
  <2>1. i \in 1..Len(channel) /\ j \in 1..Len(channel)
    BY <1>1
  <2>2. QED
    BY <1>1, <2>1 DEF QueuedFor, WaitsInOrder
<1>4. QED
  BY <1>1, <1>2, <1>3 DEF QueuedFor, WaitingUpTo

\* A client's next command goes behind those that wait.
LEMMA OwnAppend ==
    ASSUME TypeOK, NEW c \in Clients, QueuedFor(c), sent[c] \in 1..MaxCommands[c],
           Dispatched(c) = sent[c] - 1, Dispatched(c)' = sent[c],
           channel' = Append(channel, Command(c, sent[c])), UNCHANGED <<engine, hand, served>>
    PROVE  QueuedFor(c)'
<1> DEFINE m == Command(c, sent[c])
<1>0. m \in Commands
  BY DEF Commands, CommandsOf
<1>1. /\ Len(channel) \in Nat /\ DOMAIN channel = 1..Len(channel)
      /\ Len(channel') = Len(channel) + 1 /\ DOMAIN channel' = 1..Len(channel')
      /\ channel'[Len(channel) + 1] = m
      /\ \A n \in 1..Len(channel) : channel'[n] = channel[n]
      /\ Waiting(c)' = Waiting(c) \cup {k \in 1..MaxCommands[c] : m = Command(c, k)}
  BY <1>0, AppendWaits, ChannelPlaces
<1>2. TakenInOrder(c)' /\ Taken(c)' = Taken(c)
  BY DEF QueuedFor, TakenInOrder, Taken, BusyWith
<1>3. Taken(c) \in Nat /\ sent[c] \in Nat /\ MaxCommands[c] \in Nat
      /\ Taken(c) <= sent[c] - 1 /\ Waiting(c) = (Taken(c) + 1)..(sent[c] - 1)
  BY ChannelPlaces DEF QueuedFor, WaitingUpTo
<1>4. Waiting(c)' = (Taken(c) + 1)..sent[c]
  <2>1. {k \in 1..MaxCommands[c] : m = Command(c, k)} = {sent[c]}
    BY CommandsApart
  <2>2. QED
    BY <1>1, <1>3, <2>1
<1>5. WaitsInOrder(c)'
  <2> SUFFICES ASSUME NEW i \in DOMAIN channel', NEW j \in DOMAIN channel',
                      NEW k \in 1..MaxCommands[c], NEW l \in 1..MaxCommands[c],
                      i < j, channel'[i] = Command(c, k), channel'[j] = Command(c, l)
               PROVE  k < l
    BY DEF WaitsInOrder
  <2>1. i \in 1..Len(channel) /\ (j \in 1..Len(channel) \/ j = Len(channel) + 1)
    BY <1>1
  <2>2. CASE j \in 1..Len(channel)
    BY <1>1, <2>1, <2>2 DEF QueuedFor, WaitsInOrder
  <2>3. CASE j = Len(channel) + 1
    <3>1. l = sent[c]
      BY <1>1, <2>3, CommandsApart
    <3>2. k \in Waiting(c)
      BY <1>1, <2>1 DEF Waiting
    <3>3. QED
      BY <1>3, <3>1, <3>2
  <2>4. QED
    BY <2>1, <2>2, <2>3
<1>6. QED
  BY <1>2, <1>3, <1>4, <1>5 DEF QueuedFor, WaitingUpTo

LEMMA CallQueue ==
    ASSUME SocketInv, NEW c \in Clients, Call(c), NEW d \in Clients, QueuedFor(d)
    PROVE  QueuedFor(d)'
<1>1. TypeOK /\ ClientInv(c) /\ request[c] = Nothing
  BY DEF SocketInv, WireInv, Call, ClientInv, OneLine
<1>2. PICK r \in {Read, Quit} \cup {Command(c, k) : k \in {sent[c] + 1} \cap 1..MaxCommands[c]} :
         IF handler[c] = "done"
         THEN UNCHANGED <<sent, request>>
         ELSE /\ request' = [request EXCEPT ![c] = r]
              /\ sent' = [sent EXCEPT ![c] = IF r \in CommandsOf(c) THEN @ + 1 ELSE @]
  BY DEF Call
<1>3. request \in [Clients -> Lines] /\ sent \in [Clients -> Nat]
  BY <1>1 DEF TypeOK
<1>4. Dispatched(d)' = Dispatched(d)
  <2>1. CASE handler[c] = "done"
    BY <1>2, <2>1 DEF Dispatched
  <2>2. CASE handler[c] # "done" /\ d # c
    BY <1>2, <1>3, <2>2 DEF Dispatched
  <2>3. CASE handler[c] # "done" /\ d = c
    <3>1. request'[c] = r /\ sent'[c] = IF r \in CommandsOf(c) THEN sent[c] + 1 ELSE sent[c]
      BY <1>2, <1>3, <2>3
    <3>2. Nothing \notin CommandsOf(c)
      BY LinesDiffer
    <3>3. QED
      BY <1>1, <1>3, <2>3, <3>1, <3>2 DEF Dispatched
  <2>4. QED
    BY <2>1, <2>2, <2>3
<1>5. QED
  BY <1>4, QueueUntouched DEF Call

LEMMA DispatchQueue ==
    ASSUME SocketInv, EngineReceives, NEW c \in Clients, Dispatch(c),
           NEW d \in Clients, QueuedFor(d)
    PROVE  QueuedFor(d)'
<1>1. TypeOK /\ ClientInv(c)
  BY DEF SocketInv, WireInv
<1>2. /\ request' = [request EXCEPT ![c] = Nothing] /\ request \in [Clients -> Lines]
      /\ sent' = sent /\ sent \in [Clients -> Nat] /\ UNCHANGED <<engine, hand, served>>
      /\ channel' = Queued(channel, request[c]) /\ request[c] # Nothing
  BY <1>1 DEF Dispatch, TakesLine, TypeOK, clientVars
<1>3. request[c] \in RequestsOf(c)
  BY <1>1, <1>2 DEF ClientInv, OwnLines
<1>4. Nothing \notin CommandsOf(c) /\ Nothing \notin CommandsOf(d)
  BY LinesDiffer
<1>5. d # c => Dispatched(d)' = Dispatched(d)
  BY <1>2 DEF Dispatched
<1>6. CASE request[c] \in CommandsOf(c)
  <2>1. /\ request[c] = Command(c, sent[c]) /\ request[c] \in Commands
        /\ channel' = Append(channel, Command(c, sent[c]))
    BY <1>1, <1>2, <1>6, CommandsOfClients DEF ClientInv, LastLine, LastCommand, Queued, Sent
  <2>2. CASE d # c
    <3>1. \A k : Command(c, sent[c]) # Command(d, k)
      BY <2>2, CommandsApart
    <3>2. Command(c, sent[c]) \in Commands \cup {Shutdown}
      BY <2>1
    <3>3. QED
      BY <1>1, <1>2, <1>5, <2>1, <2>2, <3>1, <3>2, OthersAppend
  <2>3. CASE d = c
    <3>1. PICK k \in 1..MaxCommands[c] : request[c] = Command(c, k)
      BY <1>6 DEF CommandsOf
    <3>2. sent[c] \in 1..MaxCommands[c]
      BY <2>1, <3>1, CommandsApart
    <3>3. Dispatched(c) = sent[c] - 1 /\ Dispatched(c)' = sent[c]
      BY <1>2, <1>4, <1>6 DEF Dispatched
    <3>4. QED
      BY <1>1, <1>2, <2>1, <2>3, <3>2, <3>3, OwnAppend
  <2>4. QED
    BY <2>2, <2>3
<1>7. CASE request[c] \notin CommandsOf(c)
  <2>1. request[c] \in {Read, Quit} /\ request[c] \notin Commands
    BY <1>3, <1>7, LinesDiffer DEF RequestsOf, Commands
  <2>2. channel' = channel
    BY <1>2, <2>1 DEF Queued
  <2>3. Dispatched(d)' = Dispatched(d)
    BY <1>2, <1>4, <1>5, <1>7 DEF Dispatched
  <2>4. QED
    BY <1>2, <2>2, <2>3, QueueUntouched DEF engineVars
<1>8. QED
  BY <1>6, <1>7

\* The engine takes the next of one client's commands.
LEMMA ReceiveQueue ==
    ASSUME SocketInv, EngineReceives', Receive, NEW d \in Clients, QueuedFor(d)
    PROVE  QueuedFor(d)'
<1>1. /\ TypeOK /\ engine = "idle" /\ channel # <<>> /\ Head(channel) # Shutdown
      /\ engine' = "busy" /\ channel' = Tail(channel) /\ hand' = Head(channel)
      /\ UNCHANGED <<request, sent, served>>
  BY DEF SocketInv, Receive, EngineReceives, clientVars, wireVars
<1>2. /\ channel \in Seq(Commands \cup {Shutdown}) /\ Len(channel) \in Nat \ {0}
      /\ DOMAIN channel = 1..Len(channel)
      /\ Len(channel') = Len(channel) - 1 /\ DOMAIN channel' = 1..(Len(channel) - 1)
      /\ \A n \in 1..(Len(channel) - 1) : channel'[n] = channel[n + 1]
      /\ hand' = channel[1]
  BY <1>1, ChannelPlaces
<1>3. /\ Taken(d) = Len(served[d]) /\ Taken(d) \in Nat /\ Dispatched(d) \in Nat
      /\ MaxCommands[d] \in Nat
      /\ Taken(d) <= Dispatched(d) /\ Waiting(d) = (Taken(d) + 1)..Dispatched(d)
      /\ WaitsInOrder(d) /\ Dispatched(d)' = Dispatched(d)
  BY <1>1, ChannelPlaces, DispatchedRange DEF Taken, BusyWith, QueuedFor, WaitingUpTo, Dispatched
<1>4. WaitsInOrder(d)'
  <2> SUFFICES ASSUME NEW i \in DOMAIN channel', NEW j \in DOMAIN channel',
                      NEW k \in 1..MaxCommands[d], NEW l \in 1..MaxCommands[d],
                      i < j, channel'[i] = Command(d, k), channel'[j] = Command(d, l)
               PROVE  k < l
    BY DEF WaitsInOrder
  <2>1. i + 1 \in DOMAIN channel /\ j + 1 \in DOMAIN channel /\ i + 1 < j + 1
    BY <1>2
  <2>2. channel[i + 1] = Command(d, k) /\ channel[j + 1] = Command(d, l)
    BY <1>2
  <2>3. QED
    BY <1>3, <2>1, <2>2 DEF WaitsInOrder
<1>5. CASE channel[1] \in CommandsOf(d)
  <2>1. PICK k \in 1..MaxCommands[d] : channel[1] = Command(d, k)
    BY <1>5 DEF CommandsOf
  <2>2. 1 \in DOMAIN channel /\ k \in Waiting(d)
    BY <1>2, <2>1 DEF Waiting
  <2>3. \A l \in Waiting(d) : l = k \/ k < l
    <3> SUFFICES ASSUME NEW l \in Waiting(d), l # k PROVE k < l
      OBVIOUS
    <3>1. PICK n \in DOMAIN channel : channel[n] = Command(d, l)
      BY DEF Waiting
    <3>2. n # 1 /\ l \in 1..MaxCommands[d]
      BY <2>1, <3>1, CommandsApart DEF Waiting
    <3>3. 1 < n
      BY <1>2, <3>2
    <3>4. QED
      BY <1>3, <2>1, <2>2, <3>1, <3>2, <3>3 DEF WaitsInOrder
  <2>4. k = Taken(d) + 1
    <3>1. Taken(d) + 1 \in Waiting(d)
      BY <1>3, <2>2
    <3>2. QED
      BY <1>3, <2>2, <2>3, <3>1
  <2>5. BusyWith(d)' /\ Taken(d)' = Taken(d) + 1
    BY <1>1, <1>2, <1>3, <1>5 DEF BusyWith, Taken, CommandsOf
  <2>6. TakenInOrder(d)'
    BY <1>1, <1>2, <2>1, <2>4, <2>5 DEF QueuedFor, TakenInOrder
  <2>7. Waiting(d)' = Waiting(d) \ {k}
    <3>1. ASSUME NEW l \in Waiting(d)' PROVE l \in Waiting(d) /\ l # k
      <4>1. PICK n \in DOMAIN channel' : channel'[n] = Command(d, l)
        BY DEF Waiting
      <4>2. n + 1 \in DOMAIN channel /\ channel[n + 1] = Command(d, l) /\ 1 < n + 1
        BY <1>2, <4>1
      <4>3. l \in 1..MaxCommands[d]
        BY DEF Waiting
      <4>4. k < l
        BY <1>3, <2>1, <2>2, <4>2, <4>3 DEF WaitsInOrder
      <4>5. QED
        BY <1>3, <4>2, <4>3, <4>4 DEF Waiting
    <3>2. ASSUME NEW l \in Waiting(d), l # k PROVE l \in Waiting(d)'
      <4>1. PICK n \in DOMAIN channel : channel[n] = Command(d, l)
        BY DEF Waiting
      <4>2. n # 1
        BY <2>1, <3>2, <4>1, CommandsApart
      <4>3. n - 1 \in DOMAIN channel' /\ channel'[n - 1] = Command(d, l)
        BY <1>2, <4>1, <4>2
      <4>4. l \in 1..MaxCommands[d]
        BY DEF Waiting
      <4>5. QED
        BY <4>3, <4>4 DEF Waiting
    <3>3. QED
      BY <3>1, <3>2
  <2>8. WaitingUpTo(d, Dispatched(d))'
    BY <1>3, <2>2, <2>4, <2>5, <2>7 DEF WaitingUpTo
  <2>9. QED
    BY <1>4, <2>6, <2>8 DEF QueuedFor
<1>6. CASE channel[1] \notin CommandsOf(d)
  <2>1. ~ BusyWith(d)' /\ Taken(d)' = Taken(d)
    BY <1>1, <1>2, <1>3, <1>6 DEF BusyWith, Taken, CommandsOf
  <2>2. TakenInOrder(d)'
    BY <1>1, <2>1 DEF QueuedFor, TakenInOrder
  <2>3. Waiting(d)' = Waiting(d)
    <3>1. ASSUME NEW l \in Waiting(d)' PROVE l \in Waiting(d)
      <4>1. PICK n \in DOMAIN channel' : channel'[n] = Command(d, l)
        BY DEF Waiting
      <4>2. n + 1 \in DOMAIN channel /\ channel[n + 1] = Command(d, l)
        BY <1>2, <4>1
      <4>3. QED
        BY <4>2 DEF Waiting
    <3>2. ASSUME NEW l \in Waiting(d) PROVE l \in Waiting(d)'
      <4>1. PICK n \in DOMAIN channel : channel[n] = Command(d, l)
        BY DEF Waiting
      <4>2. n # 1
        BY <1>6, <4>1 DEF Waiting, CommandsOf
      <4>3. n - 1 \in DOMAIN channel' /\ channel'[n - 1] = Command(d, l)
        BY <1>2, <4>1, <4>2
      <4>4. QED
        BY <4>3 DEF Waiting
    <3>3. QED
      BY <3>1, <3>2
  <2>4. QED
    BY <1>3, <1>4, <2>1, <2>2, <2>3 DEF QueuedFor, WaitingUpTo
<1>7. QED
  BY <1>5, <1>6

\* What was in hand is done.
LEMMA FinishQueue ==
    ASSUME SocketInv, Finish, NEW d \in Clients, QueuedFor(d)
    PROVE  QueuedFor(d)'
<1>1. /\ TypeOK /\ engine = "busy" /\ engine' = "idle" /\ hand \in Commands
      /\ served' = [served EXCEPT ![hand[2]] = Append(@, hand)]
      /\ UNCHANGED <<channel, request, sent>>
  BY DEF SocketInv, BusyInv, Finish, clientVars, wireVars
<1>2. /\ served \in [Clients -> Seq(Commands)] /\ hand[2] \in Clients
      /\ served[d] \in Seq(Commands) /\ Len(served[d]) \in Nat
  BY <1>1, CommandsOfClients, ChannelPlaces DEF TypeOK
<1>3. Waiting(d)' = Waiting(d) /\ Dispatched(d)' = Dispatched(d) /\ WaitsInOrder(d)'
  BY <1>1 DEF QueuedFor, Waiting, Dispatched, WaitsInOrder
<1>4. ~ BusyWith(d)' /\ Taken(d)' = Len(served'[d])
  BY <1>1 DEF BusyWith, Taken
<1>5. CASE hand \in CommandsOf(d)
  <2>1. hand[2] = d /\ served'[d] = Append(served[d], hand)
    BY <1>1, <1>2, <1>5, CommandsApart DEF CommandsOf
  <2>2. /\ Len(served'[d]) = Len(served[d]) + 1 /\ served'[d][Len(served[d]) + 1] = hand
        /\ \A k \in 1..Len(served[d]) : served'[d][k] = served[d][k]
    BY <1>1, <1>2, <2>1
  <2>3. Taken(d) = Len(served[d]) + 1 /\ BusyWith(d)
    BY <1>1, <1>5 DEF Taken, BusyWith
  <2>4. TakenInOrder(d)'
    <3> SUFFICES ASSUME NEW k \in 1..Len(served'[d]) PROVE served'[d][k] = Command(d, k)
      BY <1>4 DEF TakenInOrder
    <3>1. CASE k \in 1..Len(served[d])
      BY <2>2, <3>1 DEF QueuedFor, TakenInOrder
    <3>2. CASE k = Len(served[d]) + 1
      BY <2>2, <2>3, <3>2 DEF QueuedFor, TakenInOrder
    <3>3. QED
      BY <1>2, <2>2, <3>1, <3>2
  <2>5. QED
    BY <1>3, <1>4, <2>2, <2>3, <2>4 DEF QueuedFor, WaitingUpTo
<1>6. CASE hand \notin CommandsOf(d)
  <2>1. hand[2] # d
    BY <1>1, <1>6, CommandsApart DEF Commands, CommandsOf
  <2>2. served'[d] = served[d] /\ Taken(d) = Len(served[d])
    BY <1>1, <1>2, <1>6, <2>1 DEF Taken, BusyWith
  <2>3. QED
    BY <1>3, <1>4, <2>2 DEF QueuedFor, WaitingUpTo, TakenInOrder
<1>7. QED
  BY <1>5, <1>6

LEMMA WakeQueue ==
    ASSUME SocketInv, EngineReceives, Wake, NEW d \in Clients, QueuedFor(d)
    PROVE  QueuedFor(d)'
<1>1. /\ TypeOK /\ channel' = Append(channel, Shutdown)
      /\ UNCHANGED <<engine, hand, served, request, sent>>
  BY DEF SocketInv, Wake, Sent, clientVars, wireVars
<1>2. Dispatched(d)' = Dispatched(d)
  BY <1>1 DEF Dispatched
<1>3. QED
  BY <1>1, <1>2, OthersAppend, CommandsApart

\* A step after which the engine still receives keeps every client's queue.
LEMMA QueueStep == SocketInv /\ QueueInv /\ [Next]_vars => QueueInv'
<1> SUFFICES ASSUME SocketInv, QueueInv, [Next]_vars, EngineReceives', NEW d \in Clients
             PROVE  QueuedFor(d)'
  BY DEF QueueInv
<1>1. ASSUME UNCHANGED <<engineVars, sent, request>> PROVE QueuedFor(d)'
  <2>1. QueuedFor(d)
    BY <1>1 DEF QueueInv, EngineReceives, engineVars
  <2>2. Dispatched(d)' = Dispatched(d)
    BY <1>1 DEF Dispatched
  <2>3. QED
    BY <1>1, <2>1, <2>2, QueueUntouched
<1>2. ASSUME NEW c \in Clients, Client(c) PROVE QueuedFor(d)'
  <2>1. CASE Call(c)
    <3>1. QueuedFor(d)
      BY <2>1 DEF Call, engineVars, EngineReceives, QueueInv
    <3>2. QED
      BY <2>1, <3>1, CallQueue
  <2>2. CASE Connect(c) \/ Return(c)
    BY <1>1, <2>2 DEF Connect, Return
  <2>3. CASE CallFails(c) \/ Leave(c)
    BY <1>1, <2>3 DEF CallFails, Leave, wireVars
  <2>4. QED
    BY <1>2, <2>1, <2>2, <2>3 DEF Client
<1>3. ASSUME NEW c \in Clients, Handler(c) PROVE QueuedFor(d)'
  <2>1. CASE Dispatch(c)
    <3>1. EngineReceives
      BY <2>1 DEF Dispatch, EngineReceives
    <3>2. QED
      BY <2>1, <3>1, DispatchQueue DEF QueueInv
  <2>2. CASE Accept(c) \/ Reply(c)
    BY <1>1, <2>2 DEF Accept, Reply, clientVars
  <2>3. CASE Notify(c) \/ Disconnected(c)
    BY <1>1, <2>3 DEF Notify, Disconnected, clientVars
  <2>4. QED
    BY <1>3, <2>1, <2>2, <2>3 DEF Handler
<1>4. CASE Receive
  BY <1>4, ReceiveQueue DEF Receive, EngineReceives, QueueInv
<1>5. CASE Finish
  BY <1>5, FinishQueue DEF Finish, EngineReceives, QueueInv
<1>6. CASE Wake
  BY <1>6, WakeQueue DEF Wake, EngineReceives, QueueInv
<1>7. CASE CloseSocket
  BY <1>1, <1>7 DEF CloseSocket, clientVars
<1>8. CASE Exit
  BY <1>8 DEF Exit, EngineReceives
<1>9. CASE UNCHANGED vars
  BY <1>1, <1>9 DEF vars, clientVars, wireVars
<1>10. QED
  BY <1>2, <1>3, <1>4, <1>5, <1>6, <1>7, <1>8, <1>9 DEF Next, Engine, Main

\* Nothing waits at first.
LEMMA QueueInit == Init => QueueInv
<1> SUFFICES ASSUME Init, NEW c \in Clients PROVE QueuedFor(c)
  BY DEF QueueInv
<1>1. /\ sent[c] = 0 /\ request[c] = Nothing /\ channel = <<>> /\ served[c] = <<>>
      /\ engine # "busy"
  BY DEF Init
<1>2. Waiting(c) = {} /\ Taken(c) = 0 /\ Dispatched(c) = 0
  BY <1>1, LinesDiffer DEF Waiting, Taken, BusyWith, Dispatched
<1>3. TakenInOrder(c) /\ WaitsInOrder(c)
  BY <1>1 DEF TakenInOrder, WaitsInOrder, BusyWith
<1>4. QED
  BY <1>2, <1>3 DEF QueuedFor, WaitingUpTo

\* With what was dispatched, the invariant is the property.
LEMMA QueueAnswered == SocketInv /\ QueueInv => AnsweredIsQueued
BY DispatchedRange DEF AnsweredIsQueued, QueueInv, QueuedFor

-----------------------------------------------------------------------------
(* The results *)

\* In every reachable state each connection carries one line at a time, and a
\* Quit on its way to main has been answered: for any number of clients and of
\* commands (socket_control.rs, handle_connection; socket_client.rs, call).
THEOREM SocketInvariant == Spec => []SocketInv
<1>1. QED
  BY InitInv, StepInv, PTL DEF Spec

\* Every variable of the control channel has its type, and no client has more
\* answers than it sent commands.
THEOREM SocketTypeCorrect == Spec => []TypeOK
<1>1. SocketInv => TypeOK
  BY DEF SocketInv
<1>2. QED
  BY <1>1, SocketInvariant, PTL

\* Since handle_connection replies before it notifies, no client whose Quit
\* ends the daemon is told that its call failed.
THEOREM QuitIsAnswered == Spec => []QuitIsNotReportedFailed
<1>1. SocketInv => QuitIsNotReportedFailed
  BY DEF SocketInv, WireInv, ClientInv, QuitAnswered, QuitIsNotReportedFailed, TypeOK
<1>2. QED
  BY <1>1, SocketInvariant, PTL

\* A Unit is written once the command is in the channel (dispatch,
\* socket_control.rs), and the engine takes the channel in order: whatever a
\* client was told "ok" for is done, in hand or waiting, once and in its order,
\* for as long as the engine thread is there, for any number of clients and of
\* commands.
THEOREM AnswersAreKept == Spec => []AnsweredIsQueued
<1>1. Init => QueueInv
  BY QueueInit
<1>2. SocketInv /\ QueueInv /\ [Next]_vars => QueueInv'
  BY QueueStep
<1>3. SocketInv /\ QueueInv => AnsweredIsQueued
  BY QueueAnswered
<1>4. QED
  BY <1>1, <1>2, <1>3, SocketInvariant, PTL DEF Spec
=============================================================================
