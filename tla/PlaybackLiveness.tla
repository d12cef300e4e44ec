-------------------------- MODULE PlaybackLiveness --------------------------
(***************************************************************************)
(* What PlaybackEngine gets done on its own.  Clients send commands for as *)
(* long as they like and then fall silent: `quiet`.  From there on only    *)
(* the engine's own steps and the audio are left.                          *)
(*                                                                         *)
(* Silence matters: recv_timeout starts its POLL_INTERVAL anew after each  *)
(* command, so clients that send faster than that keep the engine from     *)
(* ever polling, and a track that ended from ever being followed.          *)
(***************************************************************************)
EXTENDS PlaybackEngine

VARIABLE quiet

liveVars == <<vars, quiet>>

LiveInit == Init /\ quiet = FALSE

FallSilent == ~quiet /\ quiet' = TRUE /\ UNCHANGED vars

LiveNext ==
    \/ ~quiet /\ Command /\ UNCHANGED quiet
    \/ (Engine \/ Audio) /\ UNCHANGED quiet
    \/ FallSilent
    \/ Exited /\ UNCHANGED quiet

\* The thread runs; its HTTP client gives up on a stream that stalls, so a
\* load ends one way or the other; recv_timeout elapses when no command comes;
\* and a source that is played comes to its end.
Fairness ==
    /\ WF_liveVars(OpenOutput /\ UNCHANGED quiet)
    /\ WF_liveVars((LoadSucceeds \/ LoadFails) /\ UNCHANGED quiet)
    /\ WF_liveVars(quiet /\ Poll /\ UNCHANGED quiet)
    /\ WF_liveVars(SinkEnds /\ UNCHANGED quiet)

LiveSpec == LiveInit /\ [][LiveNext]_liveVars /\ Fairness

-----------------------------------------------------------------------------
Plays == pc # "exited" /\ snap.status = "playing"

\* Left alone with repeat off, the engine plays its queue to the end and says
\* so: no edit or shuffle has left it an order it goes around in, and no
\* exhausted sink goes unnoticed.
PlaysToTheEnd == quiet /\ repeat = "off" ~> ~Plays

\* Left alone with repeat = queue, it comes to every entry of the queue, lap
\* after lap, shuffled or not, unless a track fails to load.
VisitsEveryEntry ==
    \A i \in InputIndices :
        quiet /\ repeat = "queue" /\ i < Len(queue) ~> index = i \/ ~Plays
=============================================================================
