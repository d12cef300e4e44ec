-------------------------- MODULE IdleTimer_proofs --------------------------
(***************************************************************************)
(* A client keeps the daemon for the whole timeout, whatever the timeout   *)
(* and the check interval are and wherever between two checks it calls.    *)
(***************************************************************************)
EXTENDS IdleTimer, TLAPS

\* As long as no call is waiting to be noticed, the time the timer has counted
\* since it noticed one, with what it will have counted when it wakes, is time
\* that has passed since the last call.
CountIsBelowTimeout == timer \in {"sleeping", "asking"} => idle_for <= Timeout
CountedSinceCall ==
    ~activity => /\ timer = "sleeping" => idle_for + CheckInterval <= since_call + wake
                 /\ timer = "asking" => idle_for + CheckInterval <= since_call
TimerInv == TypeOK /\ CountIsBelowTimeout /\ CountedSinceCall

LEMMA IntervalIsNat == CheckInterval \in Nat /\ CheckInterval <= CheckCap
BY TimesAssumption DEF CheckInterval

LEMMA InitInv == Init => TimerInv
<1> SUFFICES ASSUME Init
             PROVE  TimerInv
  OBVIOUS
<1>1. TypeOK
  <2>1. activity \in BOOLEAN /\ pending \in BOOLEAN /\ playing \in BOOLEAN
    BY Zenon DEF Init
  <2>2. /\ timer \in {"sleeping", "asking", "firing", "fired"}
        /\ wake \in 0..CheckInterval /\ idle_for \in Nat
        /\ since_call \in 0..Horizon
    BY IntervalIsNat, TimesAssumption DEF Init
  <2>3. QED
    BY <2>1, <2>2 DEF TypeOK
<1>2. CountIsBelowTimeout /\ CountedSinceCall
  BY IntervalIsNat, TimesAssumption DEF Init, CountIsBelowTimeout, CountedSinceCall
<1>3. QED
  BY <1>1, <1>2 DEF TimerInv

\* Time that passes is counted by the clock at least as fast as by the sleep.
LEMMA TickStep == TimerInv /\ Tick => TimerInv'
<1> SUFFICES ASSUME TimerInv, Tick
             PROVE  TimerInv'
  OBVIOUS
<1> USE IntervalIsNat, TimesAssumption DEF TimerInv, Tick
<1>1. since_call' \in 0..Horizon /\ wake' \in 0..CheckInterval
  BY DEF TypeOK, Later
<1>2. TypeOK'
  BY <1>1 DEF TypeOK
<1>3. CountedSinceCall'
  BY DEF TypeOK, CountedSinceCall, CountIsBelowTimeout, Later
<1>4. QED
  BY <1>2, <1>3 DEF CountIsBelowTimeout

LEMMA OtherSteps ==
    ASSUME TimerInv, [Next]_vars
    PROVE  TimerInv'
<1> USE IntervalIsNat, TimesAssumption
    DEF TimerInv, TypeOK, CountIsBelowTimeout, CountedSinceCall,
        timerVars, clientVars
<1>1. CASE SendCommand
  BY <1>1 DEF SendCommand
<1>2. CASE PollStatus
  BY <1>2 DEF PollStatus
<1>3. CASE ServeCommand
  <2>1. pending' \in BOOLEAN /\ playing' \in BOOLEAN
    BY <1>3 DEF ServeCommand
  <2>2. UNCHANGED <<timer, wake, idle_for, activity, since_call>>
    BY <1>3 DEF ServeCommand
  <2>3. TypeOK'
    BY <2>1, <2>2
  <2>4. QED
    BY <2>2, <2>3
<1>4. CASE MusicEnds
  BY <1>4 DEF MusicEnds
<1>5. CASE TakeActivity
  <2>1. /\ timer = "sleeping" /\ wake = 0 /\ activity' = FALSE
        /\ activity' \in BOOLEAN
        /\ UNCHANGED <<pending, since_call, playing>>
    BY <1>5, Zenon DEF TakeActivity
  <2>2. CASE activity
    <3>1. timer' = "sleeping" /\ wake' = CheckInterval /\ idle_for' = 0
      BY <1>5, <2>2 DEF TakeActivity, Sleep
    <3>2. TypeOK'
      BY <2>1, <3>1
    <3>3. CountIsBelowTimeout'
      BY <3>1
    <3>4. CountedSinceCall'
      BY <2>1, <3>1
    <3>5. QED
      BY <3>2, <3>3, <3>4
  <2>3. CASE ~activity
    <3>1. timer' = "asking" /\ UNCHANGED <<wake, idle_for>>
      BY <1>5, <2>3 DEF TakeActivity
    <3>2. TypeOK'
      BY <2>1, <3>1
    <3>3. CountIsBelowTimeout'
      BY <2>1, <3>1
    <3>4. CountedSinceCall'
      BY <2>1, <2>3, <3>1
    <3>5. QED
      BY <3>2, <3>3, <3>4
  <2>4. QED
    BY <2>2, <2>3
<1>6. CASE SeePlaying
  BY <1>6 DEF SeePlaying, Sleep
<1>7. CASE SeeIdle
  BY <1>7 DEF SeeIdle, Sleep
<1>8. CASE Fire
  BY <1>8 DEF Fire
<1>9. CASE Tick
  BY <1>9, TickStep
<1>10. CASE UNCHANGED vars
  BY <1>10 DEF vars
<1>11. QED
  BY <1>1, <1>2, <1>3, <1>4, <1>5, <1>6, <1>7, <1>8, <1>9, <1>10
     DEF Next, ClientCalls, Timer

\* The count is right in every reachable state.
THEOREM TimerInvariant == Spec => []TimerInv
<1>1. QED
  BY InitInv, OtherSteps, PTL DEF Spec

\* The timer decides to end the daemon only when the last call it could know
\* of lies a whole timeout back.
THEOREM ClientsKeepTheDaemon == Spec => ClientGetsTimeout
<1>1. ASSUME TimerInv, [Next]_vars
      PROVE  [Decides /\ ~activity => since_call >= Timeout]_vars
  <2> SUFFICES ASSUME Decides, ~activity
               PROVE  since_call >= Timeout
    OBVIOUS
  <2>1. SeeIdle \/ UNCHANGED vars
    BY <1>1 DEF Decides, Next, ClientCalls, Timer, SendCommand, PollStatus, ServeCommand,
                MusicEnds, TakeActivity, SeePlaying, Fire, Tick, Sleep, timerVars
  <2>2. SeeIdle
    BY <2>1 DEF Decides, vars, timerVars
  <2>3. idle_for + CheckInterval >= Timeout
    BY <2>2, IntervalIsNat DEF SeeIdle, Sleep, Decides
  <2>4. idle_for + CheckInterval <= since_call
    BY <1>1 DEF TimerInv, CountedSinceCall, Decides
  <2>5. QED
    BY <1>1, <2>3, <2>4, IntervalIsNat, TimesAssumption DEF TimerInv, TypeOK
<1>2. QED
  BY <1>1, TimerInvariant, PTL DEF Spec, ClientGetsTimeout
=============================================================================
