------------------------ MODULE DaemonLifecycle_proofs ------------------------
(***************************************************************************)
(* However many daemons are started, stopped and crash, the one that       *)
(* serves is reachable at the socket's path.                               *)
(***************************************************************************)
EXTENDS DaemonLifecycle, TLAPS

\* From flock() to the drop of the guard.
Holding == {"locked", "named", "cleared", "serving", "stopping", "leaving"}

\* What makes removing and binding by path safe: only the one holder does it.
HoldersHold == \A d \in Daemons : pc[d] \in Holding => lock = d

DaemonInv == TypeOK /\ HoldersHold /\ ServingIsReachable

LEMMA InitInv == Init => DaemonInv
BY DaemonAssumption
   DEF Init, DaemonInv, TypeOK, HoldersHold, ServingIsReachable, Holding, Owners

\* A process that ends takes the lock, if it has it, with it.
LEMMA EndsKeepsInv ==
    ASSUME DaemonInv, NEW d \in Daemons, Ends(d),
           UNCHANGED <<pidfile, socket, tui>>, stops' \in 0..MaxStops
    PROVE  DaemonInv'
<1>1. /\ TypeOK /\ HoldersHold /\ ServingIsReachable
      /\ pc' = [pc EXCEPT ![d] = "gone"]
      /\ lock' = IF lock = d THEN NoDaemon ELSE lock
  BY DEF DaemonInv, Ends
<1>2. TypeOK'
  BY <1>1 DEF TypeOK, Owners
<1>3. HoldersHold'
  <2> SUFFICES ASSUME NEW e \in Daemons, pc'[e] \in Holding
               PROVE  lock' = e
    BY DEF HoldersHold
  <2>1. e # d /\ pc'[e] = pc[e]
    BY <1>1 DEF TypeOK, Holding
  <2>2. QED
    BY <1>1, <2>1 DEF HoldersHold
<1>4. ServingIsReachable'
  BY <1>1 DEF TypeOK, ServingIsReachable
<1>5. QED
  BY <1>2, <1>3, <1>4 DEF DaemonInv

\* A process that goes on, without the lock being given or taken, and with the
\* path its own if it serves: what the others are promised stays.
LEMMA GoesKeepsInv ==
    ASSUME DaemonInv, NEW d \in Daemons, NEW from, NEW to, Goes(d, from, to),
           to \in {"started", "opened", "locked", "named", "cleared", "serving",
                   "stopping", "leaving", "gone"},
           to \in Holding => lock' = d,
           lock' = lock \/ lock = NoDaemon,
           lock' \in Daemons \cup {NoDaemon},
           socket' = socket \/ (from \in Holding /\ socket' \in Owners),
           to = "serving" => socket' = d,
           pidfile' \in Owners, stops' \in 0..MaxStops,
           tui' \in [Tuis -> {"starting", "absent", "waiting", "connected", "failed"}]
    PROVE  DaemonInv'
<1>1. /\ TypeOK /\ HoldersHold /\ ServingIsReachable
      /\ pc[d] = from /\ pc' = [pc EXCEPT ![d] = to]
  BY DEF DaemonInv, Goes
<1>2. TypeOK'
  BY <1>1 DEF TypeOK
<1>3. \A e \in Daemons : e # d => pc'[e] = pc[e]
  BY <1>1 DEF TypeOK
<1>4. pc'[d] = to
  BY <1>1 DEF TypeOK
<1>5. HoldersHold'
  <2> SUFFICES ASSUME NEW e \in Daemons, pc'[e] \in Holding
               PROVE  lock' = e
    BY DEF HoldersHold
  <2>1. CASE e = d
    BY <1>4, <2>1
  <2>2. CASE e # d
    BY <1>1, <1>3, <2>2, DaemonAssumption DEF HoldersHold
  <2>3. QED
    BY <2>1, <2>2
<1>6. ServingIsReachable'
  <2> SUFFICES ASSUME NEW e \in Daemons, pc'[e] = "serving"
               PROVE  socket' = e
    BY DEF ServingIsReachable
  <2>1. CASE e = d
    BY <1>4, <2>1
  <2>2. CASE e # d
    <3>1. pc[e] = "serving" /\ lock = e /\ socket = e
      BY <1>1, <1>3, <2>2 DEF HoldersHold, ServingIsReachable, Holding
    <3>2. from \notin Holding
      BY <1>1, <2>2, <3>1 DEF HoldersHold
    <3>3. QED
      BY <3>1, <3>2
  <2>3. QED
    BY <2>1, <2>2
<1>7. QED
  BY <1>2, <1>5, <1>6 DEF DaemonInv

LEMMA StepInv ==
    ASSUME DaemonInv, [Next]_vars
    PROVE  DaemonInv'
<1> USE DaemonAssumption
<1>0. TypeOK /\ HoldersHold /\ ServingIsReachable
  BY DEF DaemonInv
<1>1. ASSUME NEW d \in Daemons, OpenPidfile(d)
      PROVE  DaemonInv'
  BY <1>0, <1>1, GoesKeepsInv DEF OpenPidfile, TypeOK, Owners, Holding
<1>2. ASSUME NEW d \in Daemons, Lock(d)
      PROVE  DaemonInv'
  BY <1>0, <1>2, GoesKeepsInv DEF Lock, TypeOK, Owners, Holding
<1>3. ASSUME NEW d \in Daemons, LockRefused(d)
      PROVE  DaemonInv'
  BY <1>0, <1>3, EndsKeepsInv DEF LockRefused, TypeOK
<1>4. ASSUME NEW d \in Daemons, WritePid(d)
      PROVE  DaemonInv'
  <2>1. Goes(d, "locked", "named") /\ lock' = lock /\ lock = d
    BY <1>0, <1>4 DEF WritePid, Goes, HoldersHold, Holding
  <2>2. QED
    BY <1>0, <1>4, <2>1, GoesKeepsInv DEF WritePid, TypeOK, Owners, Holding
<1>5. ASSUME NEW d \in Daemons, RemoveStaleSocket(d)
      PROVE  DaemonInv'
  <2>1. Goes(d, "named", "cleared") /\ lock' = lock /\ lock = d
    BY <1>0, <1>5 DEF RemoveStaleSocket, Goes, HoldersHold, Holding
  <2>2. QED
    BY <1>0, <1>5, <2>1, GoesKeepsInv DEF RemoveStaleSocket, TypeOK, Owners, Holding
<1>6. ASSUME NEW d \in Daemons, Bind(d)
      PROVE  DaemonInv'
  <2>1. Goes(d, "cleared", "serving") /\ lock' = lock /\ lock = d
    BY <1>0, <1>6 DEF Bind, Goes, HoldersHold, Holding
  <2>2. QED
    BY <1>0, <1>6, <2>1, GoesKeepsInv DEF Bind, TypeOK, Owners, Holding
<1>7. ASSUME NEW d \in Daemons, BindFails(d)
      PROVE  DaemonInv'
  <2>1. stops' \in 0..MaxStops
    BY <1>0, <1>7 DEF BindFails, TypeOK
  <2>2. QED
    BY <1>7, <2>1, EndsKeepsInv DEF BindFails
<1>8. ASSUME NEW d \in Daemons, Stop(d)
      PROVE  DaemonInv'
  <2>1. Goes(d, "serving", "stopping") /\ lock' = lock /\ lock = d
    BY <1>0, <1>8 DEF Stop, Goes, HoldersHold, Holding
  <2>2. stops' \in 0..MaxStops
    BY <1>0, <1>8 DEF Stop, TypeOK
  <2>3. QED
    BY <1>0, <1>8, <2>1, <2>2, GoesKeepsInv DEF Stop, TypeOK, Owners, Holding
<1>9. ASSUME NEW d \in Daemons, RemoveSocket(d)
      PROVE  DaemonInv'
  <2>1. Goes(d, "stopping", "leaving") /\ lock' = lock /\ lock = d
    BY <1>0, <1>9 DEF RemoveSocket, Goes, HoldersHold, Holding
  <2>2. QED
    BY <1>0, <1>9, <2>1, GoesKeepsInv DEF RemoveSocket, TypeOK, Owners, Holding
<1>10. ASSUME NEW d \in Daemons, Exit(d)
       PROVE  DaemonInv'
  BY <1>0, <1>10, EndsKeepsInv DEF Exit, TypeOK
<1>11. ASSUME NEW d \in Daemons, Crash(d)
       PROVE  DaemonInv'
  <2>1. stops' \in 0..MaxStops
    BY <1>0, <1>11 DEF Crash, TypeOK
  <2>2. QED
    BY <1>11, <2>1, EndsKeepsInv DEF Crash
<1>12. ASSUME NEW t \in Tuis, TuiStep(t)
       PROVE  DaemonInv'
  <2>1. CASE SpawnDaemon(t)
    <3>1. PICK d \in Daemons : Goes(d, "unstarted", "started")
      BY <2>1 DEF SpawnDaemon
    <3>2. tui' = [tui EXCEPT ![t] = "waiting"] /\ UNCHANGED <<lock, pidfile, socket, stops>>
      BY <2>1 DEF SpawnDaemon, Becomes
    <3>3. QED
      BY <1>0, <3>1, <3>2, GoesKeepsInv DEF TypeOK, Holding
  <2>2. CASE Probe(t) \/ Poll(t) \/ GiveUp(t)
    <3>1. /\ tui' \in [Tuis -> {"starting", "absent", "waiting", "connected", "failed"}]
          /\ UNCHANGED <<pc, lock, pidfile, socket, stops>>
      BY <1>0, <2>2 DEF Probe, Poll, GiveUp, Becomes, TypeOK
    <3>2. QED
      BY <1>0, <3>1 DEF DaemonInv, TypeOK, HoldersHold, ServingIsReachable
  <2>3. QED
    BY <1>12, <2>1, <2>2 DEF TuiStep
<1>13. CASE StartByHand
  <2>1. PICK d \in Daemons : Goes(d, "unstarted", "started")
    BY <1>13 DEF StartByHand
  <2>2. UNCHANGED <<lock, pidfile, socket, stops, tui>>
    BY <1>13 DEF StartByHand
  <2>3. QED
    BY <1>0, <2>1, <2>2, GoesKeepsInv DEF TypeOK, Holding
<1>14. CASE UNCHANGED vars
  BY <1>0, <1>14 DEF vars, DaemonInv, TypeOK, HoldersHold, ServingIsReachable
<1>15. QED
  BY <1>1, <1>2, <1>3, <1>4, <1>5, <1>6, <1>7, <1>8, <1>9, <1>10, <1>11, <1>12,
     <1>13, <1>14 DEF Next, DaemonStep

\* Whoever is between flock() and its drop holds the lock, alone.
THEOREM DaemonInvariant == Spec => []DaemonInv
<1>1. QED
  BY InitInv, StepInv, PTL DEF Spec

\* Every variable has its type: the lock is with a process, or free.
THEOREM LifecycleTypeCorrect == Spec => []TypeOK
<1>1. DaemonInv => TypeOK
  BY DEF DaemonInv
<1>2. QED
  BY <1>1, DaemonInvariant, PTL

\* A serving daemon is the one found at the path, for any number of processes,
\* stops and crashes.
THEOREM ServerIsReachable == Spec => []ServingIsReachable
<1>1. DaemonInv => ServingIsReachable
  BY DEF DaemonInv
<1>2. QED
  BY <1>1, DaemonInvariant, PTL
=============================================================================
