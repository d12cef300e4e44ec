--------------------------- MODULE SideTasks_proofs ---------------------------
(***************************************************************************)
(* The panels show the current song's art and lyrics, and lyrics that are  *)
(* loading are under way, for any songs and any number of fetches; one     *)
(* update task at a time, told by the state on screen.                     *)
(***************************************************************************)
EXTENDS SideTasks, FiniteSetTheorems, TLAPS

\* TypeOK in its two halves.
PanelTypes ==
    /\ step \in Panels \cup {"status", "updates", "key"}
    /\ wanted \in [Panels -> Keys \cup {NoKey}] /\ shown \in [Panels -> Keys \cup {NoKey}]
    /\ fetching \in [Panels -> [Keys -> 0..MaxFetches]]
    /\ arrived \in [Panels -> Seq(Keys)]
    /\ on_settings \in BOOLEAN
UpdateTypes ==
    /\ update_state \in {"idle", "checking", "upToDate", "available", "confirm",
                         "applying", "applied", "failed"}
    /\ log \in Seq(Packages) /\ Len(log) <= LogLines
    /\ updates \in Seq(Events)
    /\ tasks \in [1..MaxTasks -> {"none", "check"} \cup Packages]
    /\ installed \subseteq Packages

PanelInv == PanelTypes /\ PanelsShowCurrentSong /\ LoadingIsUnderWay
SideInv == PanelInv /\ UpdateTypes

LEMMA KeyType ==
    ASSUME NEW p \in Panels, NEW song \in Songs \cup {NoSong}
    PROVE  Key(p, song) \in Keys \cup {NoKey}
<1>1. CASE song = NoSong
  <2>1. Key(p, song) = NoKey
    BY <1>1 DEF Key
  <2>2. QED
    BY <2>1
<1>2. CASE song # NoSong /\ p = "lyrics"
  <2>1. Key(p, song) = song
    BY <1>2, Zenon DEF Key
  <2>2. QED
    BY <1>2, <2>1 DEF Keys
<1>3. CASE song # NoSong /\ p = "art"
  <2>1. Key(p, song) = ArtUrl[song]
    BY <1>3 DEF Key
  <2>2. QED
    BY <1>3, <2>1 DEF Keys
<1>4. QED
  BY <1>1, <1>2, <1>3 DEF Panels

LEMMA NoKeyIsNoKey == NoKey \notin Keys
BY SideAssumption DEF Keys

LEMMA InitInv == Init => SideInv
<1> SUFFICES ASSUME Init
             PROVE  SideInv
  OBVIOUS
<1>1. on_settings \in BOOLEAN
  BY Zenon DEF Init
<1>2. PanelTypes
  BY <1>1, SideAssumption DEF Init, PanelTypes, Panels
<1>3. PanelsShowCurrentSong /\ LoadingIsUnderWay
  BY DEF Init, PanelsShowCurrentSong, LoadingIsUnderWay, Panels
<1>4. UpdateTypes
  BY SideAssumption DEF Init, UpdateTypes
<1>5. QED
  BY <1>2, <1>3, <1>4 DEF SideInv, PanelInv

\* A status of another song forgets what is shown and starts a fetch.
LEMMA FetchStatusStep ==
    ASSUME PanelInv, NEW song \in Songs \cup {NoSong}, FetchStatus(song)
    PROVE  PanelInv'
<1> DEFINE key == NewKeys(song)
           fetched == {p \in Panels : key[p] \notin {wanted[p], NoKey}}
<1>0. PanelTypes /\ PanelsShowCurrentSong /\ LoadingIsUnderWay /\ "lyrics" \in Panels
  BY DEF PanelInv, Panels
<1>1. key \in [Panels -> Keys \cup {NoKey}]
  BY KeyType DEF NewKeys
<1>2. /\ \A p \in fetched : fetching[p][key[p]] < MaxFetches
      /\ wanted' = key /\ step' = "art"
      /\ shown' = [p \in Panels |-> IF wanted'[p] = wanted[p] THEN shown[p] ELSE NoKey]
      /\ fetching' = [p \in Panels |-> [k \in Keys |->
            fetching[p][k] + IF p \in fetched /\ k = wanted'[p] THEN 1 ELSE 0]]
      /\ UNCHANGED <<arrived, on_settings>>
  BY DEF FetchStatus
<1> HIDE DEF key
<1>3. \A p \in Panels, k \in Keys :
        /\ fetching'[p][k] = fetching[p][k] + IF p \in fetched /\ k = key[p] THEN 1 ELSE 0
        /\ fetching[p][k] \in 0..MaxFetches /\ fetching'[p][k] \in 0..MaxFetches
  BY <1>0, <1>1, <1>2, SideAssumption DEF PanelTypes
<1>4. fetching' \in [Panels -> [Keys -> 0..MaxFetches]]
  BY <1>2, <1>3
<1>5. PanelTypes'
  BY <1>0, <1>1, <1>2, <1>4 DEF PanelTypes, Panels
<1>6. PanelsShowCurrentSong'
  BY <1>0, <1>1, <1>2 DEF PanelsShowCurrentSong
<1>7. LoadingIsUnderWay'
  <2> SUFFICES ASSUME wanted["lyrics"]' # NoKey, shown["lyrics"]' = NoKey
               PROVE  \/ fetching["lyrics"][wanted["lyrics"]]' > 0
                      \/ \E n \in DOMAIN arrived["lyrics"]' :
                            arrived["lyrics"][n]' = wanted["lyrics"]'
    BY DEF LoadingIsUnderWay
  <2>1. wanted'["lyrics"] = key["lyrics"] /\ key["lyrics"] \in Keys
    BY <1>0, <1>1, <1>2
  <2>2. CASE key["lyrics"] = wanted["lyrics"]
    <3>1. shown["lyrics"] = NoKey /\ wanted["lyrics"] # NoKey
      BY <1>0, <1>2, <2>1, <2>2, NoKeyIsNoKey
    <3>2. "lyrics" \notin fetched /\ fetching'["lyrics"][key["lyrics"]] = fetching["lyrics"][key["lyrics"]]
      BY <1>0, <1>3, <2>1, <2>2, SideAssumption
    <3>3. QED
      BY <1>0, <1>2, <2>1, <2>2, <3>1, <3>2 DEF LoadingIsUnderWay
  <2>3. CASE key["lyrics"] # wanted["lyrics"]
    <3>1. "lyrics" \in fetched
      BY <1>0, <2>1, <2>3, NoKeyIsNoKey
    <3>2. fetching'["lyrics"][key["lyrics"]] > 0
      BY <1>0, <1>3, <2>1, <3>1, SideAssumption
    <3>3. QED
      BY <2>1, <3>2
  <2>4. QED
    BY <2>2, <2>3
<1>8. QED
  BY <1>5, <1>6, <1>7 DEF PanelInv

\* What is taken is shown, or not of the current song.
LEMMA TakeStep ==
    ASSUME PanelInv, NEW p \in Panels, Take(p)
    PROVE  PanelInv'
<1>0. PanelTypes /\ PanelsShowCurrentSong /\ LoadingIsUnderWay /\ "lyrics" \in Panels
  BY DEF PanelInv, Panels
<1>1. /\ arrived[p] \in Seq(Keys) /\ arrived[p] # <<>>
      /\ Head(arrived[p]) \in Keys /\ Tail(arrived[p]) \in Seq(Keys)
  BY <1>0 DEF Take, PanelTypes
<1>2. /\ arrived' = [arrived EXCEPT ![p] = Tail(arrived[p])]
      /\ UNCHANGED <<step, wanted, fetching, on_settings>>
      /\ \/ Head(arrived[p]) = wanted[p] /\ shown' = [shown EXCEPT ![p] = wanted[p]]
         \/ Head(arrived[p]) # wanted[p] /\ shown' = shown
  BY DEF Take
<1>3. PanelTypes'
  BY <1>0, <1>1, <1>2 DEF PanelTypes
<1>4. PanelsShowCurrentSong'
  BY <1>0, <1>2 DEF PanelsShowCurrentSong, PanelTypes
<1>5. LoadingIsUnderWay'
  <2> SUFFICES ASSUME wanted["lyrics"]' # NoKey, shown["lyrics"]' = NoKey
               PROVE  \/ fetching["lyrics"][wanted["lyrics"]]' > 0
                      \/ \E n \in DOMAIN arrived["lyrics"]' :
                            arrived["lyrics"][n]' = wanted["lyrics"]'
    BY DEF LoadingIsUnderWay
  <2>1. wanted["lyrics"] # NoKey /\ shown["lyrics"] = NoKey
    BY <1>0, <1>2 DEF PanelTypes
  <2>2. CASE p # "lyrics"
    BY <1>0, <1>2, <2>1, <2>2 DEF LoadingIsUnderWay, PanelTypes
  <2>3. CASE p = "lyrics"
    <3>1. Head(arrived["lyrics"]) # wanted["lyrics"]
      BY <1>0, <1>2, <2>1, <2>3 DEF PanelTypes
    <3>2. CASE fetching["lyrics"][wanted["lyrics"]] > 0
      BY <1>2, <3>2
    <3>3. CASE \E n \in DOMAIN arrived["lyrics"] : arrived["lyrics"][n] = wanted["lyrics"]
      <4>1. PICK n \in DOMAIN arrived["lyrics"] : arrived["lyrics"][n] = wanted["lyrics"]
        BY <3>3
      <4>2. n # 1 /\ n \in 1..Len(arrived["lyrics"])
        BY <1>1, <2>3, <3>1, <4>1
      <4>3. /\ n - 1 \in DOMAIN Tail(arrived["lyrics"])
            /\ Tail(arrived["lyrics"])[n - 1] = wanted["lyrics"]
        BY <1>1, <2>3, <4>1, <4>2
      <4>4. arrived'["lyrics"] = Tail(arrived["lyrics"])
        BY <1>0, <1>2, <2>3 DEF PanelTypes
      <4>5. QED
        BY <1>2, <4>3, <4>4
    <3>4. QED
      BY <1>0, <2>1, <3>2, <3>3 DEF LoadingIsUnderWay
  <2>4. QED
    BY <2>2, <2>3
<1>6. QED
  BY <1>3, <1>4, <1>5 DEF PanelInv

\* A fetch that ends has arrived, if it is of lyrics.
LEMMA FetchEndsStep ==
    ASSUME PanelInv, NEW p \in Panels, NEW k \in Keys, FetchEnds(p, k)
    PROVE  PanelInv'
<1>0. PanelTypes /\ PanelsShowCurrentSong /\ LoadingIsUnderWay /\ "lyrics" \in Panels
  BY DEF PanelInv, Panels
<1>1. /\ fetching[p] \in [Keys -> 0..MaxFetches] /\ fetching[p][k] \in 0..MaxFetches
      /\ fetching[p][k] > 0 /\ arrived[p] \in Seq(Keys)
  BY <1>0 DEF FetchEnds, PanelTypes
<1>2. /\ fetching' = [fetching EXCEPT ![p] = [fetching[p] EXCEPT ![k] = fetching[p][k] - 1]]
      /\ \/ arrived' = [arrived EXCEPT ![p] = Append(arrived[p], k)]
         \/ p = "art" /\ arrived' = arrived
      /\ UNCHANGED <<step, wanted, shown, on_settings>>
  BY <1>0 DEF FetchEnds, PanelTypes
<1>3. /\ fetching[p][k] - 1 \in 0..MaxFetches
      /\ [fetching[p] EXCEPT ![k] = fetching[p][k] - 1] \in [Keys -> 0..MaxFetches]
  BY <1>1, SideAssumption
<1>4. Append(arrived[p], k) \in Seq(Keys)
  BY <1>1
<1>5. PanelTypes'
  BY <1>0, <1>2, <1>3, <1>4 DEF PanelTypes
<1>6. PanelsShowCurrentSong'
  BY <1>0, <1>2 DEF PanelsShowCurrentSong
<1>7. LoadingIsUnderWay'
  <2> SUFFICES ASSUME wanted["lyrics"] # NoKey, shown["lyrics"] = NoKey
               PROVE  \/ fetching'["lyrics"][wanted["lyrics"]] > 0
                      \/ \E n \in DOMAIN arrived'["lyrics"] :
                            arrived'["lyrics"][n] = wanted["lyrics"]
    BY <1>2 DEF LoadingIsUnderWay
  <2>1. CASE p # "lyrics"
    <3>1. fetching'["lyrics"] = fetching["lyrics"] /\ arrived'["lyrics"] = arrived["lyrics"]
      BY <1>0, <1>2, <2>1 DEF PanelTypes
    <3>2. QED
      BY <1>0, <3>1 DEF LoadingIsUnderWay
  <2>2. CASE p = "lyrics"
    <3>1. /\ arrived'["lyrics"] = Append(arrived["lyrics"], k)
          /\ fetching'["lyrics"] = [fetching["lyrics"] EXCEPT ![k] = fetching["lyrics"][k] - 1]
      BY <1>0, <1>2, <2>2 DEF PanelTypes
    <3>2. CASE k = wanted["lyrics"]
      <4>1. /\ Len(arrived["lyrics"]) + 1 \in DOMAIN arrived'["lyrics"]
            /\ arrived'["lyrics"][Len(arrived["lyrics"]) + 1] = k
        BY <1>1, <2>2, <3>1
      <4>2. QED
        BY <3>2, <4>1
    <3>3. CASE k # wanted["lyrics"]
      <4>1. wanted["lyrics"] \in Keys
        BY <1>0 DEF PanelTypes
      <4>2. fetching'["lyrics"][wanted["lyrics"]] = fetching["lyrics"][wanted["lyrics"]]
        BY <1>1, <2>2, <3>1, <3>3, <4>1
      <4>3. CASE \E n \in DOMAIN arrived["lyrics"] : arrived["lyrics"][n] = wanted["lyrics"]
        <5>1. PICK n \in DOMAIN arrived["lyrics"] : arrived["lyrics"][n] = wanted["lyrics"]
          BY <4>3
        <5>2. n \in DOMAIN arrived'["lyrics"] /\ arrived'["lyrics"][n] = wanted["lyrics"]
          BY <1>1, <2>2, <3>1, <5>1
        <5>3. QED
          BY <5>2
      <4>4. QED
        BY <1>0, <4>2, <4>3 DEF LoadingIsUnderWay
    <3>4. QED
      BY <3>2, <3>3
  <2>3. QED
    BY <2>1, <2>2
<1>8. QED
  BY <1>5, <1>6, <1>7 DEF PanelInv

\* The other steps leave the panels alone.
LEMMA PanelStep ==
    ASSUME PanelInv, [Next]_vars
    PROVE  PanelInv'
<1>0. PanelTypes /\ PanelsShowCurrentSong /\ LoadingIsUnderWay
  BY DEF PanelInv
<1>1. ASSUME NEW song \in Songs \cup {NoSong}, FetchStatus(song)
      PROVE  PanelInv'
  BY <1>1, FetchStatusStep
<1>2. ASSUME NEW p \in Panels, Take(p)
      PROVE  PanelInv'
  BY <1>2, TakeStep
<1>3. ASSUME NEW p \in Panels, NEW k \in Keys, FetchEnds(p, k)
      PROVE  PanelInv'
  BY <1>3, FetchEndsStep
<1>4. ASSUME UNCHANGED panelVars,
             step' \in Panels \cup {"status", "updates", "key"}, on_settings' \in BOOLEAN
      PROVE  PanelInv'
  BY <1>0, <1>4 DEF PanelInv, PanelTypes, PanelsShowCurrentSong, LoadingIsUnderWay, panelVars
<1>5. CASE (\E p \in Panels : Drained(p)) \/ PollUpdate \/ UpdatesPolled
  BY <1>0, <1>4, <1>5 DEF Drained, PollUpdate, UpdatesPolled, PanelTypes, Panels
<1>6. CASE KeyPressed
  <2>1. step' = "status" /\ UNCHANGED panelVars
    BY <1>6 DEF KeyPressed, CheckForUpdate, ConfirmApply, ApplyUpdate, Decline, OtherKey, KeyTaken
  <2>2. on_settings' \in BOOLEAN
    BY <1>0, <1>6, Zenon
    DEF KeyPressed, CheckForUpdate, ConfirmApply, ApplyUpdate, Decline, OtherKey, PanelTypes
  <2>3. QED
    BY <1>4, <2>1, <2>2
<1>7. ASSUME NEW t \in 1..MaxTasks, UpdateTask(t)
      PROVE  PanelInv'
  <2>1. UNCHANGED <<step, panelVars, on_settings>>
    BY <1>7 DEF UpdateTask, CheckEnds, Progress, DaemonInstalled, TuiInstalled,
                InstallFails, TaskFrame
  <2>2. QED
    BY <1>0, <1>4, <2>1 DEF PanelTypes
<1>8. CASE UNCHANGED vars
  BY <1>0, <1>4, <1>8 DEF vars, PanelTypes
<1>9. QED
  BY <1>1, <1>2, <1>3, <1>5, <1>6, <1>7, <1>8 DEF Next, Loop

\* The state an event leaves is one.
LEMMA StateAfterType ==
    ASSUME NEW event \in Events \ Packages
    PROVE  StateAfter(event) \in {"available", "upToDate", "applied", "failed"}
<1>1. CASE event = "newer"
  BY <1>1 DEF StateAfter
<1>2. CASE event = "same"
  BY <1>2 DEF StateAfter
<1>3. CASE event = "installed"
  BY <1>3 DEF StateAfter
<1>4. CASE event \in Failures
  BY <1>4 DEF StateAfter, Failures
<1>5. QED
  BY <1>1, <1>2, <1>3, <1>4 DEF Events, Checked

LEMMA LogWithType ==
    ASSUME UpdateTypes, NEW line \in Packages
    PROVE  LogWith(line) \in Seq(Packages) /\ Len(LogWith(line)) <= LogLines
<1>1. log \in Seq(Packages) /\ Len(log) <= LogLines /\ LogLines \in Nat \ {0}
  BY SideAssumption DEF UpdateTypes
<1>2. CASE Len(log) < LogLines
  <2>1. LogWith(line) = Append(log, line)
    BY <1>2 DEF LogWith
  <2>2. QED
    BY <1>1, <1>2, <2>1
<1>3. CASE ~(Len(log) < LogLines)
  <2>1. LogWith(line) = Append(Tail(log), line)
    BY <1>3 DEF LogWith
  <2>2. /\ Tail(log) \in Seq(Packages)
        /\ Len(Tail(log)) = Len(log) - 1
    BY <1>1, <1>3
  <2>3. QED
    BY <1>1, <2>1, <2>2
<1>4. QED
  BY <1>2, <1>3

LEMMA UpdateStep ==
    ASSUME UpdateTypes, [Next]_vars
    PROVE  UpdateTypes'
<1> USE DEF UpdateTypes
<1>1. CASE UNCHANGED updateVars
  BY <1>1 DEF updateVars
<1>2. CASE PollUpdate
  <2>1. /\ Head(updates) \in Events /\ updates' = Tail(updates)
        /\ updates' \in Seq(Events) /\ UNCHANGED <<tasks, installed>>
    BY <1>2 DEF PollUpdate
  <2>2. CASE Head(updates) \in Packages
    <3>1. update_state' = update_state /\ log' \in {LogWith(Head(updates)), log}
      BY <1>2, <2>2 DEF PollUpdate
    <3>2. QED
      BY <2>1, <2>2, <3>1, LogWithType
  <2>3. CASE Head(updates) \notin Packages
    <3>1. update_state' = StateAfter(Head(updates)) /\ log' = <<>>
      BY <1>2, <2>3 DEF PollUpdate
    <3>2. update_state' \in {"available", "upToDate", "applied", "failed"}
      BY <2>1, <2>3, <3>1, StateAfterType
    <3>3. QED
      BY <2>1, <3>1, <3>2, SideAssumption
  <2>4. QED
    BY <2>2, <2>3
<1>3. CASE KeyPressed
  <2>1. CASE CheckForUpdate
    BY <2>1, SideAssumption DEF CheckForUpdate, Start
  <2>2. CASE ApplyUpdate
    BY <2>2, SideAssumption DEF ApplyUpdate, Start, Packages
  <2>3. CASE ConfirmApply \/ Decline
    BY <2>3 DEF ConfirmApply, Decline
  <2>4. CASE OtherKey
    BY <1>1, <2>4 DEF OtherKey
  <2>5. QED
    BY <1>3, <2>1, <2>2, <2>3, <2>4 DEF KeyPressed
<1>4. ASSUME NEW t \in 1..MaxTasks, UpdateTask(t)
      PROVE  UpdateTypes'
  <2>1. UNCHANGED <<update_state, log>>
    BY <1>4 DEF UpdateTask, CheckEnds, Progress, DaemonInstalled, TuiInstalled,
                InstallFails, TaskFrame
  <2>2. updates' = updates \/ \E event \in Events : Sends(event)
    BY <1>4 DEF UpdateTask, CheckEnds, Progress, DaemonInstalled, TuiInstalled,
                InstallFails, Events, Checked, Failures, Packages
  <2>6. updates' \in Seq(Events)
    BY <2>2 DEF Sends
  <2>3. tasks' \in [1..MaxTasks -> {"none", "check"} \cup Packages]
    BY <1>4 DEF UpdateTask, CheckEnds, Progress, DaemonInstalled, TuiInstalled,
                InstallFails, TaskGoes, Packages
  <2>4. installed' \subseteq Packages
    BY <1>4 DEF UpdateTask, CheckEnds, Progress, DaemonInstalled, TuiInstalled,
                InstallFails, Packages
  <2>5. QED
    BY <2>1, <2>6, <2>3, <2>4
<1>5. CASE UNCHANGED vars
  BY <1>1, <1>5 DEF vars
<1>6. QED
  BY <1>1, <1>2, <1>3, <1>4, <1>5
  DEF Next, Loop, FetchStatus, Take, Drained, UpdatesPolled, FetchEnds

-----------------------------------------------------------------------------
(* The update task *)

\* How a check and an install end.
CheckResults   == Checked \cup {"check failed"}
InstallResults == {"installed", "install failed"}
Results        == CheckResults \cup InstallResults

\* One task, or one result on its way, or neither.
OneJob ==
    /\ \A t, u \in DOMAIN tasks : tasks[t] # "none" /\ tasks[u] # "none" => t = u
    /\ \A m, n \in DOMAIN updates : updates[m] \in Results /\ updates[n] \in Results => m = n
    /\ \A t \in DOMAIN tasks, n \in DOMAIN updates :
          ~ (tasks[t] # "none" /\ updates[n] \in Results)

\* A check or an install that is under way, task or result, is the one the
\* state tells of.
JobIsTold ==
    /\ \A t \in DOMAIN tasks : /\ tasks[t] = "check" => update_state = "checking"
                               /\ tasks[t] \in Packages => update_state = "applying"
    /\ \A n \in DOMAIN updates : /\ updates[n] \in CheckResults => update_state = "checking"
                                 /\ updates[n] \in InstallResults => update_state = "applying"

\* What the state tells of is under way.
ToldIsUnderWay ==
    /\ update_state = "checking" =>
          \/ \E t \in DOMAIN tasks : tasks[t] = "check"
          \/ \E n \in DOMAIN updates : updates[n] \in CheckResults
    /\ update_state = "applying" =>
          \/ \E t \in DOMAIN tasks : tasks[t] \in Packages
          \/ \E n \in DOMAIN updates : updates[n] \in InstallResults

\* How far an install has come.
InstallSoFar ==
    /\ \A t \in DOMAIN tasks : tasks[t] = "tui" => "daemon" \in installed
    /\ \A n \in DOMAIN updates : updates[n] = "installed" => installed = Packages
    /\ AppliedMeansBoth

JobInv == OneJob /\ JobIsTold /\ ToldIsUnderWay /\ InstallSoFar

\* The kinds of events and of tasks can be told apart.
LEMMA ResultsApart ==
    /\ CheckResults = {"newer", "same", "check failed"}
    /\ Results = {"newer", "same", "check failed", "installed", "install failed"}
    /\ Events = Results \cup Packages
    /\ Packages = {"daemon", "tui"}
BY DEF CheckResults, InstallResults, Results, Events, Checked, Failures, Packages

LEMMA TasksAndUpdates ==
    ASSUME UpdateTypes
    PROVE  /\ tasks \in [1..MaxTasks -> {"none", "check"} \cup Packages]
           /\ DOMAIN tasks = 1..MaxTasks
           /\ updates \in Seq(Events) /\ Len(updates) \in Nat
           /\ DOMAIN updates = 1..Len(updates)
BY DEF UpdateTypes

\* While the state tells of nothing, nothing is under way.
LEMMA NothingUnderWay ==
    ASSUME UpdateTypes, JobInv, update_state \notin {"checking", "applying"}
    PROVE  /\ \A t \in DOMAIN tasks : tasks[t] = "none"
           /\ \A n \in DOMAIN updates : updates[n] \notin Results
<1>1. \A t \in DOMAIN tasks : tasks[t] \in {"none", "check"} \cup Packages
  BY TasksAndUpdates
<1>2. QED
  BY <1>1 DEF JobInv, JobIsTold, Results

\* A task that starts is the only one.
LEMMA StartJob ==
    ASSUME UpdateTypes, JobInv, NEW task \in {"check", "daemon"}, Start(task),
           update_state \notin {"checking", "applying"},
           update_state' = IF task = "check" THEN "checking" ELSE "applying",
           UNCHANGED updates
    PROVE  JobInv'
<1>1. PICK t \in 1..MaxTasks : tasks' = [tasks EXCEPT ![t] = task]
  BY DEF Start
<1>2. /\ t \in DOMAIN tasks /\ DOMAIN tasks' = DOMAIN tasks /\ tasks'[t] = task
      /\ \A u \in DOMAIN tasks : u # t => tasks'[u] = "none"
      /\ \A n \in DOMAIN updates : updates'[n] = updates[n] /\ updates[n] \notin Results
  BY <1>1, TasksAndUpdates, NothingUnderWay
<1>3. OneJob'
  BY <1>2 DEF OneJob
<1>4. JobIsTold' /\ ToldIsUnderWay'
  BY <1>2, ResultsApart DEF JobIsTold, ToldIsUnderWay, Results, InstallResults
<1>5. InstallSoFar'
  BY <1>2, ResultsApart DEF InstallSoFar, AppliedMeansBoth
<1>6. QED
  BY <1>3, <1>4, <1>5 DEF JobInv

\* What is polled has come.
LEMMA PollUpdateJob ==
    ASSUME UpdateTypes, JobInv, PollUpdate
    PROVE  JobInv'
<1>1. /\ updates \in Seq(Events) /\ updates # <<>> /\ updates' = Tail(updates)
      /\ UNCHANGED <<tasks, installed>>
      /\ Len(updates) \in Nat \ {0} /\ DOMAIN updates = 1..Len(updates)
  BY TasksAndUpdates DEF PollUpdate
<1>2. /\ DOMAIN updates' = 1..(Len(updates) - 1)
      /\ \A n \in 1..(Len(updates) - 1) : updates'[n] = updates[n + 1]
      /\ Head(updates) = updates[1] /\ updates[1] \in Events /\ 1 \in DOMAIN updates
  BY <1>1
<1>3. \A n \in DOMAIN updates' : /\ n + 1 \in DOMAIN updates /\ n + 1 # 1 /\ n \in Nat
                                 /\ updates'[n] = updates[n + 1]
  BY <1>1, <1>2
<1>4. \A n \in DOMAIN updates : n # 1 => /\ n - 1 \in DOMAIN updates'
                                         /\ updates'[n - 1] = updates[n]
  BY <1>1, <1>2
<1>5. OneJob'
  <2>1. \A m, n \in Nat : m + 1 = n + 1 => m = n
    OBVIOUS
  <2>2. \A m, n \in DOMAIN updates' : updates'[m] \in Results /\ updates'[n] \in Results => m = n
    BY <1>3, <2>1 DEF JobInv, OneJob
  <2>3. QED
    BY <1>1, <1>3, <2>2 DEF JobInv, OneJob
<1>6. CASE updates[1] \in Packages
  <2>1. update_state' = update_state
    BY <1>2, <1>6 DEF PollUpdate
  <2>2. JobIsTold'
    BY <1>1, <1>3, <2>1 DEF JobInv, JobIsTold
  <2>3. updates[1] \notin Results
    BY <1>6, ResultsApart
  <2>4. ToldIsUnderWay'
    BY <1>1, <1>4, <2>1, <2>3 DEF JobInv, ToldIsUnderWay, Results
  <2>5. InstallSoFar'
    BY <1>1, <1>3, <2>1 DEF JobInv, InstallSoFar, AppliedMeansBoth
  <2>6. QED
    BY <1>5, <2>2, <2>4, <2>5 DEF JobInv
<1>7. CASE updates[1] \notin Packages
  <2>1. /\ update_state' = StateAfter(updates[1])
        /\ update_state' \in {"available", "upToDate", "applied", "failed"}
    BY <1>2, <1>7, StateAfterType DEF PollUpdate
  <2>2. updates[1] \in Results
    BY <1>2, <1>7, ResultsApart
  <2>3. /\ \A n \in DOMAIN updates' : updates'[n] \notin Results
        /\ \A t \in DOMAIN tasks' : tasks'[t] = "none"
    BY <1>1, <1>2, <1>3, <2>2 DEF JobInv, OneJob
  <2>4. JobIsTold' /\ ToldIsUnderWay'
    BY <2>1, <2>3, ResultsApart DEF JobIsTold, ToldIsUnderWay, Results
  <2>5. update_state' = "applied" => updates[1] = "installed"
    BY <2>1, <2>2, ResultsApart DEF StateAfter, Failures
  <2>6. InstallSoFar'
    BY <1>1, <1>2, <1>3, <2>3, <2>5, ResultsApart DEF JobInv, InstallSoFar, AppliedMeansBoth
  <2>7. QED
    BY <1>5, <2>4, <2>6 DEF JobInv
<1>8. QED
  BY <1>6, <1>7

\* The places of the channel once an event is sent.
LEMMA SendPlaces ==
    ASSUME UpdateTypes, NEW event, updates' = Append(updates, event)
    PROVE  /\ DOMAIN updates' = DOMAIN updates \cup {Len(updates) + 1}
           /\ updates'[Len(updates) + 1] = event
           /\ \A n \in DOMAIN updates : updates'[n] = updates[n] /\ n # Len(updates) + 1
<1>1. updates \in Seq(Events) /\ Len(updates) \in Nat /\ DOMAIN updates = 1..Len(updates)
  BY TasksAndUpdates
<1>2. QED
  BY <1>1

\* A task ends with its result.
LEMMA EndJob ==
    ASSUME UpdateTypes, JobInv, NEW t \in 1..MaxTasks,
           NEW event \in Results, updates' = Append(updates, event),
           tasks[t] # "none", tasks' = [tasks EXCEPT ![t] = "none"],
           tasks[t] = "check" <=> event \in CheckResults, UNCHANGED update_state,
           installed' \in {installed, Packages}, event = "installed" => installed' = Packages
    PROVE  JobInv'
<1> DEFINE last == Len(updates) + 1
<1>1. /\ DOMAIN updates' = DOMAIN updates \cup {last} /\ updates'[last] = event
      /\ \A n \in DOMAIN updates : updates'[n] = updates[n] /\ n # last
  BY SendPlaces
<1>2. /\ t \in DOMAIN tasks /\ DOMAIN tasks' = DOMAIN tasks
      /\ \A u \in DOMAIN tasks : tasks'[u] = "none"
      /\ \A n \in DOMAIN updates : updates[n] \notin Results
      /\ tasks[t] \in {"check"} \cup Packages
  BY TasksAndUpdates DEF JobInv, OneJob
<1> HIDE DEF last
<1>3. OneJob'
  BY <1>1, <1>2 DEF OneJob
<1>4. update_state = IF event \in CheckResults THEN "checking" ELSE "applying"
  BY <1>2 DEF JobInv, JobIsTold
<1>5. JobIsTold'
  BY <1>1, <1>2, <1>4, ResultsApart DEF JobIsTold, Results, InstallResults
<1>6. ToldIsUnderWay'
  BY <1>1, <1>4, ResultsApart DEF ToldIsUnderWay, InstallResults
<1>7. InstallSoFar'
  BY <1>1, <1>2, <1>4, ResultsApart DEF InstallSoFar, AppliedMeansBoth
<1>8. QED
  BY <1>3, <1>5, <1>6, <1>7 DEF JobInv

LEMMA TaskJob ==
    ASSUME UpdateTypes, JobInv, NEW t \in 1..MaxTasks, UpdateTask(t)
    PROVE  JobInv'
<1>1. /\ tasks \in [1..MaxTasks -> {"none", "check"} \cup Packages]
      /\ installed \subseteq Packages /\ Packages = {"daemon", "tui"} /\ t \in DOMAIN tasks
  BY TasksAndUpdates, ResultsApart DEF UpdateTypes
<1>2. UNCHANGED update_state
  BY DEF UpdateTask, CheckEnds, Progress, DaemonInstalled, TuiInstalled, InstallFails, TaskFrame
<1>3. CASE CheckEnds(t)
  <2>1. PICK event \in CheckResults : updates' = Append(updates, event)
    BY <1>3 DEF CheckEnds, Sends, CheckResults
  <2>2. event \in Results /\ event # "installed" /\ event \in CheckResults
    BY ResultsApart
  <2>3. /\ tasks[t] = "check" /\ tasks[t] # "none"
        /\ tasks' = [tasks EXCEPT ![t] = "none"] /\ installed' \in {installed, Packages}
    BY <1>3 DEF CheckEnds, TaskGoes
  <2>4. QED
    BY <1>2, <2>1, <2>2, <2>3, EndJob
<1>4. CASE Progress(t)
  <2>1. /\ UNCHANGED <<tasks, installed>> /\ tasks[t] \in Packages
        /\ updates' = Append(updates, tasks[t]) /\ tasks[t] \notin Results
    BY <1>4, ResultsApart DEF Progress, Sends
  <2>2. /\ DOMAIN updates' = DOMAIN updates \cup {Len(updates) + 1}
        /\ updates'[Len(updates) + 1] \notin Results
        /\ \A n \in DOMAIN updates : updates'[n] = updates[n]
    BY <2>1, SendPlaces
  <2>3. OneJob' /\ JobIsTold'
    BY <1>2, <2>1, <2>2 DEF JobInv, OneJob, JobIsTold, Results
  <2>4. ToldIsUnderWay'
    BY <1>2, <2>1, <2>2 DEF JobInv, ToldIsUnderWay
  <2>5. InstallSoFar'
    BY <1>2, <2>1, <2>2, ResultsApart DEF JobInv, InstallSoFar, AppliedMeansBoth
  <2>6. QED
    BY <2>3, <2>4, <2>5 DEF JobInv
<1>5. CASE DaemonInstalled(t)
  <2>1. /\ tasks[t] = "daemon" /\ tasks' = [tasks EXCEPT ![t] = "tui"]
        /\ installed' = installed \cup {"daemon"} /\ UNCHANGED updates
    BY <1>5 DEF DaemonInstalled, TaskGoes
  <2>2. /\ DOMAIN tasks' = DOMAIN tasks /\ tasks'[t] = "tui"
        /\ \A u \in DOMAIN tasks : u # t => tasks'[u] = tasks[u]
    BY <1>1, <2>1
  <2>3. OneJob'
    BY <2>1, <2>2 DEF JobInv, OneJob
  <2>4. JobIsTold'
    BY <1>1, <1>2, <2>1, <2>2 DEF JobInv, JobIsTold
  <2>5. ToldIsUnderWay'
    BY <1>1, <1>2, <2>1, <2>2 DEF JobInv, ToldIsUnderWay
  <2>6. InstallSoFar'
    BY <1>1, <1>2, <2>1, <2>2 DEF JobInv, InstallSoFar, AppliedMeansBoth
  <2>7. QED
    BY <2>3, <2>4, <2>5, <2>6 DEF JobInv
<1>6. CASE TuiInstalled(t)
  <2>1. /\ tasks[t] = "tui" /\ tasks' = [tasks EXCEPT ![t] = "none"]
        /\ updates' = Append(updates, "installed") /\ installed' = installed \cup {"tui"}
    BY <1>6 DEF TuiInstalled, TaskGoes, Sends
  <2>2. "daemon" \in installed
    BY <1>1, <2>1 DEF JobInv, InstallSoFar
  <2>3. "installed" \in Results \ CheckResults
    BY ResultsApart
  <2>4. installed' = Packages
    BY <1>1, <2>1, <2>2
  <2>5. QED
    BY <1>2, <2>1, <2>3, <2>4, EndJob
<1>7. CASE InstallFails(t)
  <2>1. /\ tasks[t] \in Packages /\ tasks' = [tasks EXCEPT ![t] = "none"]
        /\ updates' = Append(updates, "install failed") /\ UNCHANGED installed
    BY <1>1, <1>7 DEF InstallFails, TaskGoes, Sends
  <2>2. "install failed" \in Results \ CheckResults
    BY ResultsApart
  <2>3. /\ tasks[t] # "none" /\ tasks[t] # "check" /\ "install failed" # "installed"
        /\ installed' \in {installed, Packages}
    BY <1>1, <2>1
  <2>4. QED
    BY <1>2, <2>1, <2>2, <2>3, EndJob
<1>8. QED
  BY <1>3, <1>4, <1>5, <1>6, <1>7 DEF UpdateTask

LEMMA JobStep == UpdateTypes /\ JobInv /\ [Next]_vars => JobInv'
<1> SUFFICES ASSUME UpdateTypes, JobInv, [Next]_vars PROVE JobInv'
  OBVIOUS
<1>1. CASE UNCHANGED updateVars
  BY <1>1 DEF updateVars, JobInv, OneJob, JobIsTold, ToldIsUnderWay, InstallSoFar, AppliedMeansBoth
<1>2. ASSUME UNCHANGED <<tasks, updates, installed>>,
             {update_state, update_state'} \subseteq {"available", "confirm"}
      PROVE  JobInv'
  BY <1>2 DEF JobInv, OneJob, JobIsTold, ToldIsUnderWay, InstallSoFar, AppliedMeansBoth
<1>3. CASE KeyPressed
  <2>1. CASE CheckForUpdate
    BY <2>1, StartJob DEF CheckForUpdate
  <2>2. CASE ApplyUpdate
    BY <2>2, StartJob DEF ApplyUpdate
  <2>3. CASE ConfirmApply \/ Decline
    BY <1>2, <2>3 DEF ConfirmApply, Decline
  <2>4. CASE OtherKey
    BY <1>1, <2>4 DEF OtherKey
  <2>5. QED
    BY <1>3, <2>1, <2>2, <2>3, <2>4 DEF KeyPressed
<1>4. QED
  BY <1>1, <1>3, PollUpdateJob, TaskJob
  DEF Next, Loop, FetchStatus, Take, Drained, UpdatesPolled, FetchEnds, vars

LEMMA JobInit == Init => JobInv
BY SideAssumption
   DEF Init, JobInv, OneJob, JobIsTold, ToldIsUnderWay, InstallSoFar, AppliedMeansBoth, Packages

\* A set with at most one element has the size one expects.
LEMMA AtMostOne ==
    ASSUME NEW S, \A a, b \in S : a = b
    PROVE  Cardinality(S) = IF S = {} THEN 0 ELSE 1
<1>1. CASE S = {}
  BY <1>1, FS_EmptySet
<1>2. CASE S # {}
  <2>1. PICK a \in S : S = {a}
    BY <1>2
  <2>2. QED
    BY <2>1, FS_Singleton
<1>3. QED
  BY <1>1, <1>2

\* One job, which is what the state tells of, counts as one.
LEMMA JobsCounted == UpdateTypes /\ JobInv => StateIsThatOfTask
<1> SUFFICES ASSUME UpdateTypes, JobInv PROVE StateIsThatOfTask
  OBVIOUS
<1> DEFINE C == Running({"check"})
           I == Running(Packages)
           CR == OnTheWay(CheckResults)
           IR == OnTheWay(InstallResults)
<1>1. /\ \A t \in DOMAIN tasks : tasks[t] \in Packages \cup {"check"} => tasks[t] # "none"
      /\ CheckResults \subseteq Results /\ InstallResults \subseteq Results
  BY ResultsApart DEF Results
<1>2. /\ Cardinality(C) = IF C = {} THEN 0 ELSE 1
      /\ Cardinality(I) = IF I = {} THEN 0 ELSE 1
  <2>1. /\ \A a, b \in C : a = b
        /\ \A a, b \in I : a = b
    BY <1>1 DEF JobInv, OneJob, Running
  <2> HIDE DEF C, I
  <2>2. QED
    BY <2>1, AtMostOne
<1>3. /\ Cardinality(CR) = IF CR = {} THEN 0 ELSE 1
      /\ Cardinality(IR) = IF IR = {} THEN 0 ELSE 1
  <2>1. /\ \A a, b \in CR : a = b
        /\ \A a, b \in IR : a = b
    BY <1>1 DEF JobInv, OneJob, OnTheWay
  <2> HIDE DEF CR, IR
  <2>2. QED
    BY <2>1, AtMostOne
<1>4. (C = {} \/ CR = {}) /\ (I = {} \/ IR = {})
  BY <1>1 DEF JobInv, OneJob, Running, OnTheWay
<1>5. /\ update_state = "checking" <=> C # {} \/ CR # {}
      /\ update_state = "applying" <=> I # {} \/ IR # {}
  BY DEF JobInv, JobIsTold, ToldIsUnderWay, Running, OnTheWay
<1>6. ChecksUnderWay = Cardinality(C) + Cardinality(CR)
  BY DEF ChecksUnderWay, CheckResults
<1>7. InstallsUnderWay = Cardinality(I) + Cardinality(IR)
  BY DEF InstallsUnderWay, InstallResults
<1> HIDE DEF C, I, CR, IR
<1>8. QED
  BY <1>2, <1>3, <1>4, <1>5, <1>6, <1>7 DEF StateIsThatOfTask

-----------------------------------------------------------------------------
(* The results *)

\* The inductive invariant.
THEOREM SideInvariant == Spec => []SideInv
<1>1. SideInv /\ [Next]_vars => SideInv'
  BY PanelStep, UpdateStep DEF SideInv
<1>2. QED
  BY InitInv, <1>1, PTL DEF Spec

\* Every variable has its type, and the log stays within its lines.
THEOREM SideTypeCorrect == Spec => []TypeOK
<1>1. SideInv => TypeOK
  BY DEF SideInv, PanelInv, PanelTypes, UpdateTypes, TypeOK
<1>2. QED
  BY <1>1, SideInvariant, PTL

\* No song's art or lyrics are shown with another.
THEOREM PanelsAreRight == Spec => []PanelsShowCurrentSong
<1>1. SideInv => PanelsShowCurrentSong
  BY DEF SideInv, PanelInv
<1>2. QED
  BY <1>1, SideInvariant, PTL

\* Lyrics that are said to be loading are on their way.
THEOREM LoadingEnds == Spec => []LoadingIsUnderWay
<1>1. SideInv => LoadingIsUnderWay
  BY DEF SideInv, PanelInv
<1>2. QED
  BY <1>1, SideInvariant, PTL

\* check_for_update returns at once while a check or an install is in flight, and
\* request_apply_update needs a check that has ended: at any time at most one
\* task or one result is under way, and it is that of the state on screen.
THEOREM OneUpdateTask == Spec => []StateIsThatOfTask
<1>1. UpdateTypes /\ JobInv => StateIsThatOfTask
  BY JobsCounted
<1>2. UpdateTypes /\ JobInv /\ [Next]_vars => JobInv'
  BY JobStep
<1>3. SideInv => UpdateTypes
  BY DEF SideInv
<1>4. QED
  BY <1>1, <1>2, <1>3, JobInit, SideInvariant, PTL DEF Spec

\* The first package that fails ends apply_update: whenever the screen says
\* that the update is applied, the last install has installed both packages.
THEOREM AppliedIsWhole == Spec => []AppliedMeansBoth
<1>1. JobInv => AppliedMeansBoth
  BY DEF JobInv, InstallSoFar
<1>2. UpdateTypes /\ JobInv /\ [Next]_vars => JobInv'
  BY JobStep
<1>3. SideInv => UpdateTypes
  BY DEF SideInv
<1>4. QED
  BY <1>1, <1>2, <1>3, JobInit, SideInvariant, PTL DEF Spec
=============================================================================
