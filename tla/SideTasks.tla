------------------------------ MODULE SideTasks ------------------------------
(***************************************************************************)
(* What the terminal client (tui/src/app.rs) does beside its event loop:   *)
(* art and lyrics of the current song, fetched by a task each, and the     *)
(* update check and install.  The tasks run on other threads and answer    *)
(* through channels the loop drains once an iteration, while they may go   *)
(* on sending.                                                             *)
(***************************************************************************)
EXTENDS Naturals, Sequences, FiniteSets

CONSTANTS
    Songs, NoSong,
    NoKey,       \* no art, no song: the None of the code's Options
    ArtUrl,      \* the art of each song, an album's songs may share one
    LogLines,    \* APPLY_LOG_LINES
    MaxFetches,  \* bound: fetches of one key under way
    MaxTasks,    \* bound: update tasks at a time; one more than there may be
    MaxQueued    \* bound: update events in the channel

Panels == {"art", "lyrics"}
Keys == Songs \cup ({ArtUrl[s] : s \in Songs} \ {NoKey})

ASSUME SideAssumption ==
    /\ NoSong \notin Songs /\ NoKey \notin Songs
    /\ LogLines \in Nat \ {0} /\ MaxFetches \in Nat \ {0}
    /\ MaxTasks \in Nat \ {0} /\ MaxQueued \in Nat \ {0}

VARIABLES
    step,          \* where the loop is
    wanted,        \* current_art_url, current_lyrics_song_id
    shown,         \* art_protocol, lyrics: the key of what a panel holds
    fetching,      \* tasks under way, by panel and key
    arrived,       \* art_rx, lyrics_rx
    on_settings,   \* the screen on top is Settings
    update_state,
    log,           \* the lines of Applying
    updates,       \* update_rx
    tasks,         \* update tasks under way: a check, or the package installed
    installed      \* history: what the last install has installed

panelVars  == <<wanted, shown, fetching, arrived>>
updateVars == <<update_state, log, updates, tasks, installed>>
vars == <<step, panelVars, on_settings, updateVars>>

Packages == {"daemon", "tui"}

Init ==
    /\ step = "status"
    /\ wanted = [p \in Panels |-> NoKey] /\ shown = [p \in Panels |-> NoKey]
    /\ fetching = [p \in Panels |-> [k \in Keys |-> 0]]
    /\ arrived = [p \in Panels |-> <<>>]
    /\ on_settings = FALSE
    /\ update_state = "idle" /\ log = <<>> /\ updates = <<>>
    /\ tasks = [t \in 1..MaxTasks |-> "none"]
    /\ installed = {}

-----------------------------------------------------------------------------
(* An iteration of the loop: status, art, lyrics, updates, a key *)

Key(panel, song) ==
    IF song = NoSong THEN NoKey
    ELSE IF panel = "lyrics" THEN song ELSE ArtUrl[song]

NewKeys(song) == [p \in Panels |-> Key(p, song)]

\* The song a status tells, none when disconnected.  update_art and
\* update_lyrics forget what they show of another one and start a fetch; that
\* lyrics do so before art is drained and not after makes no difference.
FetchStatus(song) ==
    LET fetched == {p \in Panels : NewKeys(song)[p] \notin {wanted[p], NoKey}} IN
    /\ step = "status" /\ step' = "art"
    /\ \A p \in fetched : fetching[p][NewKeys(song)[p]] < MaxFetches
    /\ wanted' = NewKeys(song)
    /\ shown' = [p \in Panels |-> IF wanted'[p] = wanted[p] THEN shown[p] ELSE NoKey]
    /\ fetching' = [p \in Panels |-> [k \in Keys |->
            fetching[p][k] + IF p \in fetched /\ k = wanted'[p] THEN 1 ELSE 0]]
    /\ UNCHANGED <<arrived, on_settings, updateVars>>

\* One round of a panel's try_recv loop; what arrives is taken on trust.
TakeUnchecked(panel) ==
    /\ step = panel /\ arrived[panel] # <<>>
    /\ arrived' = [arrived EXCEPT ![panel] = Tail(@)]
    /\ shown' = [shown EXCEPT ![panel] = Head(arrived[panel])]
    /\ UNCHANGED <<step, wanted, fetching, on_settings, updateVars>>

\* All that has arrived taken for one, the last.
TakeLast(panel) ==
    /\ step = panel /\ arrived[panel] # <<>>
    /\ arrived' = [arrived EXCEPT ![panel] = <<>>]
    /\ IF arrived[panel][Len(arrived[panel])] = wanted[panel]
       THEN shown' = [shown EXCEPT ![panel] = wanted[panel]]
       ELSE UNCHANGED shown
    /\ UNCHANGED <<step, wanted, fetching, on_settings, updateVars>>

Take(panel) ==
    /\ step = panel /\ arrived[panel] # <<>>
    /\ arrived' = [arrived EXCEPT ![panel] = Tail(@)]
    /\ IF Head(arrived[panel]) = wanted[panel]
       THEN shown' = [shown EXCEPT ![panel] = wanted[panel]]
       ELSE UNCHANGED shown
    /\ UNCHANGED <<step, wanted, fetching, on_settings, updateVars>>

Drained(panel) ==
    /\ step = panel /\ arrived[panel] = <<>>
    /\ step' = IF panel = "art" THEN "lyrics" ELSE "updates"
    /\ UNCHANGED <<panelVars, on_settings, updateVars>>

Checked == {"newer", "same"}
Failures == {"check failed", "install failed"}

\* The log with a line more; a full one loses its oldest.
LogWith(line) ==
    IF Len(log) < LogLines THEN Append(log, line) ELSE Append(Tail(log), line)

StateAfter(event) ==
    CASE event = "newer"     -> "available"
      [] event = "same"      -> "upToDate"
      [] event = "installed" -> "applied"
      [] event \in Failures  -> "failed"

\* One round of poll_update_events; a line counts only while it is applying.
PollUpdate ==
    /\ step = "updates" /\ updates # <<>>
    /\ updates' = Tail(updates)
    /\ IF Head(updates) \in Packages
       THEN /\ log' = IF update_state = "applying" THEN LogWith(Head(updates)) ELSE log
            /\ UNCHANGED update_state
       ELSE update_state' = StateAfter(Head(updates)) /\ log' = <<>>
    /\ UNCHANGED <<step, panelVars, on_settings, tasks, installed>>

\* The loop goes by what has come while another screen is shown.
UpdatesPassedBy ==
    /\ step = "updates" /\ (updates = <<>> \/ ~on_settings)
    /\ step' = "key"
    /\ UNCHANGED <<panelVars, on_settings, updateVars>>

UpdatesPolled ==
    /\ step = "updates" /\ updates = <<>>
    /\ step' = "key"
    /\ UNCHANGED <<panelVars, on_settings, updateVars>>

-----------------------------------------------------------------------------
(* The key of an iteration, if one is pressed *)

KeyTaken == step = "key" /\ step' = "status" /\ UNCHANGED panelVars

\* tokio::spawn; the tasks are numbered by the first number free.
Start(task) == \E t \in 1..MaxTasks :
    /\ tasks[t] = "none" /\ \A u \in 1..(t - 1) : tasks[u] # "none"
    /\ tasks' = [tasks EXCEPT ![t] = task]

\* `c` while an install is under way.
CheckForUpdateAnyTime ==
    /\ KeyTaken /\ on_settings /\ update_state # "checking"
    /\ update_state' = "checking" /\ log' = <<>>
    /\ Start("check")
    /\ UNCHANGED <<on_settings, updates, installed>>

CheckForUpdate ==
    /\ KeyTaken /\ on_settings /\ update_state \notin {"checking", "applying"}
    /\ update_state' = "checking" /\ log' = <<>>
    /\ Start("check")
    /\ UNCHANGED <<on_settings, updates, installed>>

\* `u`, first and second, on whatever screen.
ConfirmApply ==
    /\ KeyTaken /\ update_state = "available"
    /\ update_state' = "confirm"
    /\ UNCHANGED <<on_settings, log, updates, tasks, installed>>

ApplyUpdate ==
    /\ KeyTaken /\ update_state = "confirm"
    /\ update_state' = "applying" /\ log' = <<>>
    /\ Start("daemon") /\ installed' = {}
    /\ UNCHANGED <<on_settings, updates>>

\* Esc, on whatever screen.
Decline ==
    /\ KeyTaken /\ update_state = "confirm"
    /\ update_state' = "available"
    /\ UNCHANGED <<on_settings, log, updates, tasks, installed>>

\* Any other key, and none; some of them lead to Settings or away.
OtherKey == KeyTaken /\ on_settings' \in BOOLEAN /\ UNCHANGED updateVars

-----------------------------------------------------------------------------
(* The tasks *)

\* A fetch answers; of art, only if it can be had.
FetchEnds(panel, key) ==
    /\ fetching[panel][key] > 0
    /\ fetching' = [fetching EXCEPT ![panel][key] = @ - 1]
    /\ \/ arrived' = [arrived EXCEPT ![panel] = Append(@, key)]
       \/ panel = "art" /\ UNCHANGED arrived
    /\ UNCHANGED <<step, wanted, shown, on_settings, updateVars>>

Sends(event) == Len(updates) < MaxQueued /\ updates' = Append(updates, event)
TaskGoes(t, from, to) == tasks[t] = from /\ tasks' = [tasks EXCEPT ![t] = to]
TaskFrame == UNCHANGED <<step, panelVars, on_settings, update_state, log>>

CheckEnds(t) ==
    /\ TaskGoes(t, "check", "none")
    /\ \E event \in Checked \cup {"check failed"} : Sends(event)
    /\ TaskFrame /\ UNCHANGED installed

\* A line of cargo's.
Progress(t) ==
    /\ tasks[t] \in Packages /\ Sends(tasks[t])
    /\ TaskFrame /\ UNCHANGED <<tasks, installed>>

DaemonInstalled(t) ==
    /\ TaskGoes(t, "daemon", "tui")
    /\ installed' = installed \cup {"daemon"}
    /\ TaskFrame /\ UNCHANGED updates

TuiInstalled(t) ==
    /\ TaskGoes(t, "tui", "none") /\ Sends("installed")
    /\ installed' = installed \cup {"tui"}
    /\ TaskFrame

\* A failed daemon passed over.
InstallGoesOn(t) ==
    /\ \/ TaskGoes(t, "daemon", "tui") /\ UNCHANGED updates
       \/ TaskGoes(t, "tui", "none") /\ Sends("install failed")
    /\ TaskFrame /\ UNCHANGED installed

\* The first package that fails ends the install.
InstallFails(t) ==
    /\ TaskGoes(t, "daemon", "none") \/ TaskGoes(t, "tui", "none")
    /\ Sends("install failed")
    /\ TaskFrame /\ UNCHANGED installed

-----------------------------------------------------------------------------
KeyPressed == CheckForUpdate \/ ConfirmApply \/ ApplyUpdate \/ Decline \/ OtherKey

Loop ==
    \/ \E song \in Songs \cup {NoSong} : FetchStatus(song)
    \/ \E panel \in Panels : Take(panel) \/ Drained(panel)
    \/ PollUpdate \/ UpdatesPolled \/ KeyPressed

UpdateTask(t) ==
    CheckEnds(t) \/ Progress(t) \/ DaemonInstalled(t) \/ TuiInstalled(t) \/ InstallFails(t)

Next ==
    \/ Loop
    \/ \E panel \in Panels, key \in Keys : FetchEnds(panel, key)
    \/ \E t \in 1..MaxTasks : UpdateTask(t)

\* The loop turns: a poll for keys ends after its 250 ms.  Nothing is assumed
\* of the tasks, whose requests have no timeout.
Spec == Init /\ [][Next]_vars /\ WF_vars(Loop)

-----------------------------------------------------------------------------
(* Properties *)

Events == Checked \cup Failures \cup Packages \cup {"installed"}

\* The types; in particular the log never outgrows what is kept of it.
TypeOK ==
    /\ step \in Panels \cup {"status", "updates", "key"}
    /\ wanted \in [Panels -> Keys \cup {NoKey}] /\ shown \in [Panels -> Keys \cup {NoKey}]
    /\ fetching \in [Panels -> [Keys -> 0..MaxFetches]]
    /\ arrived \in [Panels -> Seq(Keys)]
    /\ on_settings \in BOOLEAN
    /\ update_state \in {"idle", "checking", "upToDate", "available", "confirm",
                         "applying", "applied", "failed"}
    /\ log \in Seq(Packages) /\ Len(log) <= LogLines
    /\ updates \in Seq(Events)
    /\ tasks \in [1..MaxTasks -> {"none", "check"} \cup Packages]
    /\ installed \subseteq Packages

\* Skipping through songs never leaves one's art or lyrics on the panel of
\* another, whatever order the fetches end in.
PanelsShowCurrentSong == \A p \in Panels : shown[p] \in {wanted[p], NoKey}

\* "Loading lyrics..." is never shown for good: a fetch of the lyrics wanted is
\* under way, or has arrived and is still to be taken.
LoadingIsUnderWay ==
    LET song == wanted["lyrics"] IN
    song # NoKey /\ shown["lyrics"] = NoKey =>
        fetching["lyrics"][song] > 0
          \/ \E n \in DOMAIN arrived["lyrics"] : arrived["lyrics"][n] = song

\* What of a check, or of an install, is under way: the task, or its last
\* event on its way to the loop.
Running(kinds) == {t \in DOMAIN tasks : tasks[t] \in kinds}
OnTheWay(events) == {n \in DOMAIN updates : updates[n] \in events}
ChecksUnderWay ==
    Cardinality(Running({"check"})) + Cardinality(OnTheWay(Checked \cup {"check failed"}))
InstallsUnderWay ==
    Cardinality(Running(Packages)) + Cardinality(OnTheWay({"installed", "install failed"}))

\* "ignored if one (or an apply) is already in flight": never two tasks, and
\* the state on screen is that of the one there is; so no late answer of one
\* overwrites what another has to say.
StateIsThatOfTask ==
    /\ ChecksUnderWay = IF update_state = "checking" THEN 1 ELSE 0
    /\ InstallsUnderWay = IF update_state = "applying" THEN 1 ELSE 0

\* "Re-installs both binaries": Applied is shown of no half of them.
AppliedMeansBoth == update_state = "applied" => installed = Packages

\* A finished task "must still land its result even if the user switched away
\* while it ran".
ResultsLand ==
    update_state \in {"checking", "applying"} /\ Running({"check"} \cup Packages) = {}
        ~> update_state \notin {"checking", "applying"}
=============================================================================
