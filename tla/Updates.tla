------------------------------- MODULE Updates -------------------------------
(***************************************************************************)
(* The app updater of eir-svc as the decision loop sees it: when a cycle   *)
(* starts (schedule, Run now, Retry of one app), the detached task that    *)
(* checks and heals apps (updater/orchestrator.rs) under its one-hour      *)
(* watchdog, the fold of its summary into the page, the attempts and the   *)
(* cycle status kept in the database (updater/history.rs), the pause of    *)
(* apps that keep failing (updater/backoff.rs), the user's ignore list,    *)
(* and what a restart restores.                                            *)
(*                                                                         *)
(* Time is counted in days.  What the sources offer and how the healing of *)
(* one app ends are chosen here; UpdateCheck and Healing model them.       *)
(***************************************************************************)
EXTENDS Integers, FiniteSets

CONSTANTS
    Apps,      \* app identities
    Warning,   \* the id of the row warning_row makes ("update-check")
    Cap,       \* max_apps_per_run
    Interval,  \* schedule_interval_secs, in days
    Window,    \* attempt_records looks this many days back
    LastDay,   \* bound on the clock
    MaxRuns,   \* bound on cycles and retries
    MaxEdits,  \* bound on settings changed, notes edited, pauses and games
    MaxFaults  \* bound on failed writes and reads and on crashes

ASSUME UpdatesAssumption ==
    /\ Warning \notin Apps /\ IsFiniteSet(Apps)
    /\ {Cap, Interval, LastDay} \subseteq Nat \ {0}
    /\ {Window, MaxRuns, MaxEdits, MaxFaults} \subseteq Nat

VARIABLES
    today,          \* the clock
    mode,           \* "on", "paused" (st.paused) or "gaming"
    enabled,        \* cfg.updater.enabled
    ignored,        \* cfg.updater.ignored
    notes,          \* cfg.updater.notes: "none", "user" or "learned" (also in learned_notes)
    busy,           \* st.updater_running
    cycleTask,      \* the task of spawn_update_cycle and its summary
    lastRun,        \* st.updater.last_run; Never is 0
    rows,           \* st.updater.apps: the state of each listed row, "off" is not listed
    disk,           \* app_state: last run, last clean run and the stored cycle status
    tried,          \* update_attempts: per app, the runs that recorded attempts
    cleared,        \* history_cleared_at: the last run it hides
    runs,           \* cycles begun so far; cycle_id orders them
    edits, faults,  \* used up from MaxEdits, MaxFaults
    failing,        \* history: per app, failed runs in a row and the day of the last
    passed,         \* history: per app, how often others were taken before it by a
                    \* cycle that could read when each was last tried
    lost,           \* history: apps taken by such a cycle whose attempt was not
                    \* recorded
    unsaved,        \* history: the stored status is not of the last full cycle
                    \* and the page: a save has failed
    ended           \* history: the day the last full cycle was folded

clock   == <<today, mode>>
config  == <<enabled, ignored, notes>>
page    == <<lastRun, rows>>
pastRuns == <<tried, cleared>>
bounds  == <<runs, edits, faults>>
ghosts  == <<failing, passed, lost, unsaved, ended>>
updVars == <<clock, config, busy, cycleTask, page, disk, pastRuns, bounds, ghosts>>

-----------------------------------------------------------------------------
(* Types *)

Never == 0
Days == 0..LastDay
Listed == Apps \cup {Warning}
RowState == {"off", "updated", "current", "failed"}
Runs == 0..MaxRuns
NoRows == [r \in Listed |-> "off"]
NoStatus == [at |-> Never, rows |-> NoRows]

NoTarget == Warning          \* a full cycle
Task == [stage : {"none", "checking", "healing", "summary"},
         target : Listed, run : Runs,
         ignored : SUBSET Apps,   \* the config the task was spawned with
         guided : BOOLEAN,        \* the target has guidance in that config
         todo : SUBSET Apps,      \* candidates still to heal
         timed : BOOLEAN,         \* last_attempt_times could be read
         results : [Apps -> RowState],
         errors : BOOLEAN,        \* had_errors, or apps past the cap
         clean : BOOLEAN,         \* clean_at > 0
         learned : BOOLEAN]       \* learned_guidance
NoResults == [a \in Apps |-> "off"]
NoTask == [stage |-> "none", target |-> NoTarget, run |-> 0, ignored |-> {},
           guided |-> FALSE, todo |-> {}, timed |-> FALSE, results |-> NoResults,
           errors |-> FALSE, clean |-> FALSE, learned |-> FALSE]

\* One run of one app, all its attempts together: they share cycle and time.
TriedRun == [run : Runs, settled : BOOLEAN, day : Days]

UpdatesTypeOK ==
    /\ today \in Days /\ mode \in {"on", "paused", "gaming"}
    /\ enabled \in BOOLEAN /\ ignored \subseteq Apps
    /\ notes \in [Apps -> {"none", "user", "learned"}]
    /\ busy \in BOOLEAN /\ cycleTask \in Task
    /\ lastRun \in Days /\ rows \in [Listed -> RowState]
    /\ disk.run \in Days /\ disk.clean \in Days
    /\ disk.status.at \in Days /\ disk.status.rows \in [Listed -> RowState]
    /\ tried \in [Apps -> SUBSET TriedRun] /\ cleared \in Runs
    /\ runs \in Runs /\ edits \in 0..MaxEdits /\ faults \in 0..MaxFaults
    /\ (cycleTask.stage # "none" <=> busy)

UpdatesInit ==
    /\ today = 1 /\ mode = "on"
    /\ enabled = TRUE /\ ignored = {} /\ notes = [a \in Apps |-> "none"]
    /\ busy = FALSE /\ cycleTask = NoTask
    /\ lastRun = Never /\ rows = NoRows
    /\ disk = [run |-> Never, clean |-> Never, status |-> NoStatus]
    /\ tried = [a \in Apps |-> {}] /\ cleared = 0
    /\ runs = 0 /\ edits = 0 /\ faults = 0
    /\ failing = [a \in Apps |-> [n |-> 0, day |-> 0]]
    /\ passed = [a \in Apps |-> 0]
    /\ lost = 0 /\ unsaved = FALSE /\ ended = Never

\* A write, a read or a task fails; the bound keeps failures from hiding the rest.
Fault == faults < MaxFaults /\ faults' = faults + 1
Outcome(ok) == IF ok THEN UNCHANGED faults ELSE Fault

-----------------------------------------------------------------------------
(* What the history says: updater/history.rs, updater/backoff.rs *)

Largest(S) == CHOOSE x \in S : \A y \in S : y <= x

\* attempt_records: since the last Clear and within the window.
Records(a) == {r \in tried[a] : r.run > cleared /\ today - r.day < Window}

\* last_attempt_times: all of them, whatever was cleared; 0 is never tried.
LastTried(a) == Largest({0} \cup {r.run : r \in tried[a]})

PauseDays(n) == CASE n < 2 -> 0 [] n = 2 -> 2 [] n = 3 -> 4 [] OTHER -> 7

\* Mutant: every failed run counts, whatever succeeded in between.
FailedEver(a) == {r \in Records(a) : ~r.settled}

\* The runs after the last one that settled: how often the app failed in a row.
FailedRuns(a) ==
    LET settled == {r.run : r \in {s \in Records(a) : s.settled}}
    IN  {r \in Records(a) : \A s \in settled : s < r.run}

\* paused_apps
Paused(a) ==
    LET failed == FailedRuns(a)
    IN  /\ Cardinality(failed) >= 2
        /\ today < Largest({r.day : r \in failed}) + PauseDays(Cardinality(failed))

\* recent: the newest attempt the page would show, as a day.
Recent == Largest({0} \cup {r.day : r \in {s \in UNION {tried[a] : a \in Apps} :
                                               s.run > cleared}})

-----------------------------------------------------------------------------
(* A cycle starts *)

Spawn(target) ==
    /\ runs < MaxRuns /\ runs' = runs + 1
    /\ busy' = TRUE
    /\ cycleTask' = [NoTask EXCEPT !.stage = "checking", !.target = target,
                              !.run = runs + 1, !.ignored = ignored,
                              !.guided = target \in Apps /\ notes[target] # "none"]

\* updater_due, in every tick of the loop, a paused one included.
Due == /\ enabled /\ mode = "on" /\ ~busy
       /\ lastRun = Never \/ today - lastRun >= Interval

Scheduled ==
    /\ Due
    /\ Spawn(NoTarget)
    /\ UNCHANGED <<clock, config, page, disk, pastRuns, edits, faults, ghosts>>

\* RunUpdatesNow: an explicit request is served during a game, not while paused.
RunUpdatesNow ==
    /\ mode # "paused" /\ ~busy
    /\ Spawn(NoTarget)
    /\ UNCHANGED <<clock, config, page, disk, pastRuns, edits, faults, ghosts>>

\* RetryAppUpdate: only a row the page shows as failed.
RetryAppUpdate(a) ==
    /\ mode # "paused" /\ ~busy /\ rows[a] = "failed"
    /\ Spawn(a)
    /\ UNCHANGED <<clock, config, page, disk, pastRuns, edits, faults, ghosts>>

-----------------------------------------------------------------------------
(* The task: run_cycle *)

Full == cycleTask.target = NoTarget

\* Mutant: the first ones the sources list, not the stalest.
TakesAny(taken, eligible, timed) ==
    /\ taken \subseteq eligible
    /\ taken = eligible \/ Cardinality(taken) = Cap

\* Stalest first: the apps a cycle takes when the cap leaves some for later.
\* With no times to go by, the first ones the sources list.
Takes(taken, eligible, timed) ==
    /\ taken \subseteq eligible
    /\ taken = eligible \/ Cardinality(taken) = Cap
    /\ timed => \A a \in taken, b \in eligible \ taken : LastTried(a) <= LastTried(b)

\* The check is done: a paused app is listed as failed and not tried.  Times of
\* the last tries that cannot be read are no error: the order is lost.
CheckAll(offered, taken, sound, readable, timed) ==
    LET paused == {a \in offered : readable /\ Paused(a)}
        eligible == offered \ paused
        passedBy == IF timed THEN eligible \ taken ELSE {}
    IN  /\ cycleTask.stage = "checking" /\ Full
        /\ offered \subseteq Apps \ cycleTask.ignored
        /\ Cardinality(taken) <= Cap /\ Takes(taken, eligible, timed)
        /\ Outcome(sound /\ readable /\ timed)
        /\ cycleTask' = [cycleTask EXCEPT
               !.stage = "healing", !.todo = taken, !.timed = timed,
               !.results = [a \in Apps |-> IF a \in paused THEN "failed" ELSE "off"],
               !.errors = ~sound \/ ~readable \/ taken # eligible]
        /\ passed' = [a \in Apps |-> IF a \in passedBy THEN passed[a] + 1 ELSE passed[a]]
        /\ lost' = IF timed THEN lost + Cardinality(taken) ELSE lost
        /\ UNCHANGED <<clock, config, busy, page, disk, pastRuns, runs, edits,
                       failing, unsaved, ended>>

\* record_attempts, one transaction.  Only then is the try known to later runs.
RecordCycleAttempt(a, result, saved) ==
    IF saved
    THEN LET settled == result # "failed"
         IN  /\ tried' = [tried EXCEPT ![a] = @ \cup
                    {[run |-> cycleTask.run, settled |-> settled, day |-> today]}]
             /\ failing' = [failing EXCEPT ![a] =
                    IF settled THEN [n |-> 0, day |-> 0]
                    ELSE [n |-> @.n + 1, day |-> today]]
             /\ passed' = [passed EXCEPT ![a] = 0]
    ELSE UNCHANGED <<tried, failing, passed>>

\* In the order they were taken; the next app waits for the outcome of this one.
HealOne(a, result, saved) ==
    /\ cycleTask.stage = "healing" /\ Full
    /\ a \in cycleTask.todo
    /\ cycleTask.timed => \A b \in cycleTask.todo : LastTried(a) <= LastTried(b)
    /\ result \in {"updated", "current", "failed"}
    /\ Outcome(saved)
    /\ RecordCycleAttempt(a, result, saved)
    /\ cycleTask' = [cycleTask EXCEPT !.todo = @ \ {a}, !.results[a] = result,
                            !.errors = @ \/ ~saved]
    /\ lost' = IF saved /\ cycleTask.timed THEN lost - 1 ELSE lost
    /\ UNCHANGED <<clock, config, busy, page, disk, cleared, runs, edits,
                   unsaved, ended>>

\* A clean cycle is one where nothing failed and nothing was left out.
Finish(saved) ==
    LET clean == ~cycleTask.errors /\ \A a \in Apps : cycleTask.results[a] # "failed"
    IN  /\ cycleTask.stage = "healing" /\ Full /\ cycleTask.todo = {}
        /\ Outcome(saved) /\ (saved \/ clean)
        /\ cycleTask' = [cycleTask EXCEPT !.stage = "summary", !.clean = clean /\ saved]
        /\ disk' = IF clean /\ saved THEN [disk EXCEPT !.clean = today] ELSE disk
        /\ UNCHANGED <<clock, config, busy, page, pastRuns, runs, edits, ghosts>>

\* run_retry: the row's app alone, whatever is ignored, learned or paused.
\* No candidate is "current" when the check was sound and "failed" when not.
RetryOne(offered, sound, result, saved) ==
    LET a == cycleTask.target
    IN  /\ cycleTask.stage = "checking" /\ ~Full
        /\ result \in (IF offered THEN {"updated", "current", "failed"}
                       ELSE IF sound THEN {"current"} ELSE {"failed"})
        /\ Outcome(sound /\ saved)
        /\ RecordCycleAttempt(a, result, saved)
        /\ cycleTask' = [cycleTask EXCEPT !.stage = "summary", !.results[a] = result,
                        !.learned = cycleTask.guided /\ result = "updated"]
        /\ UNCHANGED <<clock, config, busy, page, disk, cleared, runs, edits,
                       lost, unsaved, ended>>

\* Mutant: the stopped task sends no summary.
WatchdogSilent ==
    /\ cycleTask.stage \in {"checking", "healing"}
    /\ cycleTask' = NoTask
    /\ UNCHANGED <<clock, config, busy, page, disk, pastRuns, bounds, ghosts>>

\* The watchdog stops the task after an hour, or the task panics: the summary
\* is empty and says nothing of what the task had done.
Watchdog ==
    /\ cycleTask.stage \in {"checking", "healing"}
    /\ cycleTask' = [NoTask EXCEPT !.stage = "summary", !.target = cycleTask.target,
                              !.run = cycleTask.run]
    /\ UNCHANGED <<clock, config, busy, page, disk, pastRuns, bounds, ghosts>>

-----------------------------------------------------------------------------
(* The fold of the summary, in the update_done_rx arm *)

\* app_rows: an empty result that is not clean is one row that says so.
AppRows == [r \in Listed |->
    IF r = Warning
    THEN IF ~cycleTask.clean /\ cycleTask.results = NoResults THEN "failed" ELSE "off"
    ELSE cycleTask.results[r]]

\* A retry replaces or adds its row and leaves the others.
Merged == [r \in Listed |-> IF AppRows[r] = "off" THEN rows[r] ELSE AppRows[r]]

\* Mutant: the run is stored without its rows.
SaveRun(at, shown, saved) ==
    /\ disk' = IF at > Never /\ saved THEN [disk EXCEPT !.run = at] ELSE disk
    /\ unsaved' = IF at > Never THEN ~saved \/ (unsaved /\ at # ended') ELSE unsaved

\* record_cycle_status, one transaction: the run and its rows.
SaveStatus(at, shown, saved) ==
    /\ disk' = IF at > Never /\ saved
               THEN [disk EXCEPT !.run = at, !.status = [at |-> at, rows |-> shown]]
               ELSE disk
    /\ unsaved' = IF at > Never THEN ~saved \/ (unsaved /\ at # ended') ELSE unsaved

\* Mutant: the end of a retry counts as the end of a day's run.
RunAfterAny == today

\* The scheduler's time moves only with a full cycle.
RunAfter == IF Full THEN today ELSE lastRun

\* set_learned_guidance needs its own save; failing it only adds a note.
FoldCycle(learnSaved, saved) ==
    LET shown == IF Full THEN AppRows ELSE Merged
    IN  /\ cycleTask.stage = "summary"
        /\ learnSaved \/ cycleTask.learned
        /\ Outcome(saved /\ learnSaved)
        /\ busy' = FALSE /\ cycleTask' = NoTask
        /\ notes' = IF cycleTask.learned /\ learnSaved
                    THEN [notes EXCEPT ![cycleTask.target] = "learned"] ELSE notes
        /\ lastRun' = RunAfter
        /\ rows' = shown
        /\ ended' = IF Full THEN today ELSE ended
        /\ SaveStatus(RunAfter, shown, saved)
        /\ UNCHANGED <<clock, enabled, ignored, pastRuns, runs, edits,
                       failing, passed, lost>>

-----------------------------------------------------------------------------
(* The user's requests *)

Edit == edits < MaxEdits /\ edits' = edits + 1

\* SetAppIgnore(ignore): saved in config.toml first, then hidden at once, the
\* stored status included.
IgnoreApp(a, saved) ==
    LET shown == [rows EXCEPT ![a] = "off"]
    IN  /\ Edit
        /\ rows[a] # "off" \/ a \in ignored
        /\ ignored' = ignored \cup {a}
        /\ rows' = shown
        /\ Outcome(saved)
        /\ UNCHANGED <<clock, enabled, notes, busy, cycleTask, lastRun, pastRuns, runs,
                       failing, passed, lost, ended>>
        /\ SaveStatus(lastRun, shown, saved)

\* SetAppIgnore(unignore): the app comes back with the next check.
UnignoreApp(a) ==
    /\ Edit
    /\ a \in ignored
    /\ ignored' = ignored \ {a}
    /\ UNCHANGED <<clock, enabled, notes, busy, cycleTask, page, disk, pastRuns, runs,
                   faults, ghosts>>

\* SetAppNote: create, replace or delete the guidance of a known app.
SetAppNote(a, note) ==
    /\ Edit
    /\ rows[a] # "off" \/ notes[a] # "none"
    /\ note \in {"none", "user"} /\ note # notes[a]
    /\ notes' = [notes EXCEPT ![a] = note]
    /\ UNCHANGED <<clock, enabled, ignored, busy, cycleTask, page, disk, pastRuns, runs,
                   faults, ghosts>>

\* UpdateUpdaterSettings
SetEnabled ==
    /\ Edit
    /\ enabled' = ~enabled
    /\ UNCHANGED <<clock, ignored, notes, busy, cycleTask, page, disk, pastRuns, runs,
                   faults, ghosts>>

\* ClearUpdateHistory: refused during a cycle; the schedule and the fair order
\* of the apps stay, the count of failures starts over.
ClearHistory ==
    /\ ~busy
    /\ Edit
    /\ cleared' = runs
    /\ disk' = [disk EXCEPT !.status = [at |-> disk.run, rows |-> NoRows]]
    /\ rows' = NoRows
    /\ failing' = [a \in Apps |-> [n |-> 0, day |-> 0]]
    /\ UNCHANGED <<clock, config, busy, cycleTask, lastRun, tried, runs, faults,
                   passed, lost, unsaved, ended>>

\* Pause, resume, a game begins or ends (DecisionLoop and GameMode model them).
SetMode(m) ==
    /\ Edit
    /\ m # mode /\ mode' = m
    /\ UNCHANGED <<today, config, busy, cycleTask, page, disk, pastRuns, runs, faults,
                   ghosts>>

NextDay ==
    /\ today < LastDay /\ ~busy
    /\ today' = today + 1
    /\ UNCHANGED <<mode, config, busy, cycleTask, page, disk, pastRuns, bounds, ghosts>>

-----------------------------------------------------------------------------
(* Crash and restart *)

SeedRun == IF disk.run > Never THEN disk.run
           ELSE IF Recent > disk.clean THEN Recent ELSE disk.clean

\* The stored rows of the last run without the ignored ones, or a warning.
SeedRows ==
    IF disk.status.at > Never /\ disk.status.at = SeedRun
    THEN [r \in Listed |-> IF r \in ignored THEN "off" ELSE disk.status.rows[r]]
    ELSE IF SeedRun > Never /\ disk.clean # SeedRun
    THEN [NoRows EXCEPT ![Warning] = "failed"]
    ELSE NoRows

\* The task and its command die with the process (kill_on_drop).
ServiceRestarts ==
    /\ Fault
    /\ busy' = FALSE /\ cycleTask' = NoTask
    /\ lastRun' = SeedRun
    /\ rows' = SeedRows
    /\ UNCHANGED <<clock, config, disk, pastRuns, runs, edits, ghosts>>

-----------------------------------------------------------------------------
Work ==
    \/ \E offered, taken \in SUBSET Apps, sound, readable, timed \in BOOLEAN :
           CheckAll(offered, taken, sound, readable, timed)
    \/ \E a \in Apps, result \in RowState, saved \in BOOLEAN : HealOne(a, result, saved)
    \/ \E saved \in BOOLEAN : Finish(saved)
    \/ \E offered, sound, saved \in BOOLEAN, result \in RowState :
           RetryOne(offered, sound, result, saved)

Folds == \E learnSaved, saved \in BOOLEAN : FoldCycle(learnSaved, saved)

Requests ==
    \/ RunUpdatesNow \/ SetEnabled \/ ClearHistory
    \/ \E a \in Apps : \/ RetryAppUpdate(a) \/ UnignoreApp(a)
                       \/ \E saved \in BOOLEAN : IgnoreApp(a, saved)
                       \/ \E note \in {"none", "user"} : SetAppNote(a, note)

UpdatesNext ==
    \/ Scheduled \/ Work \/ Watchdog \/ Folds \/ Requests \/ NextDay \/ ServiceRestarts
    \/ \E m \in {"on", "paused", "gaming"} : SetMode(m)

UpdatesSpec == UpdatesInit /\ [][UpdatesNext]_updVars

-----------------------------------------------------------------------------
(* Properties *)

(* The schedule: whatever retries, aborts, restarts and clears happened,   *)
(* the time the scheduler counts from is the end of the last full cycle    *)
(* (fold at main.rs:2028, seed at main.rs:1677).                           *)
ScheduleTrue == ended > Never /\ ~unsaved => lastRun = ended

(* A restart shows the rows the page showed, and a warning only if it did: *)
(* each of fold, ignore and clear leaves the stored status equal to the    *)
(* page.  An ignored app may be on the page (see IgnoredStaysOff), never   *)
(* on the restored one; unignored after that, the next restart lists it.   *)
EvidenceSurvives ==
    ended > Never /\ ~unsaved =>
        /\ \A r \in Listed \ ignored : rows[r] # "off" => SeedRows[r] = rows[r]
        /\ SeedRows[Warning] = rows[Warning]

(* The pause computed from the stored attempts is the one the runs of each *)
(* app earned: two failed runs in a row and more, counted since the last   *)
(* that settled or the last Clear (backoff.rs:63), as long as the window   *)
(* in which attempts are read holds all of them.                           *)
PausesEarned ==
    today <= Window => \A a \in Apps :
        Paused(a) <=> /\ failing[a].n >= 2
                      /\ today < failing[a].day + PauseDays(failing[a].n)

(* No app starves: between two tries of one app the others go first at     *)
(* most once each (orchestrator.rs:400), but for an aborted or unrecorded  *)
(* try and for the cycles that could not read when each app was last       *)
(* tried: those take them in the order of the sources and say nothing      *)
(* (orchestrator.rs:398).                                                  *)
FairRotation == \A a \in Apps : passed[a] <= Cardinality(Apps) - 1 + lost

(* One property for the runs: what the attempts leave is sound.            *)
AttemptsSound == UpdatesTypeOK /\ PausesEarned /\ FairRotation

(* What the comment at main.rs:1694 says of the page: an ignored app is    *)
(* not listed.                                                             *)
IgnoredStaysOff == \A a \in ignored : rows[a] = "off"
=============================================================================
