# Eir: a TLA+ model of the service, its checks and its proofs

Eir is an AI system-maintenance assistant: a privileged background service (`eir-svc`)
watches a machine, asks an AI provider what is wrong, and runs the fixes that policy or
the user allows; a tray application (`eir-ui`) or `eirctl` (`eir-cli`) talks to it over a
named pipe or a Unix socket with the messages of `eir-proto`.

This directory holds TLA+ modules translated from the Rust source, the configurations
TLC checks them with, and theorems about them checked by TLAPS. A module is named after
the component it models; its header says which files it reads. `PROJECT.json` gives, for
every definition, the source lines it stands for.

## 1. The system

Everything stateful lives in one process. `eir-svc/src/main.rs` runs a *decision loop*: a
single task that owns `SvcState` (what the tray is shown) and a dozen local variables, and
`select!`s over messages from the pipe, results of background tasks and timers. Between two
`.await`s of a handler the loop does not take another event, but every other task of the
process runs: the executor worker, the power-plan worker, spawned analyses, update cycles,
scans and undos, and the collectors. They meet in the SQLite database, in channels, and on
the machine itself. The process can be killed at any point; the database and the files of
the configuration survive.

| Component | State | Operations | Interacts through | Hard behaviour | Makes it correct |
|---|---|---|---|---|---|
| Approval queue, routing, executor worker (`main.rs`, `audit.rs`) | `pending_approvals` rows, `st.pending`, `st.in_flight`, job and outcome channels | route a problem, approve, reject, always, ignore, run, commit, requeue, sweep at start | channels, database, pipe | interleavings at awaits, crash, partial commit | one run per click, nothing stranded, no double run |
| Policy gate (`policy/mod.rs`, `models.rs`) | policy, session grants | `evaluate` | called by routing | grants for scripts | a script needs its own click |
| Preferences (`prefs.rs`) | `action_preferences` | set, clear, look up | database | preferences of older builds | an ignored key is not shown or run |
| Rate limiter (`safety.rs`) | `execution_log` window | `rate_limited` | database | check, then run later | a limit read still holds when the fix runs |
| Game Mode (`game_mode.rs`, `main.rs`) | manual latch, lease, `was_gaming`, edge channel, `power_restore_guid` | start, end, lapse, restore | unbounded channel, database, `powercfg` | crash while boosted, lease lapse, abort | a boost always has a recorded way back |
| Registry undo (`executor/registry.rs`, `audit.rs`) | `registry_undo` rows, Undo buttons | reset, claim, restore, unclaim | spawned tasks, database, registry | concurrent undo, newer value, crash | an undo runs once and never over a newer value |
| Decision loop pacing (`main.rs`) | `react_at`, `last_cycle_at`, `analysis_running`, `last_fingerprint` | trigger, debounce, tick, analyse, fold | watchers, timers | a trigger during an analysis, pause, no tray | a trigger is analysed; no tick loop spins |
| Updater: cycle, schedule, history (`updater/orchestrator.rs`, `history.rs`, `backoff.rs`) | attempts, stored cycle status, the page, notes | schedule, run, retry, watch, fold, ignore, clear, restore | spawned task, database | watchdog in the middle, failed writes, restart | the schedule counts from full cycles, pauses are earned, no app starves |
| Updater: check (`updater/check.rs`, `inventory.rs`, `version.rs`, `names.rs`) | offers, stamps of the AI pass | list, take stock, select a batch, ask, compare | package managers, AI, database | partial inventories, version tails | nothing offered twice, or again after it was verified |
| Updater: heal (`orchestrator.rs`, `methods/`, `plan.rs`, `download.rs`, `verify.rs`, `diagnose.rs`) | attempt, plan, staging directory | dispatch, plan, fetch, verify, launch, read back, diagnose | installers, AI | several failures in a row, abort | what runs is what was checked; a tampered file ends the heal |
| Learning and feedback (`learn/`, `feedback/`) | `learned_facts`, outcomes | detect, reinforce, expire, pin, word, penalise | database, AI | the user and the detectors on one row, a crash while wording | the user wins; only caution is learned |
| Pipe server and client (`pipe_server/`, `eir-ui/pipe_client.rs`) | one connection, queues, result ring, waiters | accept, verify, read, write, correlate, time out, drain | pipe | reconnect, lag, late answers | what a caller is told is true; nothing is replayed |
| Ask Eir (`ask.rs`, `ask_attach.rs`, `eir-cli/unix.rs`) | history, running flag, investigation, attachments | ask, investigate, answer, clear, pick | pipe, spawned task | rejection during an answer, races of a dialog | an attachment is not carried twice, a request ends with its entry |
| Settings (`config.rs`, `updater/config.rs`) | TOML file, backup, temporary file, live copy | load, migrate, save step by step, adopt, restart | files | crash at any step | the next start finds a configuration that was meant |
| Startup and disk scans, digest, provider test (`startup_scan.rs`, `disk_scan.rs`, `digest.rs`) | `*_running` flags, caches, owner | start, time out, fold, toggle | spawned tasks | user switch while scanning, a status built before it | flag released, cache of the right user |
| Collectors: log files (`signals/file_watch.rs`, `log_memory.rs`, `log_parser.rs`) | watched directories, read positions, lines seen, ring | arm, hear, read, drain | file events, two senders of directories | rotation, re-arming, full queue, failed reads | a new error line of a heard write reaches an analysis |
| Collectors: event logs (`signals/event_log/`) | cursors, buffer | poll, drain, persist | Event Log, journald | cleared logs, failed or short polls, restart | each entry told once, no error passed over but at known limits |
| Collectors: system state (`signals/wmi/`) | snapshot cache, fault key | poll, rescan, fold | services, firewall | two writers of one cache, failed reads | a failure keeps its note, a refresh survives |
| Collectors: the screen and the feed (`eir-ui/screen_watch.rs`, `signals/screen.rs`, `signals/feed.rs`) | three memories of repeats | report, take, list, clear | bounded queue | full queue, times out of order | told once, listed once |
| Advisor budget (`main.rs`) | calls of the day | count, roll over | decision loop | UTC midnight during a call | daily cap |
| AI clients (`ai/`) | process, HTTP | complete | subprocess | time-out | external |
| Tray UI (`eir-ui`, `ui/main.js`), `eirctl` (`eir-cli`) | views | commands | pipe | reconnect | mostly presentation |

## 2. Plan

Most important behaviour first; a module is checked, then proved about.

1. `Approvals`, `ApprovalContract`, `Approvals_proofs` - **done**.
2. `GameMode`, `GameMode_proofs` - **done**.
3. `DecisionLoop`, `DecisionLoop_proofs` - **done** for pacing, analysis, gates and requests.
4. `RegistryUndo`, `Maintenance_proofs` - **done**.
5. The updater: `Updates`, `UpdateCheck`, `Healing` - **modelled, checked and proved**
   (`Maintenance_proofs`, `AppUpdates_proofs`).
6. The desktop: `PipeLink`, `AskEir`, `Settings` - **modelled, checked and proved**
   (`Desktop_proofs`).
7. The collectors and the jobs: `LogWatcher`, `EventLogs`, `SystemPoll`, `ScreenErrors`,
   `Scans` - **modelled, checked and proved** (`Watching_proofs`).
8. `Learning` - **modelled, checked and proved** (`Maintenance_proofs`).
9. `ApprovalContract` refined by `Approvals` and `NothingStranded` - **proved**.

## 3. Modules and the code they model

`PROJECT.json` maps every definition to its lines; this section says how to read them.
Definitions whose comment begins with "Mutant" are not part of any specification. They are
plausible bugs in the definition that follows (or that they name), and each one makes a
property of a run fail: this is how the properties are known to look at the code.

History variables (`clicks`, `runs`, `boosted`, `failed`, `urgent`, `sinceStart`, `held`,
`owed`, `taken`, `ours`, `cutOff`, `shown` of `RegistryUndo`; `ended`, `failing`, `passed`,
`lost`, `unsaved` of `Updates`; `overtook`, `settled` of `UpdateCheck`; `calls`, `chosen` of
`Learning`; `worked` of `Settings`; `queuedLink`, `sentLink`, `answered` of `PipeLink`;
`leftover` of `Healing`; `toggled` of `Scans`; `owed` of `LogWatcher`;
`drained`, `due` of `EventLogs`; `lastSeen`, `working` of
`SystemPoll`; `lastQueued` of `ScreenErrors`) record what happened for the properties; no
guard reads one, except where it names a bound (`clicks < MaxClicks`) or says which ids a
client can know (`shown`).

### Approvals (`main.rs`, `audit.rs`, `safety.rs`, `prefs.rs`, `migrations/0006`)

Three actors interleave at the awaits of the code: the decision loop, the serial executor
worker and the database they share.

| Model | Code |
|---|---|
| `status`, `keyOf` | rows of `pending_approvals`; the table's conditional updates are the guards |
| `pref` | `action_preferences` |
| `succ`, `fail` | rows of `execution_log` inside the rate-limit window |
| `cards`, `inFlight`, `loop` | `st.pending`, `st.in_flight`, and the handler the loop is in between two awaits |
| `queue`, `worker`, `done` | `exec_tx`, the worker task, `exec_done_tx` |
| `RouteAuto`, `RouteUserAuto`, `RouteCard`, `RouteUserCard` | the routing of a problem the AI found, and of a fix a user asks for by id |
| `Approve`, `Reject`, `Ignore`, `AlwaysApprove`, `ClearPreference`, `ClaimAlways` | the arms of the message handler and `claim_approval` |
| `Preflight*`, `Enqueue*`, `Retire` | `approved_action_ready`, the branches after it, the deletion of a row |
| `Start`, `Finish`, `Commit`, `CommitFails`, `RollBack` | the worker and `persist_execution` |
| `FoldOutcome` | the `exec_done_rx` arm and the reload of the cards |
| `Stop`, `Exit`, `Crash`, `Restart` | shutdown (the loop future is dropped, the worker drains), process death, startup's requeue, sweep and clean-up |

Order is kept where it matters: the whitelist, preference and rate limit are read in the
step before the enqueue, so that a job can start under a limit that has since changed. With
`DbFaults` every database call may fail, and take the branch the code takes then.

`ApprovalContract` is what the queue promises about one row, in 40 lines: a row is shown,
granted, started, returned or closed; a crash or a failed call loses a grant, which is
recovered at startup by *showing the row again*, never by running it. `Approvals!Contract`
instantiates it with the phase of a row computed from the row, the loop, the queue and the
worker.

### GameMode (`game_mode.rs`, `main.rs`)

| Model | Code |
|---|---|
| `manual`, `lease`, `wasGaming` | `st.gaming_manual`, `st.gaming_until > now`, `was_gaming` |
| `edges` | the unbounded edge channel (bounded here by `MaxEdges`) |
| `worker` | which call of `on_gaming_edge` or `restore` comes next |
| `saved`, `scheme` | `power_restore_guid` in `app_state`, the active power plan |
| `SetGaming`, `Tick`, `LeaseLapses` | the message, the tick's reconciliation, and a lapse nobody announces |
| `BoostEdge`, `Save`, `Switch`; `RestoreEdge`, `ReadSaved`, `RestoreScheme`, `Forget` | one step per external call |
| `Start`, `Stop`, `Crash` | restore at startup; close, abort, restore at shutdown; death at any step |
| `UserPicks` | the user changes the plan in Windows |

A call that fails may have taken effect (`powercfg` timed out), and a call that is cut off
by an abort or a crash may too (`CallLands`).

### DecisionLoop (`main.rs`)

| Model | Code |
|---|---|
| `buffered`, `faults`, `ping` | collectors' buffers, `fault_parts` of the last poll, the trigger channel of capacity 1 |
| `reactIn`, `sinceCycle` | `react_at`, `last_cycle_at`, as durations |
| `running`, `analysis`, `lastFp`, `heartbeat` | `analysis_running`, the spawned task and its message, `last_fingerprint`, `ANALYSIS_HEARTBEAT` |
| `paused`, `tray`, `trayNews`, `provider` | the gates; `ai` is `Some` |
| `wanted`, `wantedRuns` | `st.investigation`, `investigation_in_flight` |
| `Body` | one pass: gated, without a provider (`Unprovided`: the ping is consumed, nothing is drained), bailing out, skipped or beginning an analysis |
| `TickPass`, `ReactionPass`, `TrayArm`, `TriggerArm` | the arms of the `select!` that lead to a pass or set its deadline |
| `AnalysisEnds`, `FoldAnalysis` | the task, and the `analysis_done_rx` arm |
| `Investigate`, `TogglePause`, `ConfigureProvider`, `GameStarts`, `GameEnds` | the messages; `ConfigureProvider` is an `UpdateSettings` whose client can be built |

### RegistryUndo (`executor/registry.rs`, `audit.rs`, `main.rs`)

One registry value. The serial executor resets it (`Snapshot`, `Reset`, `Commit`,
`CommitFails`, `RollBack`), undo tasks claim and restore it (`ClaimUndo`, `Restore`,
`Unclaim`, `ReportUndone`), other programs write it (`OthersWrite`), the loop makes and
retires buttons (`Fold`, `Dropped` for the bounded `recent_executions`). The check and the
write of a script are one PowerShell invocation, hence one step; a script that its time-out
kills may have written.

### Updates (`updater/orchestrator.rs`, `history.rs`, `backoff.rs`, `main.rs`)

The updater as the decision loop sees it. Time is counted in days.

| Model | Code |
|---|---|
| `lastRun`, `rows` | `st.updater.last_run` and the page *Updates Available* |
| `cycleTask`, `busy` | the task of `spawn_update_cycle` with the copy of the settings it was given, `st.updater_running` |
| `disk`, `tried`, `cleared` | `app_state` (last run, last clean run, stored cycle status), `update_attempts`, `history_cleared_at` |
| `Scheduled`, `RunUpdatesNow`, `RetryAppUpdate` | `updater_due` in the tick, the two messages |
| `CheckAll`, `HealOne`, `Finish`, `RetryOne`, `Watchdog` | `run_cycle`, `run_retry` and the one-hour watchdog, whose empty summary says nothing of what was done; `timed` says whether the cycle could read when each app was last tried |
| `FoldCycle` | the `update_done_rx` arm, with its two saves |
| `IgnoreApp`, `UnignoreApp`, `SetAppNote`, `ClearHistory`, `SetEnabled`, `SetMode` | the messages |
| `ServiceRestarts` | start: what `seed_update_status` restores |
| `Paused`, `FailedRuns`, `PauseDays` | `backoff.rs`, computed from the stored attempts |

What a cycle is offered, and how one app ends, are chosen freely here; the next two modules
say how they come about.

### UpdateCheck (`updater/check.rs`, `inventory.rs`, `names.rs`, `version.rs`, `winget_parse.rs`)

`StartCheck` takes a copy of the settings; `NextManager` lists one manager (or fails);
`Inventory` takes stock from winget's list and the registry, either of which may fail, and
selects the batch of the AI pass, stalest first and at most `AiCap`; `Answer` stamps the
batch, `NoAnswer` does not; `Report` is one answered app held against its installed version; `EndCheck`
closes the check. `Install` is an update applied between two checks. A version is the
sequence of its numbers and a tail (`SemVer`, `VersionCmp`, `IsNewer`,
`MarketingTruncation`, `VerdictOn` translate `version.rs`, tails and unknowns included).

### Healing (`updater/orchestrator.rs`, `methods/`, `plan.rs`, `download.rs`, `verify.rs`, `diagnose.rs`, `domain.rs`)

One candidate at a time. `stage` says where `heal` is: `dispatch` of the next method
(`Dispatch`, `DispatchRefused`, `DispatchKillFails`), a command (`CommandSucceeds`,
`CommandFails`, `WingetAgain` for winget's second scope), the AI's plan (`AskAgain`, `PlanRefused`,
`PlanAccepted`: `make_plan` and its validation), the download and its gates
(`DownloadFails`, `IntegrityFails`, `Stage`), the launch (`LaunchFails`, `LaunchSucceeds`),
the version read back (`ReadVersion`), `Judge`, and the decision about a next attempt
(`DecideByAi`, whose proposal Rust validates, or `DecideAlone`, the ladder without an AI). `Abort`
is the watchdog at any of them, `CleanUp` the next start. URLs, plans and outputs are the
facts the code tests in them (`UrlAcceptable`, `Classify`). `RemoveStagingDir` ends every
attempt that staged something and may fail, as may `CleanUp`; `leftover` remembers it.

### Learning (`learn/`, `feedback/`, `audit.rs`)

`facts` is the table, with its AUTOINCREMENT key (`nextFact`). `AnalyseIssues` is the
detection of the decision loop; `StartCycle`, `RecordAttempt`, `ReadAttempts`, `KeepFact`,
`SelectStale`, `Expire`, `NextDetector`, `EndLearning` are the update cycle's detectors,
statement by statement, so that the user's `SetLearnedFact` and `ClearUpdateHistory` come between any
two. `QueryLabel`, `MarkLabel`, `AskLabel`, `StoreLabel` word a fact, with a crash
(`LearnCrash`) or time-out between any two. `ConfidencePenalty` and `PromptFacts` are what
the gate and the prompt read. A detector of `AnalyseIssues` is one step that leads to a set of
tables (`Detected`), since each of its writes may fail: some candidates are kept (`Upserts`; new rows
get the next keys in any order) and some of the facts without evidence expire.

### PipeLink (`eir-ui/pipe_client.rs`, `eir-ui/main.rs`, `pipe_server/`)

Both ends of the link. `EnsureConnected`, `AwaitReply`, `TrySend` are the steps of a caller
in the tray, `ReplyDropped` and `ReplyTimeout` its ends; `TrayWrites`, `TrayReads` the two
arms of the client; `TrayEnds`, `TrayDrains`, `TrayClears` what it does in order when a
connection ends. `ServiceReads`, `ServiceHandles` and the writer (`WriteStatus`,
`WriteResult`, `WriterEnds`) are the service; `SessionLost`, `ServiceEnds`, `ServiceStops`
end it from there. `ClientAllowed`, `ServerAllowed` are the checks of who is at the other end.
The ring drops the oldest result when its reader lags; the status watch keeps the newest.

### AskEir (`main.rs`, `ask.rs`, `ask_attach.rs`, `eir-cli/unix.rs`)

`HandleAsk`, `HandleFix`, `FoldAnswer`, `StartInvestigation`, `FinishInvestigation`,
`ClearAsk`, `TogglePause` are the service; `OpenPicker`, `ClosePicker`, `TrayAsk`,
`TrayTold`, `RemoveAttachment` the tray's attachments; `CtlAsk`, `CtlFix`, `CtlAccepted`,
`CtlReads`, `CtlGivesUp` are `eirctl`, which watches the history for its entry.

### Settings (`config.rs`, `updater/config.rs`, `main.rs`)

A handler applies a request to a copy (`UpdateSettings`, `SetAdvisorSettings`,
`UpdateUpdaterSettings`, `SetAppNote`, `SetAppIgnore`, `FoldGuided`), saves it (`Backup`,
`BackupDone`, `WriteTmp`, `TmpDone`, `Rename`, or `SaveFails`) and then adopts it
(`AdoptSettings`, `AdoptOther`). `Crash` may come between any two; a write that was cut
short leaves a file that does not parse (`Torn`). `Start` reads what is left: the file, else the backup,
sanitised and migrated (`SanitizeLoaded`). `Provider` is what the name of a provider is read
as, the names of older builds included. Lists of names keep the three things the code
tells apart: folded form, spelling, acceptability.

### Scans (`startup_scan.rs`, `disk_scan.rs`, `digest.rs`, `main.rs`)

`ScanStartup`, `ScanRefused`, `ScanDone`, `ScanFails`, `SetStartupEntry` with the owner of
the cache and the active user (`SwitchUser`); `ScanDisk`, `StartDigest`, `TestProvider` and
their folds. `sent` is the status the pipe's watch channel holds, which every handler (and
`Refresh`, a pass of the loop) replaces; a click may be on an entry of that list.

### LogWatcher, EventLogs, SystemPoll, ScreenErrors (`signals/`, `eir-ui/screen_watch.rs`)

| Module | State | Actions |
|---|---|---|
| `LogWatcher` | `watched`, `readTo`, `seenLines`, `events`, `pendingChanges`; directories on their way in `dirs` | `AppWrites`, `Rotate`, `HandleEvent`, `DrainChanges`, `SeenExpires`; the reconciler (`ReconcileCheck`, `Find`, `Send`) and the loop (`LoopFinds`, `LoopSends`), two senders of directories; `Replace` |
| `EventLogs` | `cursor`, `savedCursor`, `buffer` | `Write`, `Clear`, `Prime`, `PollWindows`, `PollJournal`, `DrainLog`, `Restart` |
| `SystemPoll` | `cache`, the poll and the rescan in flight, `lastKey`, `shown` | `MachineChanges`, `PollStarts`, `ProbeServices`, `ProbeOthers`, `PollEnds`, `PollPanics`, `RescanReads`, `RescanEnds`, `LoopPass` |
| `ScreenErrors` | the tray's `reported` and `candidates`, `seenErrors`, `pending`, `items`, `dismissed` | `ScreenChanges`, `TrayPoll`, `ServiceTakes`, `ServiceRefuses`, `ServiceDrops`, `Analyse`, `ClearFeed`, `Dismiss`, `Switches` |

`Sifting` is shared: `Sifted(s, I)` are the elements of a list at the places `I`, in their order,
which is what the code's `retain`, `filter` and removals leave (`Settings`, `ScreenErrors`,
`EventLogs`).

A log file is a sequence of pieces, of which some end a line and some lines are errors; a
record of an event log is the moment it was written.

Collectors fail in these modules as they do in the code. `HandleEvent` consumes an event with
nothing read (`PassedOver`) when the user is another, cannot be impersonated, or the file not
be measured, opened, sought or read; a write may not be reported at all (`Queued`). In
`PollWindows` a channel may not open, or its backward read end early (`reach`); in
`PollJournal` `journalctl` may fail once, so that the cursor is seeded anew, or twice, or not
run, so that nothing changes; and the write of the cursor may fail or leave a torn file.

## 4. Runs

| Run | Instance and bounds | Distinct states | Shows |
|---|---|---|---|
| `approvals_faults` | 2 rows; a script, and a whitelisted reset users may request; every database call may fail; breaker at 1, 2 clicks per row, 2 active rows | 1,177,135 | `TypeOK`, `OneRunPerClick`, `CardsDecidable`, `ScriptsOnlyByClick`, and that `ApprovalContract` is implemented |
| `approvals_live` | 2 rows, a whitelisted key and a reset, working database, fair scheduling | 117,419 | `InFlightReleased`, `DecisionsSettle`, `NothingStranded`, `InFlightExact`, `BreakerHolds` |
| `approvals_requeue_race` | 1 row, 1 key | counterexample | `DroppedOnlyIfExecuting` fails (section 7) |
| `game_mode` | 3 plans, 3 edges in the channel, fair | 11,705 | `TypeOK`, `WayBack`, `GamingIsTold`, `Settled`, `StopsClean` and `BoostEnds` |
| `loop_pacing` | 1 error, 1 warning; debounce 1, gap 2 | 1.83 M | `FlagsExact`, `ErrorsAwaited`, `ReactionsSpaced`, `AnsweredByItsOwn` |
| `loop_answers` | 1 fault, fair | 323,610 | `Answered` |
| `loop_game_end` | 1 error, 1 fault | counterexample | `GameEndAnalysed` fails (section 7) |
| `registry_crash` | 2 rows, only the process may fail | counterexample | `CrashDurable` fails (section 7) |
| `updates_ignore` | 2 apps | counterexample | `IgnoredStaysOff` fails (section 7) |
| `maintenance` | registry: 2 rows, "absent" and two values, everything may fail. Cycle: 2 apps, cap 1, 3 days, 3 runs, 1 edit, 1 fault. Heal: 5 candidates, 8 plans, 12 outputs, 3 attempts. Check: 2 apps of one base identity, 2 managers, 5 versions, 2 AI passes. Learning: 4 histories, quorum 2, 1 further cycle, row of evidence and operation, 2 AI calls | 1,564,954 | registry: `TypeOK`, `WayBackRecorded`, `OnceOnly`, `ButtonsWork`; updater: `ScheduleTrue`, `EvidenceSurvives`, `AttemptsSound`, `CheckSound`, `HealingSound`; `LearningSound` |
| `desktop` | pipe: 2 requests, 2 connections, capacities 1, 7 kinds of client and 4 of server. Ask: 2 questions, 1 investigation, 2 seconds, 1 attachment. Settings: 3 states of the disk, 2 commands, 1 restart | 1,016,928 | `LinkSound`, `AskSound`, `SettingsSound` |
| `watching` | scans: 2 users, 3 scans. Logs: 1 of a user and 1 of the machine, 3 writes. Event logs: 2 channels, 4 records, 2 mishaps. System: 1 service, 1 profile, 2 changes, 4 reads. Screen: 1 window, 3 moments | 1,289,780 | `ScansSound`, `WatcherSound`, `LogsSound`, `PollSound`, `NoticedSound` |

**One run, several components.** The modules of `maintenance`, `desktop` and `watching`
share no variable: each is a component whose inputs from the others are chosen freely (any
result of a heal in `Updates`, any active user in `Scans`). Interleaving two such modules
would only multiply their states, so a behaviour of these runs takes the steps of one
component, its `focus`, chosen at the start; the others rest in one of their initial
states. The choice is exhaustive: the states are the sum of the components' own
instances. A `...Sound` property is the conjunction of what its component promises: its
type invariant and the two to five properties that the module states one by one, with their own
comments.

**Why the bounds are enough.** Two rows and two keys are the smallest instance in which two jobs
are queued, one is logged while another waits, and two rows compete for a key; the two
approval instances split the kinds of keys, each kind having its own branches. `Breaker = 1`
makes one failure trip the breaker, and two clicks let a row be approved, requeued and
approved again. Rows are interchangeable, hence the symmetry; it is not used with liveness.
Three plans tell "the user's plan", "the user's new plan" and "High Performance" apart; three
edges hold a start, an end and another start. With debounce 1 and gap 2 a deadline can lie
below, at and above the gap; durations are capped at the gap because the code compares them with
nothing larger. Two registry rows and three states of the value hold two resets whose undo
targets differ. Two apps under a cap of one make one wait for the other; three runs and
three days hold two failures in a row, a pause of two days and its end; a third cycle
(`CycleBound`) is explored where edits and faults together number at most one.
Three attempts are what the code allows a heal by default, enough for an attempt, a remedy and a switch
of method. Two connections with capacities of one make every queue full, every reader lag and
every leftover meet a second connection. Three startup scans of two users are a switch there
and back with an overlap. A ring, buffer or memory of capacity one is at its limit at the second
entry. The theorems of section 6 remove the bounds for every safety property of the runs.

`CHECK_DEADLOCK FALSE` is said in `maintenance`, `desktop`, `watching` and
`updates_ignore`, where a component stops once its bounds (runs, commands, connections,
scans, records) are used up. The other runs check for deadlock.

## 5. Fairness

- `Approvals`: weak for the loop's handler, for the worker (every execution is bounded by a
  timeout), for exit (20 s drain) and for restart (the service is registered to start
  automatically). Strong for `FoldOutcome`: `select!` picks among its ready arms in random
  order, so an outcome that waits is taken although other arms are ready too, but it is not
  continuously enabled because the loop is away in handlers. The liveness run has a working
  database: a call that fails strands a row until the next startup, which the code accepts.
- `GameMode`: weak for the tick (periodic), the worker (a task of its own, each call bounded)
  and the start. `BoostEnds` excuses a failed call and a service that is killed for ever
  again; a restore that failed is retried only by the next edge or start.
- `DecisionLoop`: weak for the reaction, trigger and tray arms, for the fold, for time, and
  for the end of an analysis (`ANALYSIS_MAX`). **The periodic tick is not assumed**, so
  `Answered` holds through the reaction deadline alone. It supposes that from some point on the
  tray stays and Eir is not paused: each pause or missing tray legitimately defers a request.
- The other modules state safety only. What they might promise of liveness is a time-out of
  each task, which their flags' invariants express (`NoFlagLatched`, `LearnTypeOK`).

## 6. Theorems

Each says `Spec => []P`, `Spec => [][A]_vars` or both, for every value of the constants the
modules' assumptions allow, and follows one argument: an inductive invariant is initial, is kept
by every action, and implies the property. `ContractIsKept` is a refinement: initial states map
to initial states, and each step, from states of the invariant, to a step of the contract or to
a stutter.

- `Approvals_proofs`: `IInv` adds to `TypeOK`, `OneRunPerClick` and `CardsDecidable` what
  the properties silently rely on. `ModeInv`: what a stopped or dead process no longer has.
  `LoopInv`: a row in the handler is approved, has a click not yet paid for by a run
  (`Waiting`), and nobody else holds it; before an enqueue the limit that was read still
  holds *because* only the worker logs runs, and it holds none of this key. `QueueInv`: the same
  for queued jobs. `WorkerInv`: what runs is within the limit and belongs to an approved row.
  `KeysInv`: in `queue`, `worker` and `done` every key occurs once, and
  `inFlight` is their union. Without `KeysInv` the limit is not inductive (another job of the
  same key could be logged first), and without `LoopInv` a second click could pay for
  nothing. Corollaries: `TypeCorrect`, `NoReplay`, `InFlightIsExact`, `LimitsHold`,
  `CardsAreLive`, `ScriptsNeedClicks`.
  `ContractIsKept` maps each row to its phase; it needs `IInv` at both ends of a step, and
  `HandlerInv`: between two handlers the loop holds no row, and the row that an Always
  Approve is about to claim is still pending. `NothingIsStranded` has the hypothesis `~DbFaults`, as the run has: with a
  database that works, a row that is approved is always in somebody's hands while the service
  runs.
- `GameMode_proofs`: `PlanInv` (the worker holds a plan other than High Performance before it
  switches, the record is never High Performance, a boost implies both the active plan and the
  record) gives `WayBackKept`; `EdgeInv` (belief and edges agree, what is clean outside the
  loop, what has been restored after a game and during a stop) gives `EdgesAreTold`,
  `SettledWhenIdle` and `StopLeavesNoBoost`.
- `DecisionLoop_proofs`: `IInv` adds `Paced` to `FlagsExact` and `ErrorsAwaited`: unless the
  user or a game's end has set it, the deadline is no earlier than the gap. Theorems
  `TypeCorrect`, `FlagsAreExact`, `ErrorsAreAwaited`, `ReactionsAreSpaced`, `OwnAnswers`. `ErrorsAwaited`
  rests on `CancelReaction`, which keeps the deadline while an analysis runs. A pass that a
  pause, a missing tray or a missing provider cuts off consumes what was announced; `held`
  remembers it until the next pass that drains.
- `Maintenance_proofs`, registry: `RegistryInv` adds `TasksClaimed` (a task's row is latched) and
  `ShownLater` (an id is known to clients only once its row exists). Theorems
  `WayBackIsRecorded`, `RestoredOnce`, `ButtonsAreTrue`.
- `Maintenance_proofs`, cycle: `UpdatesInv` is the types and `Stored`: unless a save has failed,
  the stored run is the end of the last full cycle, and the stored rows are those of the page, the
  ones of ignored apps included, so that nothing is missing if such an app is no longer ignored
  at the next start. Theorems `ScheduleIsTrue`, `EvidenceIsKept`. `AttemptsAreSound` is about what
  is counted: `AttemptInv` says that runs are numbered and dated in order, the one under way newer
  than any that tried what it has still to try (`InOrder`), that the failures counted of an app are
  those stored since the last time it was settled (`FailuresCounted`), and that it was passed over
  at most once by each app tried after it and by each try that was lost (`TurnsKept`). Only
  cycles that could read the times of the last tries count there: the others take the apps in the
  order of the sources (`orchestrator.rs:398`), and what they do of the turns no property states.
- `AppUpdates_proofs`, check: `CheckInv` adds to `CheckSound` what a check has covered so
  far (`Covered`: what an offer is about was seen, and the batch of the AI has nothing that a manager
  listed), and that the apps checked since another was have a later stamp (`OvertookLater`). The comparison of versions is shown antisymmetric through the first
  place where two versions differ, without induction on their length. Theorem `CheckIsSound`.
- `AppUpdates_proofs`, heal: `HealingInv` says at each stage what must already have happened
  (`HealShapes`), that no failure of a heal under way forbids its next attempt (`MayGoOn`), and that
  what waits to be launched was compared with the vendor's hash where the plan has one
  (`ComparedHash`). Every way out of an attempt removes its staging directory (`RemovalIs`); `leftover`
  says that the watchdog, a removal or a clean-up has left one. Theorem
  `HealingIsSound`.
- `Desktop_proofs`, link: `LinkInv` adds `OnePlace` (a command is not yet sent,
  in one of the three queues it passes through and there once, or handled), `AnswersReal` (every
  result under way or given to a caller is of a command that was handled) and `QueuedForThis`
  (what waits to be written was queued under this connection or under none). Without `OnePlace` a command could
  be written twice, and what a caller is told would not follow. Theorem
  `LinkIsSound`.
- `Desktop_proofs`, Ask: `AskInv` adds `RoomKept` (the files a dialog may add fit, and while a
  question is on its way the list is empty, so that what comes back fits too); `Spoken` is what each
  step keeps of the request and of the notice of a rejection. Theorem
  `AskIsSound`.
- `Desktop_proofs`, settings: `SettingsInv` says at each step of a save what a start at that
  moment would find (`OnDisk`: file, else backup), that only a save of the settings page changes what
  the loop works with (`LoopKept`), and that the configuration in force and the copy being saved are
  complete, their recipes worked and their model was chosen for the provider, under whichever of
  its names (`FitIn`; `ProviderOnce`: a name is read once). It rests on loading
  being idempotent, which is proved for every field. The assumption on the constants
  (`SettingsInputs`) is that the files a start may find were written by this or an older build of the
  service: they have every field, and their escalation model was chosen under the provider they
  name, which may be one that is now read as another. A file edited by hand is outside of it. Theorem `SettingsAreSound`.
- `Watching_proofs`, system: `PollInv` adds `PollNoted` (a poll that could not read the services
  says so in its copy) and `WorkingEverywhere` (a service seen to work is failed neither in the
  cache nor in the copy that a poll in flight will cache). Without the second, a later copy could
  bring the failure back; a rescan that ends during a poll proves no service to work, for that
  reason (section 7). Theorem `ShownIsSound`.
- `Watching_proofs`, scans: `ScansInv` adds `Owners` (a scan runs for a user; a cache without an
  owner is empty and nothing scans for it). `ListedToOwner` is about the status that is held: what it
  lists belongs to the user who was active when it was built. Theorems `ListsAreToTheirOwner`,
  `CacheIsOfOneUser`, `FlagsAreLowered` and `ScansAreSound`; the last shows that a disk scan lists the largest entries whatever their number.
- `Watching_proofs`, log files: `WatcherInv` is the types, `NothingMissed`, and `DueLines`: a line
  that is owed is in its file, its first half is unread as long as it is, and a file that got shorter
  owes nothing. An event consumed with nothing read takes the unread lines of its file out of what is
  owed, and the next write that is heard puts them back: that is what the code promises of them.
  Theorem `WatcherIsSound`.
- `Watching_proofs`, what is noticed: `NoticedInv` adds `Remembered` to the types and `ListedOnce`: a
  message last queued within the window is in the memory with that moment, unless the full memory
  dropped it. A feed is without repeats when its parts are and nothing of one
  repeats something of the other (`Apart`, `Cross`), and it stays so under the caps. Theorem
  `NoticedIsSound`.
- `Watching_proofs`, event logs: `LogsInv` adds to `LogsSound` that a moment is in one place of one
  log (`RecordsOnce`), that nothing was told that is not written yet (`ToldBefore`), and what a cursor
  separates. On Windows a record of the buffer, or one that an analysis had while there is a cursor, lies
  before the cursor (`OnWindows`); on Linux all that was told does, the cursor on disk is never ahead of
  the one in memory, and each of them names a line of the journal or a moment before all of its lines
  (`OnLinux`): `journalctl` that does not find the cursor thus shows only newer lines. A poll then yields
  records after the cursor alone, each once (`LastIs`: the last line read is the new cursor). What it
  passes over is taken out of `due` case by case, by the code's own conditions: every unread line when
  `journalctl` fails or shows as many as its limit (`NotYetRead`), what a Windows read does not get to
  (`Skipped`), repeats and what exceeds `MAX_PER_POLL` (`LeftOut`), what the buffer evicts
  (`Crowded`), and what a restart loses; anything else that went missing would break the proof. The
  channels are
  assumed to be distinct, as `config.rs:327` and `config.rs:351` make them. Theorem `LogsAreSound`.
- `Maintenance_proofs`, learning: `LearnInv` says where a fact comes from (`Sourced`, in `TableFits`:
  what is about updates names an app and rests on no refused installer, what is about fixes has one
  name), that what the user made of a fact still holds, and that a fact the AI was or is about to be
  asked about counts as tried (`Given`), which makes the question the only one. `Grows` is what a write
  may do to a row; every detector only grows or deletes rows (`UpsertsKeep`, `ExpireKeeps`,
  `DetectedKeeps`), because its expiry looks at the status again, and each detector is shown to yield
  one candidate of a kind and subject (`SelfUpdatersFit`, `FailingMethodsFit`, `IneffectiveFit`,
  `RejectedFit`). The assumptions are that a label begins with the type of its fix, that no app is
  named like a fix, and that earlier runs left a table as the code writes it (`HistoryFits`). Theorem
  `LearningIsSound`.

Two techniques recur. Where one would argue by induction on a number (the lines read, the
channels joined), the proofs take the least counterexample (`Least`, from the library's well-foundedness of `<` on the naturals). And since the prover has no
facts about `SelectSeq`, the lists that a `retain` leaves are stated as `Sifted`, by the rank of the
places that stay, whose facts are in `Sifting_proofs`.

Only model-checked: the liveness properties (`InFlightReleased`, `DecisionsSettle`, `BoostEnds`,
`Answered`: fairness and `ENABLED` are outside the prover's reach).

## 7. Where the code and what is said of it differ

1. **A second approval is dropped although nothing executes** (`approvals_requeue_race`).
   A fix times out; the worker requeues its row in the database; before the loop has folded
   that outcome, the user approves the row again. The handler claims it, still finds its key
   in `in_flight`, takes the branch "Approved action already executing", deletes the row and
   answers so. The approval and its card are gone. `main.rs:2966`, against
   `ARCHITECTURE.md:573` and `:1254`.
2. **The end of a game does not always force a fresh analysis** (`loop_game_end`). `SetGaming`
   clears `last_fingerprint` (`main.rs:2767`), and the fold of an analysis that was in flight
   then restores it (`main.rs:2355`); the reaction that follows is idle-skipped.
3. **The undo of a registry reset is not crash-durable** (`registry_crash`). The script
   writes first, the undo row is committed after (`main.rs:1164`); a crash between loses the
   snapshot, against `ARCHITECTURE.md:1715`.
4. **An app ignored during a cycle comes back** (`updates_ignore`). The cycle and its retries
   run on a copy of the settings, and `app_rows` (`orchestrator.rs:333`) lists each of their
   results as not ignored; the fold puts the app back on the page and into the stored status,
   against `main.rs:1694` and `ARCHITECTURE.md:489`. The next restart filters it.

Seen while modelling. No run makes a claim of these: the modules take the code as it is,
and where a property has to except one, its comment says so.

- Approvals: when the reload after a requeue fails, the card is missing until a restart
  (`main.rs:2258`); when `log_decision` fails the findings are dropped although the
  fingerprint already covers them (`main.rs:2422`).
- Decision loop: without an AI provider a reaction consumes the ping and its deadline and
  analyses nothing (`main.rs:4130`); once a provider is configured the errors wait for the
  next tick or the next ping.
- Undo: after a restart, rows that can still be undone have no button (`main.rs:546`); the
  guard compares values, so a row can be undone after another program has written the same
  value (`registry.rs:190`); a crash between claim and restore leaves the row latched.
- Updater: when the times of the last tries cannot be read, the cycle goes on as if there were
  none (`orchestrator.rs:398`), so that the apps the sources list first may be tried again before
  others; a staging directory that cannot be removed stays until a clean-up at a start works
  (`download.rs:106`), and a heal that the watchdog stops leaves its own; the guidance a retry has learned is stored over a note the user edits during that
  retry (`main.rs:2004`); the ignore list is matched against an id and its base, so ignoring
  `discord.install` does not cover `discord`, though `ARCHITECTURE.md:1034` says "and vice
  versa".
- Scans: of two overlapping scans of one user the older may be folded last (`main.rs:2109`);
  a status built while one user was active stays in the watch channel and is what the next
  connection is sent first, whoever is active by then (`pipe_server/mod.rs:206`).
- System state: a poll in flight while a rescan ends may put back what the rescan corrected,
  until the next poll (`wmi/mod.rs:139`, `main.rs:1486`; Windows); a fault the rescan cleared
  and that comes back before the next poll does not wake the loop; a policy that turns all
  profiles off after a local fault keeps the old fault (`windows.rs:573`).
- Logs: `read_chunk` without a newline consumes a line written half (`file_watch.rs:323`); a
  log that was rotated and has grown past the old position is read from its middle; a
  line counted as seen whose analysis fails is not reported for six hours; an event heard
  while nobody is signed in, or whose impersonation, open or read fails, is consumed
  (`file_watch.rs:307`, `:318`), and its lines wait for the next write; the excerpt of a match exactly three lines after
  another is skipped (`log_parser.rs`); the reconciler may send roots of before a switch
  (`main.rs:782`), which the next round corrects.
- Event logs: with two channels the shared buffer evicts fresher entries of the later one
  (`windows.rs:298`); the journal cursor is on disk before the buffer is drained
  (`unix.rs:9`); a `journalctl` that fails once makes the poll seed its cursor with the newest line,
  past the lines it has not read (`unix.rs:303`; its comment at `unix.rs:337` says so, and only a second
  failure leaves the cursor alone); a Windows read that ends early has already moved the cursor to the newest
  record (`windows.rs:147`, `:157`); the cursor file is written in place, so that a write cut off leaves a
  start without a cursor, which begins at the newest line (`unix.rs:246`); of more than a hundred distinct lines per poll the oldest are kept.
- Screen: a window is marked as reported before `try_send` (`screen_watch.rs:350`), so that
  a full queue loses it until it changes.
- Learning: a rejection is kept under its dedup key, which the prompt does not recognise as
  a security action (`learn/apply.rs:83`, `:22`; `ARCHITECTURE.md:1312`); *Clear* forgets facts
  that the evidence, which stays, forms again (`store.rs:197`).
- Settings: the name of a provider an older build had is read as Claude or OpenCode
  (`config.rs:117`), while the escalation model chosen for the old one is kept
  (`config.rs:602`), though a change of provider in the settings clears it because "an escalation
  model belongs to its provider" (`config.rs:488`); a bare OpenCode model that the user sets is
  prefixed only by the next load (`config.rs:632`).
- Clients: `eirctl` may print an error of an earlier request for its own
  (`eir-cli/src/unix.rs:463`).

## 8. Abstractions

- A fix is its dedup key, a row its id, a registry value, power plan or fault a model value.
- A PowerShell or `powercfg` invocation is one step. That a child process outlives its killed
  parent is covered for `powercfg` by `CallLands`, and for resets by the crash that may come
  before or after `Reset`.
- A pass of the loop body is one step of `DecisionLoop`: its awaits only let collectors and
  the analysis run, which touch buffers and channels the pass takes from once.
- A database call that the code gives up on does not land later.
- A client requests only ids it has been shown.
- `Updates` counts days, and takes all attempts of one app in one run as one: they share
  cycle and time. Its pauses and intervals are therefore whole days.
- In `Healing` an output is the set of messages the code looks for in it, a URL the facts it
  tests, a digest an identity; the file system is the staging directory.
- `UpdateCheck` and `LogWatcher` know a text only by what is parsed out of it. A log
  directory holds one log and has its name.
- `PipeLink` has one connection at a time, as the server has; a frame is whole or lost.
- One profile and one service stand for the faults of `SystemPoll`; "disk" for the probes
  that can only fail.
- The components of one run do not interact there (section 4). Where they do in the code,
  the module of the reader takes every value the writer could give it.

## 9. Not modelled

- **Advisor budget**: its counters are touched by one task and stored in one write; a
  property would restate the assignment.
- **AI clients**: subprocesses and HTTP. Every module takes any answer, a failure or a
  time-out.
- **Service installation and sessions**: operating-system calls; the active user is an input.
- **Policy files, the wire encoding, migrations**: parsing and SQL text. The verdict, the
  messages and the tables they yield are in the modules.
- **Executors other than the registry's and the updater's**: an outcome, a timeout or a panic.
- **Explain**: the shape of Ask Eir without a history.
- **The tray's and `eirctl`'s presentation**, and the layouts of `eir-proto`.
