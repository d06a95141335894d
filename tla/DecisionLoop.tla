----------------------------- MODULE DecisionLoop -----------------------------
(***************************************************************************)
(* When the decision loop of eir-svc (main.rs) looks at the machine and    *)
(* when it pays for an AI analysis: the trigger the collectors ping, the   *)
(* reaction deadline `react_at`, the periodic tick, the analysis that runs *)
(* off the loop, the fingerprint that skips an unchanged state, the user's *)
(* investigation, and the gates (pause, no tray, no AI provider, end of    *)
(* Game Mode).                                                             *)
(*                                                                         *)
(* One pass of the loop body is one step: its awaits only let collectors   *)
(* and the analysis run, each of which touches a buffer or channel the     *)
(* pass takes from once.  Time is counted in units of REACTIVE_DEBOUNCE.   *)
(***************************************************************************)
EXTENDS Integers

CONSTANTS
    Errors,    \* actionable entries whose collector pings the loop
    Warnings,  \* actionable entries that wait for a pass (event_log)
    Faults,    \* SystemState::fault_parts: present until repaired
    Debounce,  \* REACTIVE_DEBOUNCE
    MinGap     \* REACTIVE_MIN_GAP

ASSUME ClassesAssumption ==
    Errors \cap Warnings = {} /\ (Errors \cup Warnings) \cap Faults = {}
ASSUME PacingAssumption == Debounce \in Nat /\ MinGap \in Nat /\ Debounce < MinGap

VARIABLES
    buffered,     \* entries no pass has drained
    faults,       \* faults of the last system poll
    ping,         \* trigger_tx -> trigger_rx, a channel of capacity 1
    reactIn,      \* react_at, as the time left; NoReaction is None
    sinceCycle,   \* time since last_cycle_at, up to MinGap
    running,      \* analysis_running
    analysis,     \* the analysis task and its message
    lastFp,       \* last_fingerprint; {} is None
    heartbeat,    \* ANALYSIS_HEARTBEAT has elapsed, or no analysis yet
    paused,       \* st.paused
    tray,         \* pipe.ui_connected() (monitoring.require_tray is on)
    trayNews,     \* tray_changes holds an unseen change
    provider,     \* ai is Some: an AI provider is configured
    wanted,       \* st.investigation is set
    wantedRuns,   \* investigation_in_flight
    gaming,       \* is_gaming
    wasGaming,    \* was_gaming
    urgent,       \* history: react_at was set by the user or by a game's end
    sinceStart,   \* history: time since the last analysis began, up to MinGap
    held,         \* history: a pause, a missing tray or a missing provider cut
                  \* off a pass
    owed          \* history: a game ended and no analysis has begun since

machine  == <<buffered, faults, ping>>
pacing   == <<reactIn, sinceCycle, urgent, sinceStart>>
thinking == <<running, analysis, lastFp, heartbeat>>
gates    == <<paused, tray, trayNews, provider>>
request  == <<wanted, wantedRuns>>
games    == <<gaming, wasGaming, owed>>
vars == <<machine, pacing, thinking, gates, request, games, held>>

-----------------------------------------------------------------------------
(* Types *)

NoReaction == -1
Deadline == {NoReaction} \cup 0..MinGap
Parts == Errors \cup Warnings \cup Faults

(* "working": the task; "ok", "failed": its message waits for the loop.    *)
Analysis == [at : {"none", "working", "ok", "failed"},
             fp : SUBSET Parts, report : BOOLEAN]
NoAnalysis == [at |-> "none", fp |-> {}, report |-> FALSE]

TypeOK ==
    /\ buffered \subseteq Errors \cup Warnings /\ faults \subseteq Faults
    /\ ping \in BOOLEAN
    /\ reactIn \in Deadline /\ sinceCycle \in 0..MinGap /\ sinceStart \in 0..MinGap
    /\ running \in BOOLEAN /\ analysis \in Analysis
    /\ lastFp \subseteq Parts /\ heartbeat \in BOOLEAN
    /\ paused \in BOOLEAN /\ tray \in BOOLEAN /\ trayNews \in BOOLEAN /\ provider \in BOOLEAN
    /\ wanted \in BOOLEAN /\ wantedRuns \in BOOLEAN
    /\ gaming \in BOOLEAN /\ wasGaming \in BOOLEAN
    /\ urgent \in BOOLEAN /\ held \in BOOLEAN /\ owed \in BOOLEAN

Init ==
    /\ buffered = {} /\ faults = {} /\ ping = FALSE
    /\ reactIn = NoReaction /\ sinceCycle = 0
    /\ urgent = FALSE /\ sinceStart = MinGap
    /\ running = FALSE /\ analysis = NoAnalysis
    /\ lastFp = {} /\ heartbeat = TRUE
    /\ paused = FALSE /\ tray = FALSE /\ trayNews = FALSE /\ provider \in BOOLEAN
    /\ wanted = FALSE /\ wantedRuns = FALSE
    /\ gaming = FALSE /\ wasGaming = FALSE
    /\ held = FALSE /\ owed = FALSE

-----------------------------------------------------------------------------
(* Collectors: the entry is in the buffer before the ping is sent. *)

(* An error pings the loop, a warning waits for a pass (event_log). *)
See(e) ==
    /\ buffered' = buffered \cup {e}
    /\ ping' = (ping \/ e \in Errors)
    /\ UNCHANGED <<faults, pacing, thinking, gates, request, games, held>>

(* A poll pings when the fault key changed, a repair included. *)
SeeFaults(now) ==
    /\ now # faults
    /\ faults' = now
    /\ ping' = TRUE
    /\ UNCHANGED <<buffered, pacing, thinking, gates, request, games, held>>

-----------------------------------------------------------------------------
(* One pass of the loop body *)

Later(a, b) == IF a < b THEN b ELSE a

(* Mutant: a pass cancels the reaction even while an analysis runs. *)
CancelAlways == /\ reactIn' = NoReaction
                /\ urgent' = FALSE

(* A pass covers the pending reaction, unless it is about to bail out      *)
(* because an analysis is still running.                                   *)
CancelReaction == IF running
                  THEN UNCHANGED <<reactIn, urgent>>
                  ELSE reactIn' = NoReaction /\ urgent' = FALSE

(* The lease of Game Mode lapsed: forget the fingerprint. *)
Lapsed == wasGaming /\ ~gaming
KnownFp == IF Lapsed THEN {} ELSE lastFp

(* actionable_fingerprint of the snapshot a pass would collect. *)
Fingerprint == buffered \cup faults

Worthwhile(known) == \/ wanted
                     \/ Fingerprint # {} /\ Fingerprint # known
                     \/ heartbeat

Begins ==
    /\ lastFp' = KnownFp
    /\ running' = TRUE
    /\ analysis' = [at |-> "working", fp |-> Fingerprint, report |-> wanted]
    /\ wantedRuns' = wanted
    /\ sinceStart' = 0
    /\ owed' = FALSE

(* With no tray, or paused, the pass leaves the buffers for a later one. *)
Gated ==
    /\ ~tray \/ paused
    /\ lastFp' = KnownFp
    /\ held' = TRUE
    /\ UNCHANGED <<buffered, running, analysis, wantedRuns, sinceStart, owed>>

(* So does one with no AI provider to ask, *)
Unprovided ==
    /\ tray /\ ~paused /\ ~provider
    /\ lastFp' = KnownFp
    /\ held' = TRUE
    /\ UNCHANGED <<buffered, running, analysis, wantedRuns, sinceStart, owed>>

(* and one that finds an analysis running. *)
BailsOut ==
    /\ tray /\ ~paused /\ provider /\ running
    /\ lastFp' = KnownFp
    /\ UNCHANGED <<buffered, running, analysis, wantedRuns, sinceStart, owed, held>>

(* Any other drains them, and skips a state it has analysed already,       *)
(* forgetting it when nothing is wrong any more.                           *)
Drains == tray /\ ~paused /\ provider /\ ~running /\ buffered' = {} /\ held' = FALSE

Skips ==
    /\ ~Worthwhile(KnownFp)
    /\ lastFp' = IF Fingerprint = {} THEN {} ELSE KnownFp
    /\ UNCHANGED <<running, analysis, wantedRuns, sinceStart, owed>>

Body ==
    /\ sinceCycle' = 0
    /\ CancelReaction
    /\ wasGaming' = gaming
    /\ \/ Gated
       \/ Unprovided
       \/ BailsOut
       \/ Drains /\ Worthwhile(KnownFp) /\ Begins
       \/ Drains /\ Skips
    /\ UNCHANGED <<faults, heartbeat, paused, tray, provider, wanted, gaming>>

(* The decision interval has elapsed. *)
TickPass == Body /\ UNCHANGED <<ping, trayNews>>

(* The deadline is reached; pings that came meanwhile are coalesced.  The  *)
(* arm waits while an analysis runs.                                       *)
ReactionPass ==
    /\ reactIn = 0 /\ ~running
    /\ ping' = FALSE
    /\ Body
    /\ UNCHANGED trayNews

(* The watch channel only tells the current number of clients. *)
TrayArm ==
    /\ trayNews
    /\ trayNews' = FALSE
    /\ \/ tray /\ Body /\ UNCHANGED ping
       \/ ~tray /\ UNCHANGED <<machine, pacing, thinking, paused, tray, provider,
                               request, games, held>>

-----------------------------------------------------------------------------
(* The other arms *)

(* Mutant: a reaction is due after the debounce, whatever came before. *)
TriggerUnpaced ==
    /\ ping
    /\ ping' = FALSE
    /\ IF reactIn = NoReaction THEN reactIn' = Debounce ELSE UNCHANGED reactIn
    /\ UNCHANGED <<buffered, faults, sinceCycle, urgent, sinceStart,
                   thinking, gates, request, games, held>>

(* Mutant: the debounce is added to the gap. *)
TriggerSums ==
    /\ ping
    /\ ping' = FALSE
    /\ reactIn' = IF reactIn = NoReaction THEN Debounce + MinGap - sinceCycle ELSE reactIn
    /\ UNCHANGED <<buffered, faults, sinceCycle, urgent, sinceStart,
                   thinking, gates, request, games, held>>

(* trigger_rx: only schedules, after the debounce and the minimum gap. *)
TriggerArm ==
    /\ ping
    /\ ping' = FALSE
    /\ IF reactIn = NoReaction
       THEN reactIn' = Later(Debounce, MinGap - sinceCycle)
       ELSE UNCHANGED reactIn
    /\ UNCHANGED <<buffered, faults, sinceCycle, urgent, sinceStart,
                   thinking, gates, request, games, held>>

(* The analysis answers, fails, panics or hits ANALYSIS_MAX. *)
AnalysisEnds ==
    /\ analysis.at = "working"
    /\ \E end \in {"ok", "failed"} : analysis' = [analysis EXCEPT !.at = end]
    /\ UNCHANGED <<machine, pacing, running, lastFp, heartbeat, gates, request, games, held>>

(* Mutant: any finished analysis answers the user's request. *)
FoldAnswersAny ==
    /\ analysis.at \in {"ok", "failed"}
    /\ analysis' = NoAnalysis
    /\ running' = FALSE
    /\ wanted' = FALSE
    /\ wantedRuns' = FALSE
    /\ UNCHANGED <<machine, pacing, lastFp, heartbeat, gates, games, held>>

(* Mutant: a failed analysis leaves the flag set. *)
FoldLatches ==
    /\ analysis.at \in {"ok", "failed"}
    /\ analysis' = NoAnalysis
    /\ running' = (analysis.at = "failed")
    /\ lastFp' = IF analysis.at = "ok" THEN analysis.fp ELSE lastFp
    /\ UNCHANGED <<machine, pacing, heartbeat, gates, request, games, held>>

(* analysis_done_rx: the user's request is answered, whether the analysis  *)
(* that carried it worked or not; what was analysed is remembered.         *)
FoldAnalysis ==
    /\ analysis.at \in {"ok", "failed"}
    /\ analysis' = NoAnalysis
    /\ running' = FALSE
    /\ wanted' = (wanted /\ ~wantedRuns)
    /\ wantedRuns' = FALSE
    /\ \/ analysis.at = "ok" /\ lastFp' = analysis.fp /\ heartbeat' = FALSE
       \/ analysis.at = "failed" /\ UNCHANGED <<lastFp, heartbeat>>
    /\ UNCHANGED <<machine, pacing, gates, games, held>>

(* Investigate: refused with no provider, while paused or while another is *)
(* queued.                                                                 *)
Investigate ==
    /\ provider /\ ~paused /\ ~wanted
    /\ wanted' = TRUE
    /\ reactIn' = 0 /\ urgent' = TRUE
    /\ UNCHANGED <<machine, sinceCycle, sinceStart, thinking, gates, wantedRuns, games, held>>

(* Mutant: resuming leaves a queued investigation to chance. *)
ToggleOnly ==
    /\ paused' = ~paused
    /\ UNCHANGED <<machine, pacing, thinking, tray, trayNews, provider, request, games, held>>

(* TogglePause: a queued investigation runs as soon as Eir resumes. *)
TogglePause ==
    /\ paused' = ~paused
    /\ IF paused /\ wanted THEN reactIn' = 0 /\ urgent' = TRUE
                           ELSE UNCHANGED <<reactIn, urgent>>
    /\ UNCHANGED <<machine, sinceCycle, sinceStart, thinking, tray, trayNews, provider,
                   request, games, held>>

(* UpdateSettings with a provider that can be built: the loop has one from *)
(* then on, and no reaction is scheduled for what it has passed by.        *)
ConfigureProvider ==
    /\ ~provider
    /\ provider' = TRUE
    /\ UNCHANGED <<machine, pacing, thinking, paused, tray, trayNews, request, games, held>>

(* SetGaming, started. *)
GameStarts ==
    /\ ~gaming
    /\ gaming' = TRUE /\ wasGaming' = TRUE
    /\ UNCHANGED <<machine, pacing, thinking, gates, request, owed, held>>

(* SetGaming, ended: the fingerprint is forgotten and a reaction is due.   *)
GameEnds ==
    /\ gaming
    /\ gaming' = FALSE /\ wasGaming' = FALSE
    /\ lastFp' = {}
    /\ owed' = TRUE
    /\ IF reactIn = NoReaction THEN reactIn' = Debounce /\ urgent' = TRUE
                               ELSE UNCHANGED <<reactIn, urgent>>
    /\ UNCHANGED <<machine, sinceCycle, sinceStart, running, analysis, heartbeat,
                   gates, request, held>>

-----------------------------------------------------------------------------
(* Time and clients *)

LeaseLapses ==
    /\ gaming
    /\ gaming' = FALSE
    /\ UNCHANGED <<machine, pacing, thinking, gates, request, wasGaming, owed, held>>

TrayChanges ==
    /\ tray' = ~tray
    /\ trayNews' = TRUE
    /\ UNCHANGED <<machine, pacing, thinking, paused, provider, request, games, held>>

Elapses ==
    /\ reactIn' = IF reactIn > 0 THEN reactIn - 1 ELSE reactIn
    /\ sinceCycle' = IF sinceCycle < MinGap THEN sinceCycle + 1 ELSE MinGap
    /\ sinceStart' = IF sinceStart < MinGap THEN sinceStart + 1 ELSE MinGap
    /\ UNCHANGED <<machine, urgent, thinking, gates, request, games, held>>

HeartbeatDue ==
    /\ ~heartbeat
    /\ heartbeat' = TRUE
    /\ UNCHANGED <<machine, pacing, running, analysis, lastFp, gates, request, games, held>>

-----------------------------------------------------------------------------
(* Specification *)

Collect == \/ \E e \in Errors \cup Warnings : See(e)
           \/ \E now \in SUBSET Faults : SeeFaults(now)

Pass == TickPass \/ ReactionPass \/ TrayArm

Command == Investigate \/ TogglePause \/ ConfigureProvider \/ GameStarts \/ GameEnds

Environment == LeaseLapses \/ TrayChanges \/ Elapses \/ HeartbeatDue

Next == Collect \/ Pass \/ TriggerArm \/ AnalysisEnds \/ FoldAnalysis \/ Command \/ Environment

Spec == Init /\ [][Next]_vars

(* Every arm of the select! is polled, time passes, and the watchdog       *)
(* (ANALYSIS_MAX) ends every analysis.  The periodic tick is not assumed   *)
(* to come: what follows holds through the reaction alone.                 *)
FairSpec ==
    /\ Spec
    /\ WF_vars(ReactionPass) /\ WF_vars(TriggerArm) /\ WF_vars(TrayArm)
    /\ WF_vars(AnalysisEnds) /\ WF_vars(FoldAnalysis) /\ WF_vars(Elapses)

-----------------------------------------------------------------------------
(* Properties *)

(* The flag that keeps analyses apart is set exactly while one is running  *)
(* or its message waits, and a request in flight is one that is queued and *)
(* that the analysis carries (analysis_running, investigation_in_flight).  *)
FlagsExact ==
    /\ running <=> analysis.at # "none"
    /\ wantedRuns <=> running /\ analysis.report
    /\ wantedRuns => wanted

(* What a collector pinged for is never left to the scheduled tick: it is  *)
(* still announced or has a reaction pending, unless a pause, a missing    *)
(* tray or a missing AI provider cut a pass off (react_at; "deferred,      *)
(* never dropped").                                                        *)
ErrorsAwaited ==
    buffered \cap Errors # {} => ping \/ reactIn # NoReaction \/ held

(* A reaction to collectors alone comes no sooner than the minimum gap     *)
(* after the last analysis began (REACTIVE_MIN_GAP).                       *)
ReactionsSpaced ==
    [][ReactionPass /\ ~urgent => sinceStart >= MinGap]_vars

(* The user's request is answered only by an analysis that carried it.     *)
AnsweredByItsOwn == [][wanted /\ ~wanted' => analysis.report]_vars

(* An accepted request is answered, unless Eir is paused or without a tray *)
(* again and again (Investigate, react_at, analysis_done_rx).              *)
Answered == <>[](tray /\ ~paused) => (wanted ~> ~wanted)

(* The end of a game forces a fresh analysis: no pass skips an actionable  *)
(* state before one has begun (SetGaming: "force a fresh analysis (an      *)
(* unchanged fingerprint would otherwise be idle-skipped)").               *)
GameEndAnalysed ==
    [][owed /\ (ReactionPass \/ TickPass) /\ Fingerprint # {}
          /\ tray /\ ~paused /\ provider /\ ~running => running']_vars

=============================================================================
