-------------------------- MODULE Maintenance_proofs --------------------------
(***************************************************************************)
(* Proofs about RegistryUndo, for any rows, any values and any faults,     *)
(* about Updates, for any apps, cap, interval and window and any number of *)
(* cycles, edits and faults, and about Learning, for any fixes, outcomes,  *)
(* earlier runs and number of observations.                                *)
(***************************************************************************)
EXTENDS RegistryUndo, Updates, Learning, FiniteSetTheorems, SequenceTheorems, WellFoundedInduction, TLAPS

-----------------------------------------------------------------------------
(* Registry reset and undo *)

(* A row in a task has been claimed. *)
TasksClaimed == \A i \in Ids : task[i] # "none" => undone[i] = "yes"

(* Until its first report is folded a row is unknown to the clients, and   *)
(* so nobody has claimed it.                                               *)
ShownLater ==
    /\ buttons \subseteq shown
    /\ \A i \in shown : undone[i] # "none"
    /\ \A i \in Ids : <<"ran", i>> \in reports => undone[i] = "no" /\ i \notin shown

RegistryInv == TypeOK /\ TasksClaimed /\ ShownLater /\ WayBackRecorded /\ OnceOnly /\ ButtonsWork

(* The inductive invariant holds at the start: nothing has been written,   *)
(* recorded or shown.                                                      *)
LEMMA RegistryBegins == Init => RegistryInv
<1> SUFFICES ASSUME Init PROVE RegistryInv
  OBVIOUS
<1>1. Blank \in Record /\ Idle \in Worker
  BY ValuesAssumption DEF Blank, Record, Idle, Worker
<1>2. TypeOK
  BY <1>1 DEF Init, TypeOK
<1>3. TasksClaimed /\ ShownLater
  BY DEF Init, TasksClaimed, ShownLater
<1>4. WayBackRecorded /\ OnceOnly /\ ButtonsWork
  BY DEF Init, WayBackRecorded, OnceOnly, ButtonsWork
<1> QED
  BY <1>2, <1>3, <1>4 DEF RegistryInv

(* Every step of the executor, the undo tasks, the loop and the world      *)
(* keeps the inductive invariant.                                          *)
LEMMA RegistrySteps == RegistryInv /\ [Next]_vars => RegistryInv'
<1> SUFFICES ASSUME RegistryInv, [Next]_vars PROVE RegistryInv'
  OBVIOUS
<1> USE ValuesAssumption, FaultsAssumption
    DEF RegistryInv, db, ui, history
<1> USE DEF TypeOK, TasksClaimed, ShownLater, Worker, Record, Idle, Blank,
            WayBackRecorded, Held, Recorded, OnceOnly, ButtonsWork
<1>1. ASSUME NEW target \in Values, Snapshot(target) PROVE RegistryInv'
  BY <1>1 DEF Snapshot
<1>2. CASE Reset
  <2>1. CASE /\ value' = worker.undo.applied
             /\ worker' = [worker EXCEPT !.at = "written"]
             /\ ours' = TRUE /\ cutOff' = cutOff
    <3>1. /\ worker'.at = "written" /\ worker'.undo = worker.undo
          /\ worker' \in Worker /\ worker.undo.applied \in Values
      BY <2>1
    <3>2. WayBackRecorded'
      BY <2>1, <3>1
    <3> QED
      BY <1>2, <2>1, <3>1, <3>2 DEF Reset
  <2>2. CASE worker' = Idle /\ UNCHANGED <<value, ours, cutOff>>
    BY <1>2, <2>2 DEF Reset
  <2>3. CASE worker' = Idle /\ cutOff' = TRUE /\ value' \in Values /\ ours' \in BOOLEAN
    BY <1>2, <2>3 DEF Reset
  <2> QED
    BY <1>2, <2>1, <2>2, <2>3 DEF Reset, Write, Killed
<1>3. ASSUME NEW i \in Ids, Commit(i) PROVE RegistryInv'
  BY <1>3 DEF Commit
<1>4. CASE CommitFails
  BY <1>4 DEF CommitFails
<1>5. CASE RollBack
  <2>1. worker.undo \in Record
    OBVIOUS
  <2>2. CASE value' \in Values /\ ours' = FALSE /\ cutOff' = cutOff
    BY <1>5, <2>2 DEF RollBack
  <2>3. CASE value # worker.undo.applied /\ UNCHANGED <<value, ours, cutOff>>
    BY <1>5, <2>3 DEF RollBack
  <2>4. CASE value' \in Values /\ ours' = ours /\ cutOff' = TRUE
    BY <1>5, <2>4 DEF RollBack
  <2> QED
    BY <1>5, <2>1, <2>2, <2>3, <2>4 DEF RollBack, Write, Killed
<1>6. ASSUME NEW i \in Ids, ClaimUndo(i) PROVE RegistryInv'
  BY <1>6 DEF ClaimUndo
<1>7. ASSUME NEW i \in Ids, Restore(i) PROVE RegistryInv'
  <2>1. record[i] \in Record
    OBVIOUS
  <2>2. CASE /\ value' \in Values /\ ours' = FALSE /\ cutOff' = cutOff
             /\ task' = [task EXCEPT ![i] = "restored"]
             /\ taken' = taken \cup {i}
    BY ZenonT(30), <1>7, <2>2 DEF Restore
  <2>3. CASE value # record[i].applied /\ task' = [task EXCEPT ![i] = "failed"]
             /\ UNCHANGED <<value, history>>
    BY <1>7, <2>3 DEF Restore
  <2>4. CASE /\ value' \in Values /\ cutOff' = TRUE
             /\ task' = [task EXCEPT ![i] = "failed"]
             /\ UNCHANGED <<taken, ours>>
    BY <1>7, <2>4 DEF Restore
  <2> QED
    BY <1>7, <2>1, <2>2, <2>3, <2>4 DEF Restore, Write, Killed
<1>8. ASSUME NEW i \in Ids, Unclaim(i) PROVE RegistryInv'
  BY ZenonT(30), <1>8 DEF Unclaim
<1>9. ASSUME NEW i \in Ids, ReportUndone(i) PROVE RegistryInv'
  BY <1>9 DEF ReportUndone
<1>10. ASSUME NEW i \in Ids, NEW kind \in {"ran", "undone"}, Fold(kind, i) PROVE RegistryInv'
  BY <1>10 DEF Fold
<1>11. ASSUME NEW kept \in SUBSET Ids, Dropped(kept) PROVE RegistryInv'
  BY <1>11 DEF Dropped
<1>12. ASSUME NEW v \in Values, OthersWrite(v) PROVE RegistryInv'
  BY <1>12 DEF OthersWrite
<1>13. CASE Crash
  BY <1>13 DEF Crash
<1>14. CASE Restart
  BY <1>14 DEF Restart
<1>15. CASE UNCHANGED vars
  BY <1>15 DEF vars
<1> QED
  BY <1>1, <1>2, <1>3, <1>4, <1>5, <1>6, <1>7, <1>8, <1>9, <1>10, <1>11, <1>12, <1>13,
     <1>14, <1>15
  DEF Next, Execute, Undo, Loop

(* The inductive invariant holds throughout. *)
THEOREM RegistryInvariance == Spec => []RegistryInv
  BY RegistryBegins, RegistrySteps, PTL DEF Spec

(* Type correctness. *)
THEOREM TypeCorrect == Spec => []TypeOK
  BY RegistryInvariance, PTL DEF RegistryInv

(* Unless something was cut off, what Eir has written can be taken back:   *)
(* the commit of the undo row, the rollback of a reset whose commit fails  *)
(* and the release of failed claims leave no value without its way back.   *)
THEOREM WayBackIsRecorded == Spec => []WayBackRecorded
  BY RegistryInvariance, PTL DEF RegistryInv

(* claim_registry_undo lets no row be restored twice. *)
THEOREM RestoredOnce == Spec => []OnceOnly
  BY RegistryInvariance, PTL DEF RegistryInv

(* An Undo button has a row behind it that can be undone, is being undone, *)
(* or has been, with the report that retires the button under way.         *)
THEOREM ButtonsAreTrue == Spec => []ButtonsWork
  BY RegistryInvariance, PTL DEF RegistryInv

-----------------------------------------------------------------------------
(* Updates: what is stored of the schedule, of the page and of attempts *)

(* app_state has its three entries, and the clock has started.             *)
Shapes ==
    /\ disk = [run |-> disk.run, clean |-> disk.clean,
               status |-> [at |-> disk.status.at, rows |-> disk.status.rows]]
    /\ today \in Nat \ {0} /\ unsaved \in BOOLEAN /\ ignored \subseteq Apps

(* Unless a save has failed, what is stored is the last full cycle and the *)
(* page: every row the page lists, the ignored ones included, so that      *)
(* taking an app off the ignore list uncovers nothing that is not there.   *)
Stored ==
    ended > Never /\ ~unsaved =>
        /\ lastRun = ended /\ disk.run = ended /\ disk.status.at = ended
        /\ \A r \in Listed : rows[r] # "off" => disk.status.rows[r] = rows[r]
        /\ disk.status.rows[Warning] = rows[Warning]

UpdatesInv == Shapes /\ Stored

USE UpdatesAssumption

-----------------------------------------------------------------------------
(* What a save leaves behind *)

(* Of record_cycle_status: if nothing is left unsaved, the stored status   *)
(* is what was to be saved.                                                *)
LEMMA Saves ==
    ASSUME Shapes, NEW at, NEW listing, NEW saved \in BOOLEAN, SaveStatus(at, listing, saved)
    PROVE  /\ disk' = [run |-> disk'.run, clean |-> disk'.clean,
                       status |-> [at |-> disk'.status.at, rows |-> disk'.status.rows]]
           /\ unsaved' \in BOOLEAN
           /\ at > Never /\ ~unsaved' =>
                /\ disk'.run = at /\ disk'.status.at = at /\ disk'.status.rows = listing
                /\ unsaved => at = ended'
           /\ ~(at > Never) => unsaved' = unsaved
<1>1. CASE at > Never /\ saved
  <2>1. disk' = [disk EXCEPT !.run = at, !.status = [at |-> at, rows |-> listing]]
    BY <1>1 DEF SaveStatus
  <2>2. disk' = [run |-> at, clean |-> disk.clean, status |-> [at |-> at, rows |-> listing]]
    BY <2>1 DEF Shapes
  <2>3. unsaved' = (~saved \/ (unsaved /\ at # ended'))
    BY <1>1 DEF SaveStatus
  <2> QED
    BY <1>1, <2>2, <2>3
<1>2. CASE at > Never /\ ~saved
  BY <1>2 DEF SaveStatus, Shapes
<1>3. CASE ~(at > Never)
  BY <1>3 DEF SaveStatus, Shapes
<1> QED
  BY <1>1, <1>2, <1>3

(* What a restart restores, when all is stored.                            *)
LEMMA Restored ==
    ASSUME Shapes, Stored, ended > Never, ~unsaved
    PROVE  /\ SeedRun = ended
           /\ \A r \in Listed : SeedRows[r] = IF r \in ignored THEN "off"
                                               ELSE disk.status.rows[r]
           /\ Warning \in Listed \ ignored
<1>1. SeedRun = ended
  BY DEF Stored, SeedRun
<1>2. SeedRows = [r \in Listed |-> IF r \in ignored THEN "off" ELSE disk.status.rows[r]]
  BY <1>1 DEF Stored, SeedRows
<1>3. Warning \in Listed \ ignored
  BY DEF Shapes, Listed
<1> QED
  BY <1>1, <1>2, <1>3

-----------------------------------------------------------------------------
(* The inductive invariant *)

(* It holds at the start: no cycle has ended. *)
LEMMA UpdatesBegin == UpdatesInit => UpdatesInv
<1> SUFFICES ASSUME UpdatesInit PROVE UpdatesInv
  OBVIOUS
<1>1. disk = [run |-> Never, clean |-> Never, status |-> [at |-> Never, rows |-> NoRows]]
  BY DEF UpdatesInit, NoStatus
<1>2. Shapes
  <2>1. disk.run = Never /\ disk.clean = Never /\ disk.status.at = Never /\ disk.status.rows = NoRows
    BY <1>1
  <2>2. today \in Nat \ {0} /\ ignored \subseteq Apps
    BY DEF UpdatesInit
  <2>3. unsaved \in BOOLEAN
    BY DEF UpdatesInit
  <2> QED
    BY <1>1, <2>1, <2>2, <2>3 DEF Shapes
<1>3. Stored
  BY DEF UpdatesInit, Stored, Never
<1> QED
  BY <1>2, <1>3 DEF UpdatesInv

(* Every step of the task, the loop and the user keeps it, and a restart.  *)
LEMMA UpdatesStep == UpdatesInv /\ [UpdatesNext]_updVars => UpdatesInv'
<1> SUFFICES ASSUME UpdatesInv, [UpdatesNext]_updVars PROVE UpdatesInv'
  OBVIOUS
<1> USE DEF UpdatesInv
<1>1. ASSUME UNCHANGED <<today, ignored, page, disk, unsaved, ended>> PROVE UpdatesInv'
  BY <1>1 DEF page, Shapes, Stored
<1>2. CASE Scheduled
  BY <1>1, <1>2
  DEF Scheduled, clock, config, page, ghosts
<1>3. CASE Work
  <2>1. ASSUME NEW offered \in SUBSET Apps, NEW given \in SUBSET Apps,
               NEW sound \in BOOLEAN, NEW readable \in BOOLEAN, NEW timed \in BOOLEAN,
               CheckAll(offered, given, sound, readable, timed)
        PROVE  UpdatesInv'
    BY <1>1, <2>1 DEF CheckAll, clock, config, page
  <2>2. ASSUME NEW a \in Apps, NEW result \in RowState, NEW saved \in BOOLEAN,
               HealOne(a, result, saved)
        PROVE  UpdatesInv'
    BY <1>1, <2>2 DEF HealOne, clock, config, page
  <2>3. ASSUME NEW saved \in BOOLEAN, Finish(saved) PROVE UpdatesInv'
    <3>1. UNCHANGED <<today, ignored, page, unsaved, ended>>
      BY <2>3 DEF Finish, clock, config, ghosts
    <3>2. \/ disk' = disk
          \/ disk' = [run |-> disk.run, clean |-> today, status |-> disk.status]
      BY <2>3 DEF Finish, Shapes
    <3> QED
      BY <3>1, <3>2 DEF page, Shapes, Stored
  <2>4. ASSUME NEW offered \in BOOLEAN, NEW sound \in BOOLEAN, NEW saved \in BOOLEAN,
               NEW result \in RowState, RetryOne(offered, sound, result, saved)
        PROVE  UpdatesInv'
    BY <1>1, <2>4 DEF RetryOne, clock, config, page
  <2> QED
    BY <1>3, <2>1, <2>2, <2>3, <2>4 DEF Work
<1>4. CASE Watchdog
  BY <1>1, <1>4 DEF Watchdog, clock, config, page, ghosts
<1>5. CASE Folds
  <2>1. PICK learnSaved \in BOOLEAN, saved \in BOOLEAN : FoldCycle(learnSaved, saved)
    BY <1>5 DEF Folds
  <2>2. PICK listing :
          /\ lastRun' = RunAfter /\ rows' = listing
          /\ ended' = IF Full THEN today ELSE ended
          /\ SaveStatus(RunAfter, listing, saved)
          /\ UNCHANGED <<today, ignored>>
    BY <2>1 DEF FoldCycle, clock, config
  <2>3. Shapes'
    BY <2>2, Saves DEF Shapes
  <2>4. ASSUME ended' > Never, ~unsaved' PROVE lastRun' = ended' /\ lastRun' > Never
    <3>1. CASE Full
      BY <2>2, <3>1 DEF RunAfter, Shapes, Never
    <3>2. CASE ~Full
      <4>1. RunAfter = lastRun /\ ended' = ended /\ lastRun' = lastRun
        BY <2>2, <3>2 DEF RunAfter
      <4>2. CASE lastRun > Never
        BY <2>2, <2>4, <4>1, <4>2, Saves DEF Stored
      <4>3. CASE ~(lastRun > Never)
        BY <2>2, <2>4, <4>1, <4>3, Saves DEF Stored
      <4> QED
        BY <4>2, <4>3
    <3> QED
      BY <3>1, <3>2
  <2>5. Stored'
    <3>1. SUFFICES ASSUME ended' > Never, ~unsaved'
                   PROVE  /\ lastRun' = ended' /\ disk'.run = ended' /\ disk'.status.at = ended'
                          /\ disk'.status.rows = rows'
      BY DEF Stored
    <3> QED
      BY <2>2, <2>4, <3>1, Saves
  <2> QED
    BY <2>3, <2>5
<1>6. CASE Requests
  <2>1. CASE RunUpdatesNow
    BY <1>1, <2>1 DEF RunUpdatesNow, clock, config, page, ghosts
  <2>2. CASE SetEnabled
    BY <1>1, <2>2 DEF SetEnabled, clock, page, ghosts
  <2>3. CASE ClearHistory
    <3>1. disk' = [run |-> disk.run, clean |-> disk.clean,
                   status |-> [at |-> disk.run, rows |-> NoRows]]
      BY <2>3 DEF ClearHistory, Shapes
    <3>2. rows' = NoRows /\ UNCHANGED <<today, ignored, lastRun, unsaved, ended>>
      BY <2>3 DEF ClearHistory, clock, config
    <3> QED
      BY <3>1, <3>2 DEF Shapes, Stored
  <2>4. ASSUME NEW a \in Apps, RetryAppUpdate(a) PROVE UpdatesInv'
    BY <1>1, <2>4 DEF RetryAppUpdate, clock, config, page, ghosts
  <2>5. ASSUME NEW a \in Apps, UnignoreApp(a) PROVE UpdatesInv'
    BY <2>5 DEF UnignoreApp, clock, page, ghosts, Shapes, Stored
  <2>6. ASSUME NEW a \in Apps, NEW saved \in BOOLEAN, IgnoreApp(a, saved) PROVE UpdatesInv'
    <3>1. PICK listing :
            /\ rows' = listing /\ ignored' = ignored \cup {a}
            /\ SaveStatus(lastRun, listing, saved)
            /\ UNCHANGED <<today, lastRun, ended>>
      BY <2>6 DEF IgnoreApp, clock
    <3>2. Shapes'
      BY <3>1, Saves DEF Shapes
    <3>3. ASSUME ended' > Never, ~unsaved' PROVE lastRun = ended /\ lastRun > Never
      <4>1. CASE lastRun > Never
        BY <3>1, <3>3, <4>1, Saves DEF Stored
      <4>2. CASE ~(lastRun > Never)
        BY <3>1, <3>3, <4>2, Saves DEF Stored
      <4> QED
        BY <4>1, <4>2
    <3>4. SUFFICES ASSUME ended' > Never, ~unsaved'
                   PROVE  /\ lastRun' = ended' /\ disk'.run = ended' /\ disk'.status.at = ended'
                          /\ disk'.status.rows = rows'
      BY <3>2 DEF Stored
    <3> QED
      BY <3>1, <3>3, <3>4, Saves
  <2>7. ASSUME NEW a \in Apps, NEW note \in {"none", "user"}, SetAppNote(a, note) PROVE UpdatesInv'
    BY <1>1, <2>7 DEF SetAppNote, clock, page, ghosts
  <2> QED
    BY <1>6, <2>1, <2>2, <2>3, <2>4, <2>5, <2>6, <2>7 DEF Requests
<1>7. CASE NextDay
  BY <1>7 DEF NextDay, config, page, ghosts, Shapes, Stored
<1>8. CASE ServiceRestarts
  <2>1. /\ lastRun' = SeedRun /\ rows' = SeedRows
        /\ UNCHANGED <<today, ignored, disk, unsaved, ended>>
    BY <1>8 DEF ServiceRestarts, clock, config, ghosts
  <2>2. Shapes'
    BY <2>1 DEF Shapes
  <2>3. CASE ended > Never /\ ~unsaved
    BY <2>1, <2>2, <2>3, Restored DEF Stored
  <2>4. CASE ~(ended > Never /\ ~unsaved)
    BY <2>1, <2>2, <2>4 DEF Stored
  <2> QED
    BY <2>3, <2>4
<1>9. ASSUME NEW m \in {"on", "paused", "gaming"}, SetMode(m) PROVE UpdatesInv'
  BY <1>1, <1>9 DEF SetMode, config, page, ghosts
<1>10. CASE UNCHANGED updVars
  BY <1>1, <1>10 DEF updVars, clock, config, page, ghosts
<1> QED
  BY <1>2, <1>3, <1>4, <1>5, <1>6, <1>7, <1>8, <1>9, <1>10 DEF UpdatesNext

(* The inductive invariant holds throughout. *)
THEOREM UpdatesInvariance == UpdatesSpec => []UpdatesInv
  BY UpdatesBegin, UpdatesStep, PTL DEF UpdatesSpec

(* Whatever retries, aborts, restarts, clears and ignored apps happen, the *)
(* scheduler counts from the end of the last full cycle (updater_due),     *)
(* unless a save has failed since.                                         *)
THEOREM ScheduleIsTrue == UpdatesSpec => []ScheduleTrue
<1>1. UpdatesInv => ScheduleTrue
  BY DEF UpdatesInv, Stored, ScheduleTrue
<1> QED
  BY <1>1, UpdatesInvariance, PTL

(* seed_update_status restores each row the page showed of an app that is  *)
(* not ignored, and a warning just when the page had one.                  *)
THEOREM EvidenceIsKept == UpdatesSpec => []EvidenceSurvives
<1>1. UpdatesInv => EvidenceSurvives
  BY Restored DEF UpdatesInv, Stored, EvidenceSurvives
<1> QED
  BY <1>1, UpdatesInvariance, PTL

-----------------------------------------------------------------------------
(* The turns and the failures of the apps *)

(* What app_state holds. *)
AppState == [run : Days, clean : Days, status : [at : Days, rows : [Listed -> RowState]]]

(* What the variables hold, beyond UpdatesTypeOK. *)
AttemptShapes ==
    /\ UpdatesTypeOK
    /\ disk \in AppState
    /\ today \in Nat \ {0} /\ lost \in Nat
    /\ passed \in [Apps -> Nat] /\ failing \in [Apps -> [n : Nat, day : Nat]]
    /\ \A a \in Apps : IsFiniteSet(tried[a])

(* Runs are numbered and dated in order, and the run under way is newer    *)
(* than any that tried an app it has still to try.                         *)
InOrder ==
    /\ cleared <= runs /\ (busy => cycleTask.run = runs /\ cleared < runs)
    /\ \A a \in Apps :
        /\ \A r \in tried[a] : r.run <= runs /\ r.day \in 1..today
        /\ \A r, q \in tried[a] : r.run <= q.run => r.day <= q.day
        /\ cycleTask.stage = "checking" \/ a \in cycleTask.todo =>
                \A r \in tried[a] : r.run < cycleTask.run
    /\ cycleTask.stage # "healing" => cycleTask.todo = {}

(* How often an app failed in a row is counted as its records are written. *)
Counts(a) == {r \in tried[a] : r.run > cleared}

(* Of those, the ones after the last that was settled. *)
InARow(a) == {r \in Counts(a) : \A s \in Counts(a) : s.settled => s.run < r.run}

(* What is recorded of an app is the number of its failures in a row. *)
FailuresCounted ==
    \A a \in Apps :
        /\ failing[a].n = Cardinality(InARow(a))
        /\ failing[a].n > 0 => \E r \in InARow(a) :
                r.day = failing[a].day /\ \A q \in InARow(a) : q.day <= r.day

(* An app is passed over at most once for each that was tried after it,    *)
(* a try that was lost or is still to be recorded counted apart.           *)
Ahead(a) == {b \in Apps \ {a} : LastTried(b) > LastTried(a)}

(* What the cycle under way has still to do counts, if its order is known. *)
Pending(w) == IF w.timed THEN Cardinality(w.todo) ELSE 0

(* The tries that are lost for good: one still to be done counts as lost   *)
(* until its result is recorded.                                           *)
Untold == lost - Pending(cycleTask)

(* A task with nothing to do has nothing pending. *)
LEMMA PendingIs ==
    ASSUME NEW t \in Task
    PROVE  /\ IsFiniteSet(t.todo) /\ Pending(t) \in Nat /\ Pending(t) <= Cardinality(t.todo)
           /\ t.todo = {} \/ ~t.timed => Pending(t) = 0
           /\ t.timed => Pending(t) = Cardinality(t.todo)
<1>1. IsFiniteSet(t.todo) /\ Cardinality(t.todo) \in Nat
  BY FS_Subset, FS_CardinalityType DEF Task
<1> QED
  BY <1>1, FS_EmptySet DEF Pending

(* An app was passed over at most once by each one tried after it and by   *)
(* each try lost; one that the cycle under way left for the next, by what  *)
(* that cycle has still to do as well.                                     *)
TurnsKept ==
    /\ Pending(cycleTask) <= lost
    /\ \A a \in Apps :
        \/ passed[a] <= Cardinality(Ahead(a)) + Untold
        \/ /\ cycleTask.stage = "healing" /\ cycleTask.timed /\ a \notin cycleTask.todo
           /\ LastTried(a) < cycleTask.run
           /\ \A b \in cycleTask.todo : LastTried(b) <= LastTried(a)
           /\ passed[a] <= Cardinality(Ahead(a)) + lost

(* The inductive invariant of the turns and the failures. *)
AttemptInv == AttemptShapes /\ InOrder /\ FailuresCounted /\ TurnsKept

(* A set of naturals that is not empty has a least element. *)
LEMMA Least ==
    ASSUME NEW S \in SUBSET Nat, S # {} PROVE \E x \in S : \A y \in S : x <= y
<1>1. PICK x \in S : \A y \in S : ~(<<y, x>> \in OpToRel(<, Nat))
  BY NatLessThanWellFounded, WFMin
<1>2. ASSUME NEW y \in S PROVE x <= y
  <2>1. x \in Nat /\ y \in Nat /\ ~(y < x)
    BY <1>1 DEF OpToRel
  <2> QED
    BY <2>1
<1> QED
  BY <1>2

(* A bounded set of naturals that is not empty has a greatest element. *)
LEMMA GreatestOf ==
    ASSUME NEW n \in Nat, NEW S \in SUBSET (0..n), S # {}
    PROVE  Largest(S) \in S /\ \A y \in S : y <= Largest(S)
<1> DEFINE D == {n - x : x \in S}
<1>1. D \in SUBSET Nat /\ D # {}
  <2>1. \A x \in S : x \in 0..n /\ n - x \in Nat
    OBVIOUS
  <2>2. PICK x \in S : TRUE
    OBVIOUS
  <2>3. n - x \in D
    BY <2>2
  <2> QED
    BY <2>1, <2>3
<1>2. PICK d \in D : \A e \in D : d <= e
  BY <1>1, Least
<1>3. PICK x \in S : d = n - x
  BY <1>2
<1>4. \A y \in S : y <= x
  <2> SUFFICES ASSUME NEW y \in S PROVE y <= x
    OBVIOUS
  <2>1. n - y \in D
    OBVIOUS
  <2>2. d <= n - y /\ x \in 0..n /\ y \in 0..n
    BY <1>2, <2>1
  <2> QED
    BY <1>3, <2>2
<1> QED
  BY <1>4 DEF Largest

(* A greatest element is the one Largest returns. *)
LEMMA GreatestIs ==
    ASSUME NEW S \in SUBSET Nat, NEW x \in S, \A y \in S : y <= x PROVE Largest(S) = x
<1>1. \A z \in S : (\A y \in S : y <= z) => z = x
  OBVIOUS
<1> QED
  BY <1>1 DEF Largest

(* The latest run of a set is the greatest, and that of the empty set is   *)
(* 0.                                                                      *)
LEMMA LatestRun ==
    ASSUME NEW T \in SUBSET TriedRun
    PROVE  LET last == Largest({0} \cup {r.run : r \in T})
           IN  /\ last \in Nat /\ \A r \in T : r.run <= last
               /\ last = 0 \/ \E r \in T : r.run = last
<1> DEFINE S == {0} \cup {r.run : r \in T}
<1>1. MaxRuns \in Nat
  OBVIOUS
<1>2. S \in SUBSET (0..MaxRuns) /\ S # {}
  BY <1>1 DEF TriedRun, Runs
<1>3. Largest(S) \in S /\ \A y \in S : y <= Largest(S)
  BY <1>1, <1>2, GreatestOf
<1>4. \A r \in T : r.run \in S
  OBVIOUS
<1>5. \A x \in S : x \in Nat /\ (x = 0 \/ \E r \in T : r.run = x)
  BY <1>2
<1> QED
  BY <1>3, <1>4, <1>5

(* When an app was last tried is the latest of its runs. *)
LEMMA LastOf ==
    ASSUME tried \in [Apps -> SUBSET TriedRun], NEW a \in Apps
    PROVE  /\ LastTried(a) \in Nat /\ \A r \in tried[a] : r.run <= LastTried(a)
           /\ LastTried(a) = 0 \/ \E r \in tried[a] : r.run = LastTried(a)
  BY LatestRun DEF LastTried

(* Those tried after an app are fewer than the apps. *)
LEMMA AheadOf ==
    ASSUME NEW a \in Apps
    PROVE  /\ IsFiniteSet(Ahead(a)) /\ Cardinality(Ahead(a)) \in Nat
           /\ Cardinality(Ahead(a)) <= Cardinality(Apps) - 1 /\ Cardinality(Apps) \in Nat
<1>1. /\ IsFiniteSet(Apps \ {a}) /\ Cardinality(Apps \ {a}) = Cardinality(Apps) - 1
      /\ Cardinality(Apps) \in Nat
  BY FS_RemoveElement, FS_CardinalityType
<1>2. Ahead(a) \in SUBSET (Apps \ {a})
  BY DEF Ahead
<1> QED
  BY <1>1, <1>2, FS_Subset, FS_CardinalityType

(* The pause that is computed is the one that was earned. *)
LEMMA PausedIs ==
    ASSUME AttemptInv PROVE PausesEarned
<1> SUFFICES ASSUME today <= Window, NEW a \in Apps
             PROVE  Paused(a) <=> /\ failing[a].n >= 2
                                  /\ today < failing[a].day + PauseDays(failing[a].n)
  BY DEF PausesEarned
<1> USE DEF AttemptInv
<1>1. tried[a] \subseteq TriedRun /\ today \in Nat /\ Window \in Nat /\ cleared \in Nat
  BY DEF AttemptShapes, UpdatesTypeOK, Runs
<1>2. \A r \in tried[a] : r.day \in 1..today /\ r.run \in Nat
  BY <1>1 DEF InOrder, TriedRun, Runs
<1>3. Records(a) = Counts(a)
  BY <1>1, <1>2 DEF Records, Counts
<1>4. FailedRuns(a) = InARow(a)
  BY <1>3 DEF FailedRuns, InARow
<1>5. failing[a].n = Cardinality(InARow(a)) /\ failing[a].n \in Nat
  BY DEF FailuresCounted, AttemptShapes
<1>6. ASSUME failing[a].n >= 2 PROVE Largest({r.day : r \in InARow(a)}) = failing[a].day
  <2>1. PICK r \in InARow(a) : r.day = failing[a].day /\ \A q \in InARow(a) : q.day <= r.day
    BY <1>5, <1>6 DEF FailuresCounted
  <2>2. {q.day : q \in InARow(a)} \in SUBSET Nat
    BY <1>2 DEF InARow, Counts
  <2> QED
    BY <2>1, <2>2, GreatestIs
<1> QED
  BY <1>4, <1>5, <1>6 DEF Paused

(* The rotation is fair when the turns are kept. *)
LEMMA RotationIs ==
    ASSUME AttemptInv PROVE FairRotation
<1> SUFFICES ASSUME NEW a \in Apps PROVE passed[a] <= Cardinality(Apps) - 1 + lost
  BY DEF FairRotation
<1>1. cycleTask \in Task /\ lost \in Nat /\ passed[a] \in Nat
  BY DEF AttemptInv, AttemptShapes, UpdatesTypeOK
<1>2. Pending(cycleTask) \in Nat
  BY <1>1, PendingIs
<1>3. passed[a] <= Cardinality(Ahead(a)) + lost
  BY <1>1, <1>2, AheadOf DEF AttemptInv, TurnsKept, Untold
<1> QED
  BY <1>1, <1>3, AheadOf

-----------------------------------------------------------------------------
(* A cycle with nothing to do has nothing to lose. *)
LEMMA NothingTodo == Cardinality({}) = 0
  BY FS_EmptySet

(* When no task runs there is nothing to do. *)
LEMMA NoTaskIs ==
    /\ NoTask \in Task /\ NoTask.todo = {} /\ NoTask.stage = "none" /\ NoRows \in [Listed -> RowState]
  BY DEF NoTask, Task, NoTarget, Listed, NoResults, RowState, Runs, NoRows

(* It holds at the start: nothing was tried and nothing failed. *)
LEMMA AttemptInit == UpdatesInit => AttemptInv
<1> SUFFICES ASSUME UpdatesInit PROVE AttemptInv
  OBVIOUS
<1>1. UpdatesTypeOK
  <2>1. disk.run = Never /\ disk.clean = Never /\ disk.status = NoStatus
    BY DEF UpdatesInit
  <2>2. Never \in Days /\ today \in Days
    BY DEF Never, Days, UpdatesInit
  <2>3. disk.status.at \in Days /\ disk.status.rows \in [Listed -> RowState] /\ disk.run \in Days
        /\ disk.clean \in Days
    BY <2>1, <2>2, NoTaskIs DEF NoStatus
  <2>4. tried \in [Apps -> SUBSET TriedRun] /\ notes \in [Apps -> {"none", "user", "learned"}]
    BY DEF UpdatesInit
  <2>5. rows \in [Listed -> RowState] /\ cycleTask \in Task /\ cycleTask.stage = "none" /\ ~busy
    BY NoTaskIs DEF UpdatesInit
  <2>6. lastRun \in Days /\ cleared \in Runs /\ runs \in Runs /\ edits \in 0..MaxEdits
        /\ faults \in 0..MaxFaults
    BY <2>2 DEF UpdatesInit, Runs
  <2> QED
    BY <2>2, <2>3, <2>4, <2>5, <2>6 DEF UpdatesInit, UpdatesTypeOK
<1>2. AttemptShapes
  <2>1. disk \in AppState
    BY NoTaskIs DEF UpdatesInit, NoStatus, Never, Days, AppState
  <2> QED
    BY <1>1, <2>1, FS_EmptySet DEF UpdatesInit, AttemptShapes
<1>3. InOrder
  BY NoTaskIs DEF UpdatesInit, InOrder
<1>4. FailuresCounted
  <2>1. \A a \in Apps : InARow(a) = {}
    BY DEF UpdatesInit, InARow, Counts
  <2> QED
    BY SMTT(20), <2>1, FS_EmptySet DEF UpdatesInit, FailuresCounted
<1>5. TurnsKept
  <2>0. lost = 0 /\ Pending(cycleTask) = 0
    BY NoTaskIs, PendingIs DEF UpdatesInit
  <2>1. Untold = 0 /\ lost = 0 /\ Pending(cycleTask) = 0
    BY <2>0 DEF Untold
  <2> QED
    BY <2>1, AheadOf DEF UpdatesInit, TurnsKept
<1> QED
  BY <1>2, <1>3, <1>4, <1>5 DEF AttemptInv

(* A result recorded counts for its app, and moves it to the end of the    *)
(* turns.                                                                  *)
LEMMA RecordKeeps ==
    ASSUME AttemptInv, NEW a \in Apps, NEW result, NEW saved \in BOOLEAN, busy,
           \A r \in tried[a] : r.run < cycleTask.run,
           RecordCycleAttempt(a, result, saved), UNCHANGED <<today, cleared, runs>>
    PROVE  /\ tried' \in [Apps -> SUBSET TriedRun] /\ \A b \in Apps : IsFiniteSet(tried'[b])
           /\ passed' \in [Apps -> Nat] /\ failing' \in [Apps -> [n : Nat, day : Nat]]
           /\ \A b \in Apps : /\ \A r \in tried'[b] : r.run <= runs /\ r.day \in 1..today
                              /\ \A r, q \in tried'[b] : r.run <= q.run => r.day <= q.day
           /\ FailuresCounted'
           /\ \A b \in Apps : b # a \/ ~saved => tried'[b] = tried[b] /\ passed'[b] = passed[b]
           /\ saved => LastTried(a)' = cycleTask.run /\ passed'[a] = 0
<1> USE DEF AttemptInv
<1>1. CASE ~saved
  <2>1. UNCHANGED <<tried, failing, passed>>
    BY <1>1 DEF RecordCycleAttempt
  <2>2. \A b \in Apps : InARow(b)' = InARow(b)
    BY <2>1 DEF InARow, Counts
  <2>3. FailuresCounted'
    BY <2>1, <2>2 DEF FailuresCounted
  <2> QED
    BY <1>1, <2>1, <2>3 DEF AttemptShapes, UpdatesTypeOK, InOrder
<1>2. CASE saved
  <2> DEFINE settled == result # "failed"
             new == [run |-> cycleTask.run, settled |-> settled, day |-> today]
  <2>1. /\ tried' = [tried EXCEPT ![a] = @ \cup {new}]
        /\ failing' = [failing EXCEPT ![a] = IF settled THEN [n |-> 0, day |-> 0]
                                             ELSE [n |-> @.n + 1, day |-> today]]
        /\ passed' = [passed EXCEPT ![a] = 0]
    BY <1>2 DEF RecordCycleAttempt
  <2>2. /\ cycleTask.run = runs /\ cleared < runs /\ runs \in Runs /\ today \in Days /\ today \in Nat \ {0}
        /\ cleared \in Nat /\ runs \in Nat
    BY DEF InOrder, AttemptShapes, UpdatesTypeOK, Runs
  <2>3. /\ new \in TriedRun /\ new.run = runs /\ new.day = today /\ new.settled = settled
        /\ new.day \in 1..today
    BY <2>2 DEF TriedRun
  <2> HIDE DEF new
  <2>4. /\ tried \in [Apps -> SUBSET TriedRun] /\ passed \in [Apps -> Nat]
        /\ failing \in [Apps -> [n : Nat, day : Nat]]
    BY DEF AttemptShapes, UpdatesTypeOK
  <2>5. /\ tried'[a] = tried[a] \cup {new} /\ \A b \in Apps \ {a} : tried'[b] = tried[b]
        /\ tried' \in [Apps -> SUBSET TriedRun]
    BY <2>1, <2>3, <2>4
  <2>6. \A b \in Apps : IsFiniteSet(tried'[b])
    <3>1. \A b \in Apps : IsFiniteSet(tried[b])
      BY DEF AttemptShapes
    <3>2. IsFiniteSet(tried[a] \cup {new})
      BY <3>1, FS_AddElement
    <3> QED
      BY <2>5, <3>1, <3>2
  <2>7. /\ passed' \in [Apps -> Nat] /\ passed'[a] = 0 /\ \A b \in Apps \ {a} : passed'[b] = passed[b]
    BY <2>1, <2>4
  <2>8. /\ failing'[a] = IF settled THEN [n |-> 0, day |-> 0] ELSE [n |-> failing[a].n + 1, day |-> today]
        /\ \A b \in Apps \ {a} : failing'[b] = failing[b]
        /\ failing[a].n \in Nat /\ failing' \in [Apps -> [n : Nat, day : Nat]]
    BY <2>1, <2>2, <2>4
  <2>9. \A r \in tried[a] : r.run \in Nat /\ r.run < runs /\ r.day \in 1..today
    BY <2>2, <2>4 DEF InOrder, TriedRun, Runs
  <2>10. ASSUME NEW b \in Apps
         PROVE  /\ \A r \in tried'[b] : r.run <= runs /\ r.day \in 1..today
                /\ \A r, q \in tried'[b] : r.run <= q.run => r.day <= q.day
    <3>1. CASE b # a
      BY <2>5, <3>1 DEF InOrder
    <3>2. CASE b = a
      <4>1. \A r, q \in tried[a] : r.run <= q.run => r.day <= q.day
        BY DEF InOrder
      <4> QED
        BY <2>2, <2>3, <2>5, <2>9, <3>2, <4>1
    <3> QED
      BY <3>1, <3>2
  <2>11. ASSUME NEW b \in Apps
         PROVE  /\ failing'[b].n = Cardinality(InARow(b)')
                /\ failing'[b].n > 0 => \E r \in InARow(b)' :
                        r.day = failing'[b].day /\ \A q \in InARow(b)' : q.day <= r.day
    <3>1. CASE b # a
      <4>1. InARow(b)' = InARow(b) /\ failing'[b] = failing[b]
        BY <2>5, <2>8, <3>1 DEF InARow, Counts
      <4> QED
        BY <4>1 DEF FailuresCounted
    <3>2. CASE b = a
      <4>1. Counts(a)' = Counts(a) \cup {new}
        BY <2>2, <2>3, <2>5 DEF Counts
      <4>2. CASE settled
        <5>1. InARow(a)' = {}
          <6>1. \A q \in Counts(a)' : q.run \in Nat /\ q.run <= runs
            BY <2>2, <2>3, <2>9, <4>1 DEF Counts
          <6>2. new \in Counts(a)' /\ new.settled
            BY <2>3, <4>1, <4>2
          <6> QED
            BY <2>2, <2>3, <6>1, <6>2 DEF InARow
        <5> QED
          BY <2>8, <3>2, <4>2, <5>1, FS_EmptySet
      <4>3. CASE ~settled
        <5>1. InARow(a)' = InARow(a) \cup {new}
          BY <2>2, <2>3, <2>9, <4>1, <4>3 DEF InARow, Counts
        <5>2. new \notin InARow(a)
          BY <2>2, <2>3, <2>9 DEF InARow, Counts
        <5>3. IsFiniteSet(InARow(a))
          <6>1. InARow(a) \in SUBSET tried[a] /\ IsFiniteSet(tried[a])
            BY DEF InARow, Counts, AttemptShapes
          <6> QED
            BY <6>1, FS_Subset
        <5>4. Cardinality(InARow(a)') = failing[a].n + 1
          BY ZenonT(30), <5>1, <5>2, <5>3, FS_AddElement DEF FailuresCounted
        <5>5. new.day = today /\ \A q \in InARow(a)' : q.day <= today
          BY <2>2, <2>3, <2>9, <5>1 DEF InARow, Counts
        <5> QED
          BY <2>8, <3>2, <4>3, <5>1, <5>4, <5>5
      <4> QED
        BY <4>2, <4>3
    <3> QED
      BY <3>1, <3>2
  <2>12. LastTried(a)' = runs
    <3>1. {0} \cup {r.run : r \in tried'[a]} \in SUBSET Nat
      BY <2>2, <2>3, <2>5, <2>9
    <3>2. /\ runs \in {0} \cup {r.run : r \in tried'[a]}
          /\ \A y \in {0} \cup {r.run : r \in tried'[a]} : y <= runs
      BY <2>2, <2>3, <2>5, <2>9
    <3> QED
      BY <3>1, <3>2, GreatestIs DEF LastTried
  <2>13. FailuresCounted'
    BY <2>11 DEF FailuresCounted
  <2> QED
    BY <1>2, <2>2, <2>5, <2>6, <2>7, <2>8, <2>10, <2>12, <2>13
<1> QED
  BY <1>1, <1>2

(* An app that was tried moves ahead of the others. *)
LEMMA AheadGrows ==
    ASSUME tried \in [Apps -> SUBSET TriedRun], tried' \in [Apps -> SUBSET TriedRun], NEW a \in Apps,
           \A b \in Apps \ {a} : LastTried(b)' = LastTried(b),
           LastTried(a) <= LastTried(a)', NEW b \in Apps \ {a}
    PROVE  /\ Cardinality(Ahead(b)) <= Cardinality(Ahead(b)')
           /\ LastTried(a) <= LastTried(b) /\ LastTried(b) < LastTried(a)' =>
                  Cardinality(Ahead(b)') = Cardinality(Ahead(b)) + 1
<1>1. \A c \in Apps : LastTried(c) \in Nat /\ LastTried(c)' \in Nat
  BY LatestRun DEF LastTried
<1>2. IsFiniteSet(Ahead(b)) /\ IsFiniteSet(Ahead(b)')
  <2>1. Ahead(b)' \in SUBSET Apps
    BY DEF Ahead
  <2> QED
    BY <2>1, AheadOf, FS_Subset
<1>3. Ahead(b) \in SUBSET Ahead(b)'
  BY <1>1 DEF Ahead
<1>4. Cardinality(Ahead(b)) <= Cardinality(Ahead(b)')
  BY <1>2, <1>3, FS_Subset
<1>5. ASSUME LastTried(a) <= LastTried(b), LastTried(b) < LastTried(a)'
      PROVE  Cardinality(Ahead(b)') = Cardinality(Ahead(b)) + 1
  <2>1. Ahead(b)' = Ahead(b) \cup {a} /\ a \notin Ahead(b)
    BY <1>1, <1>5 DEF Ahead
  <2> QED
    BY <1>2, <2>1, FS_AddElement
<1> QED
  BY <1>4, <1>5

(* Steps that record no attempt. *)

(* A step that records no result keeps the turns and the failures as long  *)
(* as the task stays.                                                      *)
LEMMA TaskKept ==
    ASSUME AttemptInv, UpdatesTypeOK', disk' \in AppState,
           UNCHANGED <<today, tried, failing, passed, lost, cleared, runs, busy, cycleTask>>
    PROVE  AttemptInv'
<1> USE DEF AttemptInv
<1>1. AttemptShapes' /\ InOrder'
  BY DEF AttemptShapes, InOrder
<1>2. \A a \in Apps : InARow(a)' = InARow(a) /\ Ahead(a)' = Ahead(a) /\ LastTried(a)' = LastTried(a)
  BY DEF InARow, Counts, Ahead, LastTried
<1>3. FailuresCounted'
  BY <1>2 DEF FailuresCounted
<1>4. TurnsKept'
  <2>1. Untold' = Untold
    BY DEF Untold
  <2>2. ASSUME NEW a \in Apps
        PROVE  \/ passed'[a] <= Cardinality(Ahead(a)') + Untold'
               \/ /\ cycleTask'.stage = "healing" /\ cycleTask'.timed /\ a \notin cycleTask'.todo
                  /\ LastTried(a)' < cycleTask'.run
                  /\ \A b \in cycleTask'.todo : LastTried(b)' <= LastTried(a)'
                  /\ passed'[a] <= Cardinality(Ahead(a)') + lost'
    <3>1. \A b \in cycleTask.todo : LastTried(b)' = LastTried(b)
      BY <1>2 DEF AttemptShapes, UpdatesTypeOK, Task
    <3> QED
      BY <1>2, <2>1, <3>1 DEF TurnsKept
  <2> QED
    BY <2>2 DEF TurnsKept
<1> QED
  BY <1>1, <1>3, <1>4

(* A task ends, or begins: what it had still to do is lost for good. *)
LEMMA TaskOver ==
    ASSUME AttemptInv, UpdatesTypeOK', disk' \in AppState,
           UNCHANGED <<tried, failing, passed, lost, cleared>>,
           today' \in {today, today + 1}, runs <= runs', runs' \in Nat,
           cycleTask'.todo = {}, cycleTask'.stage = "checking" => runs < cycleTask'.run,
           busy' => cycleTask'.run = runs' /\ cleared < runs'
    PROVE  AttemptInv'
<1> USE DEF AttemptInv
<1>1. /\ tried \in [Apps -> SUBSET TriedRun] /\ lost \in Nat /\ runs \in Nat /\ cleared \in Nat
      /\ passed \in [Apps -> Nat] /\ cycleTask \in Task /\ cycleTask' \in Task /\ today \in Nat \ {0}
      /\ cycleTask'.run \in Nat
  BY DEF AttemptShapes, UpdatesTypeOK, Runs, Task
<1>2. Pending(cycleTask) \in Nat /\ Pending(cycleTask') = 0
  BY <1>1, PendingIs
<1>3. AttemptShapes'
  BY <1>1 DEF AttemptShapes
<1>4. InOrder'
  <2>1. \A a \in Apps : \A r \in tried[a] : r.run \in Nat /\ r.day \in 1..today /\ r.run <= runs
    BY <1>1 DEF InOrder, TriedRun, Runs
  <2>2. \A a \in Apps : \A r \in tried[a] : r.run <= runs' /\ r.day \in 1..today'
    BY <1>1, <2>1
  <2>3. cleared <= runs'
    BY <1>1 DEF InOrder
  <2>4. cycleTask'.stage = "checking" => \A a \in Apps : \A r \in tried[a] : r.run < cycleTask'.run
    BY <1>1, <2>1
  <2> QED
    BY <2>2, <2>3, <2>4 DEF InOrder
<1>5. \A a \in Apps : InARow(a)' = InARow(a) /\ Ahead(a)' = Ahead(a) /\ LastTried(a)' = LastTried(a)
  BY DEF InARow, Counts, Ahead, LastTried
<1>6. FailuresCounted'
  BY <1>5 DEF FailuresCounted
<1>7. TurnsKept'
  <2>1. Untold' = lost
    BY <1>1, <1>2 DEF Untold
  <2>2. ASSUME NEW a \in Apps PROVE passed[a] <= Cardinality(Ahead(a)) + lost
    BY <1>1, <1>2, AheadOf DEF TurnsKept, Untold
  <2> QED
    BY <1>1, <1>2, <1>5, <2>1, <2>2 DEF TurnsKept
<1> QED
  BY <1>3, <1>4, <1>6, <1>7

(* What is shown and stored. *)
LEMMA SaveTypes ==
    ASSUME disk \in AppState, NEW at \in Days, NEW listing \in [Listed -> RowState],
           NEW saved \in BOOLEAN, SaveStatus(at, listing, saved)
    PROVE  disk' \in AppState
  BY DEF SaveStatus, AppState

(* The parts of app_state have their types. *)
LEMMA DiskTypes ==
    ASSUME NEW d \in AppState
    PROVE  d.run \in Days /\ d.clean \in Days /\ d.status.at \in Days /\ d.status.rows \in [Listed -> RowState]
  BY DEF AppState

(* The rows a fold shows are rows. *)
LEMMA RowTypes ==
    ASSUME cycleTask \in Task, rows \in [Listed -> RowState]
    PROVE  AppRows \in [Listed -> RowState] /\ Merged \in [Listed -> RowState]
<1>1. ASSUME NEW r \in Listed PROVE AppRows[r] \in RowState
  BY DEF AppRows, Listed, Task, RowState
<1>2. AppRows \in [Listed -> RowState]
  BY <1>1 DEF AppRows
<1> QED
  BY <1>2 DEF Merged

(* What the page is restored from has its types. *)
LEMMA SeedTypes ==
    ASSUME AttemptShapes PROVE SeedRun \in Days /\ SeedRows \in [Listed -> RowState]
<1> DEFINE S == {0} \cup {r.day : r \in {s \in UNION {tried[a] : a \in Apps} : s.run > cleared}}
<1>1. disk \in AppState /\ tried \in [Apps -> SUBSET TriedRun] /\ LastDay \in Nat
  BY DEF AttemptShapes, UpdatesTypeOK
<1>2. S \in SUBSET (0..LastDay) /\ S # {}
  BY <1>1 DEF TriedRun, Days
<1>3. Recent \in Days
  BY <1>1, <1>2, GreatestOf DEF Recent, Days
<1>4. SeedRun \in Days
  BY <1>1, <1>3, DiskTypes DEF SeedRun
<1>5. [NoRows EXCEPT ![Warning] = "failed"] \in [Listed -> RowState] /\ NoRows \in [Listed -> RowState]
  BY NoTaskIs DEF RowState
<1>6. [r \in Listed |-> IF r \in ignored THEN "off" ELSE disk.status.rows[r]] \in [Listed -> RowState]
  BY <1>1, DiskTypes DEF RowState
<1> QED
  BY <1>4, <1>5, <1>6 DEF SeedRows

(* A task is started when none runs. *)
LEMMA SpawnKeeps ==
    ASSUME AttemptInv, NEW t \in Listed, Spawn(t), ~busy,
           UNCHANGED <<clock, config, page, disk, pastRuns, edits, faults, ghosts>>
    PROVE  AttemptInv'
<1> USE DEF AttemptInv, clock, config, page, pastRuns, ghosts
<1>1. /\ runs \in Nat /\ runs + 1 \in Runs /\ cleared <= runs /\ cleared \in Nat /\ ignored \subseteq Apps
      /\ ignored \in SUBSET Apps
  BY DEF AttemptShapes, UpdatesTypeOK, InOrder, Runs, Spawn
<1> DEFINE new == [NoTask EXCEPT !.stage = "checking", !.target = t, !.run = runs + 1, !.ignored = ignored,
                                 !.guided = t \in Apps /\ notes[t] # "none"]
<1>2. new \in Task /\ new.todo = {} /\ new.stage = "checking" /\ new.run = runs + 1
  BY <1>1, NoTaskIs DEF Task
<1>3. cycleTask' = new /\ runs' = runs + 1 /\ busy' = TRUE
  BY DEF Spawn
<1> HIDE DEF new
<1>4. UpdatesTypeOK' /\ disk' \in AppState
  BY <1>1, <1>2, <1>3 DEF AttemptShapes, UpdatesTypeOK
<1> QED
  BY <1>1, <1>2, <1>3, <1>4, TaskOver

(* A task ends with its summary. *)
LEMMA FinishKeeps ==
    ASSUME AttemptInv, NEW saved \in BOOLEAN, Finish(saved) PROVE AttemptInv'
<1> USE DEF AttemptInv, clock, config, page, pastRuns, ghosts
<1>1. \E c \in BOOLEAN : cycleTask' = [cycleTask EXCEPT !.stage = "summary", !.clean = c]
  BY DEF Finish
<1>2. /\ cycleTask' \in Task /\ cycleTask'.todo = {} /\ cycleTask'.stage = "summary" /\ cycleTask'.run = cycleTask.run
      /\ cycleTask.stage = "healing" /\ busy
  BY <1>1 DEF Finish, AttemptShapes, UpdatesTypeOK, Task
<1>3. disk' \in AppState
  BY DEF Finish, AttemptShapes, UpdatesTypeOK, AppState
<1>4. faults' \in 0..MaxFaults
  BY DEF Finish, Outcome, Fault, AttemptShapes, UpdatesTypeOK
<1>5. UNCHANGED <<clock, config, busy, page, pastRuns, runs, edits, ghosts>>
  BY DEF Finish
<1>6. UpdatesTypeOK'
  BY <1>2, <1>3, <1>4, <1>5, DiskTypes DEF AttemptShapes, UpdatesTypeOK
<1> QED
  BY <1>2, <1>3, <1>5, <1>6, TaskOver DEF InOrder, AttemptShapes, UpdatesTypeOK, Runs

(* The watchdog drops the task, and what it had still to do. *)
LEMMA WatchdogKeeps == ASSUME AttemptInv, Watchdog PROVE AttemptInv'
<1> USE DEF AttemptInv, clock, config, page, pastRuns, ghosts, bounds
<1>1. cycleTask' = [NoTask EXCEPT !.stage = "summary", !.target = cycleTask.target, !.run = cycleTask.run]
  BY DEF Watchdog
<1>2. /\ cycleTask' \in Task /\ cycleTask'.todo = {} /\ cycleTask'.stage = "summary" /\ cycleTask'.run = cycleTask.run
  BY <1>1, NoTaskIs DEF AttemptShapes, UpdatesTypeOK, Task
<1>3. UNCHANGED <<clock, config, busy, page, disk, pastRuns, bounds, ghosts>> /\ cycleTask.stage # "none"
  BY DEF Watchdog
<1>4. UpdatesTypeOK' /\ disk' \in AppState
  BY <1>2, <1>3 DEF AttemptShapes, UpdatesTypeOK
<1> QED
  BY <1>2, <1>3, <1>4, TaskOver DEF InOrder, AttemptShapes, UpdatesTypeOK, Runs

(* The result of a cycle is folded into what is shown and stored. *)
LEMMA FoldingKeeps ==
    ASSUME AttemptInv, NEW learnSaved \in BOOLEAN, NEW saved \in BOOLEAN, FoldCycle(learnSaved, saved)
    PROVE  AttemptInv'
<1> USE DEF AttemptInv, clock, pastRuns
<1>1. PICK listing \in [Listed -> RowState] :
        rows' = listing /\ SaveStatus(RunAfter, listing, saved)
  BY RowTypes DEF FoldCycle, AttemptShapes, UpdatesTypeOK
<1>2. RunAfter \in Days
  BY DEF RunAfter, AttemptShapes, UpdatesTypeOK
<1>3. disk' \in AppState
  BY <1>1, <1>2, SaveTypes DEF AttemptShapes
<1>4. faults' \in 0..MaxFaults
  BY DEF FoldCycle, Outcome, Fault, AttemptShapes, UpdatesTypeOK
<1>5. notes' \in [Apps -> {"none", "user", "learned"}]
  BY DEF FoldCycle, AttemptShapes, UpdatesTypeOK
<1>6. /\ busy' = FALSE /\ cycleTask' = NoTask /\ lastRun' = RunAfter
      /\ UNCHANGED <<clock, enabled, ignored, pastRuns, runs, edits, failing, passed, lost>>
  BY DEF FoldCycle
<1>7. UpdatesTypeOK'
  BY <1>1, <1>2, <1>3, <1>4, <1>5, <1>6, DiskTypes, NoTaskIs DEF AttemptShapes, UpdatesTypeOK
<1> QED
  BY <1>3, <1>6, <1>7, NoTaskIs, TaskOver DEF AttemptShapes, UpdatesTypeOK, Runs

(* The day and the start of the service. *)
LEMMA NextDayKeeps == ASSUME AttemptInv, NextDay \/ ServiceRestarts PROVE AttemptInv'
<1> USE DEF AttemptInv, clock, config, page, pastRuns, ghosts, bounds
<1>1. CASE NextDay
  <2>1. /\ today' = today + 1 /\ today' \in Days /\ ~busy
        /\ UNCHANGED <<mode, config, busy, cycleTask, page, disk, pastRuns, bounds, ghosts>>
    BY <1>1 DEF NextDay, AttemptShapes, UpdatesTypeOK, Days
  <2>2. UpdatesTypeOK' /\ disk' \in AppState
    BY <2>1 DEF AttemptShapes, UpdatesTypeOK
  <2> QED
    BY <2>1, <2>2, TaskOver DEF InOrder, AttemptShapes, UpdatesTypeOK, Runs
<1>2. CASE ServiceRestarts
  <2>1. /\ busy' = FALSE /\ cycleTask' = NoTask /\ lastRun' = SeedRun /\ rows' = SeedRows
        /\ faults' \in 0..MaxFaults
        /\ UNCHANGED <<clock, config, disk, pastRuns, runs, edits, ghosts>>
    BY <1>2 DEF ServiceRestarts, Fault, AttemptShapes, UpdatesTypeOK
  <2>2. UpdatesTypeOK' /\ disk' \in AppState
    BY <2>1, SeedTypes, NoTaskIs DEF AttemptShapes, UpdatesTypeOK
  <2> QED
    BY <2>1, <2>2, NoTaskIs, TaskOver DEF AttemptShapes, UpdatesTypeOK, Runs
<1> QED
  BY <1>1, <1>2

(* What the user edits, while a cycle runs or not.                         *)
LEMMA EditsKeep ==
    ASSUME AttemptInv,
           \/ SetEnabled \/ \E a \in Apps : UnignoreApp(a)
           \/ \E a \in Apps, note \in {"none", "user"} : SetAppNote(a, note)
           \/ \E m \in {"on", "paused", "gaming"} : SetMode(m)
    PROVE  AttemptInv'
<1> USE DEF AttemptInv, clock, config, page, pastRuns, ghosts
<1>1. /\ UNCHANGED <<today, tried, failing, passed, lost, cleared, runs, busy, cycleTask, disk, lastRun, rows, faults>>
      /\ mode' \in {"on", "paused", "gaming"} /\ enabled' \in BOOLEAN /\ ignored' \subseteq Apps
      /\ notes' \in [Apps -> {"none", "user", "learned"}]
  BY DEF SetEnabled, UnignoreApp, SetAppNote, SetMode, AttemptShapes, UpdatesTypeOK
<1>2. edits' \in 0..MaxEdits
  BY DEF SetEnabled, UnignoreApp, SetAppNote, SetMode, Edit, AttemptShapes, UpdatesTypeOK
<1>3. UpdatesTypeOK' /\ disk' \in AppState
  BY <1>1, <1>2 DEF AttemptShapes, UpdatesTypeOK
<1> QED
  BY <1>1, <1>3, TaskKept

(* An app is put on the ignore list. *)
LEMMA IgnoreKeeps ==
    ASSUME AttemptInv, NEW a \in Apps, NEW saved \in BOOLEAN, IgnoreApp(a, saved) PROVE AttemptInv'
<1> USE DEF AttemptInv, clock, pastRuns
<1>1. PICK listing \in [Listed -> RowState] : rows' = listing /\ SaveStatus(lastRun, listing, saved)
  BY DEF IgnoreApp, AttemptShapes, UpdatesTypeOK, RowState
<1>2. disk' \in AppState
  BY <1>1, SaveTypes DEF AttemptShapes, UpdatesTypeOK
<1>3. faults' \in 0..MaxFaults /\ edits' \in 0..MaxEdits
  BY DEF IgnoreApp, Outcome, Fault, Edit, AttemptShapes, UpdatesTypeOK
<1>4. /\ ignored' = ignored \cup {a}
      /\ UNCHANGED <<clock, enabled, notes, busy, cycleTask, lastRun, pastRuns, runs, failing, passed, lost>>
  BY DEF IgnoreApp
<1>5. UpdatesTypeOK'
  BY <1>1, <1>2, <1>3, <1>4, DiskTypes DEF AttemptShapes, UpdatesTypeOK
<1> QED
  BY <1>2, <1>4, <1>5, TaskKept

(* The history is cleared: no failure counts from before it. *)
LEMMA ClearKeeps == ASSUME AttemptInv, ClearHistory PROVE AttemptInv'
<1> USE DEF AttemptInv, clock, config
<1>1. /\ ~busy /\ cleared' = runs /\ rows' = NoRows /\ edits' \in 0..MaxEdits
      /\ disk' = [disk EXCEPT !.status = [at |-> disk.run, rows |-> NoRows]]
      /\ failing' = [a \in Apps |-> [n |-> 0, day |-> 0]]
      /\ UNCHANGED <<clock, config, busy, cycleTask, lastRun, tried, runs, faults, passed, lost>>
  BY DEF ClearHistory, Edit, AttemptShapes, UpdatesTypeOK
<1>2. disk' \in AppState
  BY <1>1, NoTaskIs DEF AttemptShapes, AppState
<1>3. UpdatesTypeOK'
  BY <1>1, <1>2, DiskTypes, NoTaskIs DEF AttemptShapes, UpdatesTypeOK
<1>4. AttemptShapes'
  <2>1. failing' \in [Apps -> [n : Nat, day : Nat]]
    BY <1>1
  <2> QED
    BY <1>1, <1>2, <1>3, <2>1 DEF AttemptShapes
<1>5. /\ runs \in Nat /\ \A a \in Apps : tried[a] \subseteq TriedRun
      /\ \A a \in Apps : \A r \in tried[a] : r.run \in Nat /\ r.run <= runs
  BY DEF AttemptShapes, UpdatesTypeOK, InOrder, Runs, TriedRun
<1>6. InOrder'
  BY <1>1, <1>5 DEF InOrder
<1>7. FailuresCounted'
  <2>1. \A a \in Apps : InARow(a)' = {}
    BY <1>1, <1>5 DEF InARow, Counts
  <2>2. \A a \in Apps : failing'[a].n = 0
    BY <1>1
  <2> QED
    BY <2>1, <2>2, NothingTodo DEF FailuresCounted
<1>8. TurnsKept'
  <2>1. cycleTask.stage = "none" /\ Untold' = Untold
    BY <1>1 DEF AttemptShapes, UpdatesTypeOK, Untold
  <2>2. \A a \in Apps : Ahead(a)' = Ahead(a)
    BY <1>1 DEF Ahead, LastTried
  <2> QED
    BY <1>1, <2>1, <2>2 DEF TurnsKept
<1> QED
  BY <1>4, <1>6, <1>7, <1>8

(* A cycle takes the apps that are offered and not paused, in turn and up  *)
(* to the cap.                                                             *)
LEMMA CheckAllKeeps ==
    ASSUME AttemptInv, NEW offered \in SUBSET Apps, NEW given \in SUBSET Apps,
           NEW sound \in BOOLEAN, NEW readable \in BOOLEAN, NEW timed \in BOOLEAN,
           CheckAll(offered, given, sound, readable, timed)
    PROVE  AttemptInv'
<1> USE DEF AttemptInv, clock, config, page, pastRuns
<1> DEFINE paused == {a \in offered : readable /\ Paused(a)}
           eligible == offered \ paused
           passedBy == IF timed THEN eligible \ given ELSE {}
           listing == [a \in Apps |-> IF a \in paused THEN "failed" ELSE "off"]
<1>1. /\ cycleTask.stage = "checking" /\ Takes(given, eligible, timed)
      /\ cycleTask' = [cycleTask EXCEPT !.stage = "healing", !.todo = given, !.timed = timed,
                                        !.results = listing,
                                        !.errors = ~sound \/ ~readable \/ given # eligible]
      /\ passed' = [a \in Apps |-> IF a \in passedBy THEN passed[a] + 1 ELSE passed[a]]
      /\ lost' = IF timed THEN lost + Cardinality(given) ELSE lost
      /\ UNCHANGED <<clock, config, busy, page, disk, pastRuns, runs, edits, failing>>
  BY DEF CheckAll
<1>2. /\ eligible \subseteq Apps /\ listing \in [Apps -> RowState]
      /\ \A a \in passedBy : timed /\ a \in eligible \ given
  BY DEF RowState
<1> HIDE DEF eligible, passedBy, listing
<1>3. faults' \in 0..MaxFaults
  BY DEF CheckAll, Outcome, Fault, AttemptShapes, UpdatesTypeOK
<1>4. cycleTask' \in Task /\ cycleTask'.stage = "healing" /\ cycleTask'.todo = given /\ cycleTask'.run = cycleTask.run
      /\ cycleTask'.timed = timed /\ cycleTask \in Task
  BY <1>1, <1>2 DEF AttemptShapes, UpdatesTypeOK, Task
<1>5. busy /\ runs \in Nat /\ cleared \in Nat /\ cleared < runs /\ cycleTask.run = runs /\ cycleTask.todo = {}
  BY <1>1 DEF AttemptShapes, UpdatesTypeOK, InOrder, Runs
<1>6. IsFiniteSet(given) /\ Cardinality(given) \in Nat /\ lost \in Nat
  BY FS_Subset, FS_CardinalityType DEF AttemptShapes
<1>7. UpdatesTypeOK'
  BY <1>1, <1>3, <1>4, <1>5 DEF AttemptShapes, UpdatesTypeOK
<1>8. passed \in [Apps -> Nat] /\ passed' \in [Apps -> Nat]
  BY <1>1 DEF AttemptShapes
<1>9. AttemptShapes'
  BY <1>1, <1>6, <1>7, <1>8 DEF AttemptShapes
<1>10. InOrder'
  BY <1>1, <1>4, <1>5 DEF InOrder
<1>11. \A a \in Apps : InARow(a)' = InARow(a) /\ Ahead(a)' = Ahead(a) /\ LastTried(a)' = LastTried(a)
  BY <1>1 DEF InARow, Counts, Ahead, LastTried
<1>12. FailuresCounted'
  BY <1>1, <1>11 DEF FailuresCounted
<1>13. Untold' = lost /\ Pending(cycleTask') <= lost' /\ Untold = lost
  <2>1. Pending(cycleTask') = IF timed THEN Cardinality(given) ELSE 0
    BY <1>4 DEF Pending
  <2>2. Pending(cycleTask) = 0
    BY <1>4, <1>5, PendingIs
  <2> QED
    BY <1>1, <1>6, <2>1, <2>2 DEF Untold
<1>14. ASSUME NEW a \in Apps
       PROVE  \/ passed'[a] <= Cardinality(Ahead(a)') + Untold'
              \/ /\ cycleTask'.stage = "healing" /\ cycleTask'.timed /\ a \notin cycleTask'.todo
                 /\ LastTried(a)' < cycleTask'.run
                 /\ \A b \in cycleTask'.todo : LastTried(b)' <= LastTried(a)'
                 /\ passed'[a] <= Cardinality(Ahead(a)') + lost'
  <2>1. passed[a] <= Cardinality(Ahead(a)) + lost /\ Cardinality(Ahead(a)) \in Nat
    BY <1>1, <1>13, AheadOf DEF TurnsKept
  <2>2. CASE a \notin passedBy
    BY <1>1, <1>11, <1>13, <2>1, <2>2
  <2>3. CASE a \in passedBy
    <3>0. timed /\ a \in eligible \ given
      BY <1>2, <2>3
    <3>1. lost' >= lost + 1
      <4>1. Cardinality(given) = Cap /\ Cap \in Nat \ {0}
        BY <1>1, <3>0 DEF Takes
      <4> QED
        BY <1>1, <1>6, <3>0, <4>1
    <3>2. LastTried(a) < cycleTask.run
      <4>1. \A r \in tried[a] : r.run < cycleTask.run
        BY <1>1 DEF InOrder
      <4>2. tried \in [Apps -> SUBSET TriedRun]
        BY DEF AttemptShapes, UpdatesTypeOK
      <4>3. LastTried(a) = 0 \/ \E r \in tried[a] : r.run = LastTried(a)
        BY <4>2, LastOf
      <4> QED
        BY <1>5, <4>1, <4>3
    <3>3. \A b \in given : LastTried(b) <= LastTried(a)
      BY <1>1, <3>0 DEF Takes
    <3>4. passed'[a] <= Cardinality(Ahead(a)) + lost'
      <4>1. passed'[a] = passed[a] + 1 /\ passed[a] \in Nat /\ lost' \in Nat
        BY <1>1, <1>6, <1>8, <2>3
      <4> QED
        BY <1>6, <2>1, <3>1, <4>1
    <3>5. \A b \in given : LastTried(b)' <= LastTried(a)'
      BY <1>11, <3>3
    <3> QED
      BY <1>4, <1>11, <3>0, <3>2, <3>4, <3>5
  <2> QED
    BY <2>2, <2>3
<1>15. TurnsKept'
  BY <1>13, <1>14 DEF TurnsKept
<1> QED
  BY <1>9, <1>10, <1>12, <1>15

(* The next app of the cycle is healed, and its result recorded unless the *)
(* save fails.                                                             *)
LEMMA HealOneKeeps ==
    ASSUME AttemptInv, NEW a \in Apps, NEW result \in RowState, NEW saved \in BOOLEAN,
           HealOne(a, result, saved)
    PROVE  AttemptInv'
<1> USE DEF AttemptInv, clock, config, page
<1>1. /\ cycleTask.stage = "healing" /\ a \in cycleTask.todo
      /\ cycleTask.timed => \A b \in cycleTask.todo : LastTried(a) <= LastTried(b)
      /\ RecordCycleAttempt(a, result, saved)
      /\ cycleTask' = [cycleTask EXCEPT !.todo = @ \ {a}, !.results[a] = result, !.errors = @ \/ ~saved]
      /\ lost' = IF saved /\ cycleTask.timed THEN lost - 1 ELSE lost
      /\ UNCHANGED <<clock, config, busy, page, disk, cleared, runs, edits>>
  BY DEF HealOne
<1>2. /\ cycleTask' \in Task /\ cycleTask'.stage = "healing" /\ cycleTask'.todo = cycleTask.todo \ {a}
      /\ cycleTask'.run = cycleTask.run /\ cycleTask.todo \subseteq Apps
      /\ cycleTask'.timed = cycleTask.timed /\ cycleTask \in Task /\ cycleTask.timed \in BOOLEAN
  <2>1. cycleTask \in Task
    BY DEF AttemptShapes, UpdatesTypeOK
  <2>2. [cycleTask.results EXCEPT ![a] = result] \in [Apps -> RowState]
    BY <2>1 DEF Task
  <2> QED
    BY <1>1, <2>1, <2>2 DEF Task
<1>3. faults' \in 0..MaxFaults
  BY DEF HealOne, Outcome, Fault, AttemptShapes, UpdatesTypeOK
<1>4. busy /\ runs \in Nat /\ lost \in Nat /\ passed \in [Apps -> Nat] /\ tried \in [Apps -> SUBSET TriedRun]
  BY <1>1 DEF AttemptShapes, UpdatesTypeOK, Runs
<1>5. \A b \in cycleTask.todo : \A r \in tried[b] : r.run < cycleTask.run
  BY <1>2 DEF InOrder
<1>6. UNCHANGED <<today, cleared, runs>>
  BY <1>1
<1>7. /\ tried' \in [Apps -> SUBSET TriedRun] /\ \A b \in Apps : IsFiniteSet(tried'[b])
      /\ passed' \in [Apps -> Nat] /\ failing' \in [Apps -> [n : Nat, day : Nat]]
      /\ \A b \in Apps : /\ \A r \in tried'[b] : r.run <= runs /\ r.day \in 1..today
                         /\ \A r, q \in tried'[b] : r.run <= q.run => r.day <= q.day
      /\ FailuresCounted'
      /\ \A b \in Apps : b # a \/ ~saved => tried'[b] = tried[b] /\ passed'[b] = passed[b]
      /\ saved => LastTried(a)' = cycleTask.run /\ passed'[a] = 0
  BY <1>1, <1>4, <1>5, <1>6, RecordKeeps
<1>8. /\ IsFiniteSet(cycleTask.todo) /\ Cardinality(cycleTask.todo) \in Nat
      /\ Cardinality(cycleTask'.todo) = Cardinality(cycleTask.todo) - 1
      /\ Cardinality(cycleTask'.todo) \in Nat
      /\ cycleTask.timed => Cardinality(cycleTask.todo) <= lost
  <2>1. IsFiniteSet(cycleTask.todo) /\ IsFiniteSet(cycleTask.todo \ {a})
    BY <1>2, FS_Subset
  <2>2. Cardinality(cycleTask.todo \ {a}) = Cardinality(cycleTask.todo) - 1
    BY <1>1, <2>1, FS_RemoveElement
  <2> QED
    BY <1>2, <2>1, <2>2, FS_CardinalityType, PendingIs DEF TurnsKept
<1>9. /\ lost' \in Nat /\ Untold \in Nat /\ Untold' \in Nat /\ Pending(cycleTask') <= lost'
      /\ Untold' = IF saved \/ ~cycleTask.timed THEN Untold ELSE Untold + 1
  <2>1. cycleTask.timed => /\ Pending(cycleTask) = Cardinality(cycleTask.todo)
                           /\ Pending(cycleTask') = Cardinality(cycleTask'.todo)
    BY <1>2 DEF Pending
  <2>2. ~cycleTask.timed => Pending(cycleTask) = 0 /\ Pending(cycleTask') = 0
    BY <1>2 DEF Pending
  <2> QED
    BY <1>1, <1>2, <1>4, <1>8, <2>1, <2>2 DEF Untold
<1>10. UpdatesTypeOK'
  BY <1>1, <1>2, <1>3, <1>4, <1>7 DEF AttemptShapes, UpdatesTypeOK
<1>11. AttemptShapes'
  BY <1>1, <1>7, <1>9, <1>10 DEF AttemptShapes
<1>12. InOrder'
  <2>1. \A b \in cycleTask'.todo : \A r \in tried'[b] : r.run < cycleTask'.run
    BY <1>2, <1>5, <1>7
  <2> QED
    BY <1>1, <1>2, <1>7, <2>1 DEF InOrder
<1>13. /\ \A b \in Apps : LastTried(b) \in Nat /\ LastTried(b)' \in Nat
       /\ \A b \in Apps \ {a} : LastTried(b)' = LastTried(b)
       /\ ~saved => LastTried(a)' = LastTried(a)
       /\ LastTried(a) <= LastTried(a)'
  <2>1. \A b \in Apps : LastTried(b) \in Nat /\ LastTried(b)' \in Nat
    BY <1>4, <1>7, LatestRun DEF LastTried
  <2>2. \A b \in Apps : b # a \/ ~saved => LastTried(b)' = LastTried(b)
    BY <1>7 DEF LastTried
  <2>3. LastTried(a) <= cycleTask.run
    <3>1. LastTried(a) = 0 \/ \E r \in tried[a] : r.run = LastTried(a)
      BY <1>4, LastOf
    <3>2. cycleTask.run \in Nat
      BY <1>4 DEF InOrder
    <3> QED
      BY <1>1, <1>5, <2>1, <3>1, <3>2
  <2> QED
    BY <1>7, <2>1, <2>2, <2>3
<1>14. \A b \in Apps \ {a} :
         /\ Cardinality(Ahead(b)) <= Cardinality(Ahead(b)')
         /\ LastTried(a) <= LastTried(b) /\ LastTried(b) < LastTried(a)' =>
                Cardinality(Ahead(b)') = Cardinality(Ahead(b)) + 1
  BY <1>4, <1>7, <1>13, AheadGrows
<1>15. \A b \in Apps : Cardinality(Ahead(b)) \in Nat /\ Cardinality(Ahead(b)') \in Nat
  <2>1. ASSUME NEW b \in Apps PROVE IsFiniteSet(Ahead(b)')
    BY FS_Subset DEF Ahead
  <2> QED
    BY <2>1, AheadOf, FS_CardinalityType
<1>16. ASSUME NEW b \in Apps
       PROVE  \/ passed'[b] <= Cardinality(Ahead(b)') + Untold'
              \/ /\ cycleTask'.stage = "healing" /\ cycleTask'.timed /\ b \notin cycleTask'.todo
                 /\ LastTried(b)' < cycleTask'.run
                 /\ \A c \in cycleTask'.todo : LastTried(c)' <= LastTried(b)'
                 /\ passed'[b] <= Cardinality(Ahead(b)') + lost'
  <2>1. CASE b = a
    <3>1. CASE saved
      BY <1>7, <1>9, <1>15, <2>1, <3>1
    <3>2. CASE ~saved
      <4>1. passed[a] <= Cardinality(Ahead(a)) + Untold
        BY <1>1 DEF TurnsKept
      <4>2. Ahead(a)' = Ahead(a)
        BY <1>13, <3>2 DEF Ahead
      <4> QED
        BY <1>4, <1>7, <1>9, <1>15, <2>1, <3>2, <4>1, <4>2
    <3> QED
      BY <3>1, <3>2
  <2>2. CASE b # a
    <3>1. passed'[b] = passed[b] /\ passed[b] \in Nat /\ LastTried(b)' = LastTried(b)
      BY <1>4, <1>7, <1>13, <2>2
    <3>2. Cardinality(Ahead(b)) <= Cardinality(Ahead(b)')
      BY <1>14, <2>2
    <3>3. CASE passed[b] <= Cardinality(Ahead(b)) + Untold
      BY <1>9, <1>15, <3>1, <3>2, <3>3
    <3>4. CASE /\ cycleTask.timed /\ b \notin cycleTask.todo /\ LastTried(b) < cycleTask.run
               /\ \A c \in cycleTask.todo : LastTried(c) <= LastTried(b)
               /\ passed[b] <= Cardinality(Ahead(b)) + lost
      <4>1. \A c \in cycleTask'.todo : c \in cycleTask.todo /\ c \in Apps \ {a}
        BY <1>2
      <4>2. \A c \in cycleTask'.todo : LastTried(c)' <= LastTried(b)'
        BY <1>13, <3>1, <3>4, <4>1
      <4>3. passed[b] <= Cardinality(Ahead(b)') + lost'
        <5>1. CASE saved
          <6>1. LastTried(a) <= LastTried(b) /\ LastTried(b) < LastTried(a)'
            BY <1>1, <1>7, <3>4, <5>1
          <6>2. Cardinality(Ahead(b)') = Cardinality(Ahead(b)) + 1 /\ lost' = lost - 1
            BY <1>1, <1>14, <2>2, <3>4, <5>1, <6>1
          <6> QED
            BY <1>4, <1>15, <3>4, <6>2
        <5>2. CASE ~saved
          <6>1. lost' = lost
            BY <1>1, <5>2
          <6> QED
            BY <1>4, <1>15, <3>1, <3>2, <3>4, <6>1
        <5> QED
          BY <5>1, <5>2
      <4>4. b \notin cycleTask'.todo /\ LastTried(b)' < cycleTask'.run
        BY <1>2, <3>1, <3>4
      <4> QED
        BY <1>2, <3>1, <3>4, <4>2, <4>3, <4>4
    <3> QED
      BY <3>3, <3>4 DEF TurnsKept
  <2> QED
    BY <2>1, <2>2
<1>17. TurnsKept'
  BY <1>9, <1>16 DEF TurnsKept
<1> QED
  BY <1>7, <1>11, <1>12, <1>17

(* An app is retried by the user, out of turn. *)
LEMMA RetryOneKeeps ==
    ASSUME AttemptInv, NEW offered \in BOOLEAN, NEW sound \in BOOLEAN, NEW saved \in BOOLEAN,
           NEW result \in RowState, RetryOne(offered, sound, result, saved)
    PROVE  AttemptInv'
<1> USE DEF AttemptInv, clock, config, page
<1>0. PICK a \in Listed : a = cycleTask.target
  BY DEF AttemptShapes, UpdatesTypeOK, Task
<1>1. /\ cycleTask.stage = "checking" /\ ~Full /\ RecordCycleAttempt(a, result, saved)
      /\ cycleTask' = [cycleTask EXCEPT !.stage = "summary", !.results[a] = result,
                                        !.learned = cycleTask.guided /\ result = "updated"]
      /\ UNCHANGED <<clock, config, busy, page, disk, cleared, runs, edits, lost>>
  BY <1>0 DEF RetryOne
<1>2. a \in Apps /\ cycleTask \in Task /\ cycleTask.todo = {}
  BY <1>0, <1>1 DEF Full, NoTarget, AttemptShapes, UpdatesTypeOK, InOrder, Task, Listed
<1>3. /\ cycleTask' \in Task /\ cycleTask'.stage = "summary" /\ cycleTask'.todo = {}
      /\ cycleTask'.run = cycleTask.run
  <2>1. [cycleTask.results EXCEPT ![a] = result] \in [Apps -> RowState]
    BY <1>2 DEF Task
  <2>2. (cycleTask.guided /\ result = "updated") \in BOOLEAN
    OBVIOUS
  <2> QED
    BY <1>1, <1>2, <2>1, <2>2 DEF Task
<1>4. faults' \in 0..MaxFaults
  BY DEF RetryOne, Outcome, Fault, AttemptShapes, UpdatesTypeOK
<1>5. busy /\ runs \in Nat /\ lost \in Nat /\ passed \in [Apps -> Nat] /\ tried \in [Apps -> SUBSET TriedRun]
  BY <1>1 DEF AttemptShapes, UpdatesTypeOK, Runs
<1>6. (\A r \in tried[a] : r.run < cycleTask.run) /\ UNCHANGED <<today, cleared, runs>>
  BY <1>1, <1>2 DEF InOrder
<1>7. /\ tried' \in [Apps -> SUBSET TriedRun] /\ \A b \in Apps : IsFiniteSet(tried'[b])
      /\ passed' \in [Apps -> Nat] /\ failing' \in [Apps -> [n : Nat, day : Nat]]
      /\ \A b \in Apps : /\ \A r \in tried'[b] : r.run <= runs /\ r.day \in 1..today
                         /\ \A r, q \in tried'[b] : r.run <= q.run => r.day <= q.day
      /\ FailuresCounted'
      /\ \A b \in Apps : b # a \/ ~saved => tried'[b] = tried[b] /\ passed'[b] = passed[b]
      /\ saved => LastTried(a)' = cycleTask.run /\ passed'[a] = 0
  BY <1>1, <1>2, <1>5, <1>6, RecordKeeps
<1>8. UpdatesTypeOK'
  BY <1>1, <1>3, <1>4, <1>5, <1>7 DEF AttemptShapes, UpdatesTypeOK
<1>9. AttemptShapes'
  BY <1>1, <1>7, <1>8 DEF AttemptShapes
<1>10. InOrder'
  BY <1>1, <1>3, <1>7 DEF InOrder
<1>11. /\ \A b \in Apps : LastTried(b) \in Nat /\ LastTried(b)' \in Nat
       /\ \A b \in Apps \ {a} : LastTried(b)' = LastTried(b)
       /\ ~saved => LastTried(a)' = LastTried(a)
       /\ LastTried(a) <= LastTried(a)'
  <2>1. \A b \in Apps : LastTried(b) \in Nat /\ LastTried(b)' \in Nat
    BY <1>5, <1>7, LatestRun DEF LastTried
  <2>2. \A b \in Apps : b # a \/ ~saved => LastTried(b)' = LastTried(b)
    BY <1>7 DEF LastTried
  <2>3. LastTried(a) <= cycleTask.run
    <3>1. LastTried(a) = 0 \/ \E r \in tried[a] : r.run = LastTried(a)
      BY <1>2, <1>5, LastOf
    <3>2. cycleTask.run \in Nat
      BY <1>5 DEF InOrder
    <3> QED
      BY <1>2, <1>6, <2>1, <3>1, <3>2
  <2> QED
    BY <1>2, <1>7, <2>1, <2>2, <2>3
<1>12. \A b \in Apps : Cardinality(Ahead(b)) \in Nat /\ Cardinality(Ahead(b)') \in Nat
  <2>1. ASSUME NEW b \in Apps PROVE IsFiniteSet(Ahead(b)')
    BY FS_Subset DEF Ahead
  <2> QED
    BY <2>1, AheadOf, FS_CardinalityType
<1>13. ASSUME NEW b \in Apps PROVE passed'[b] <= Cardinality(Ahead(b)') + lost
  <2>1. passed[b] <= Cardinality(Ahead(b)) + lost /\ passed[b] \in Nat
    BY <1>1, <1>2, <1>5, PendingIs DEF TurnsKept, Untold
  <2>2. CASE b = a /\ saved
    BY <1>5, <1>7, <1>12, <2>2
  <2>3. CASE b = a /\ ~saved
    <3>1. Ahead(a)' = Ahead(a)
      BY <1>11, <2>3 DEF Ahead
    <3> QED
      BY <1>7, <2>1, <2>3, <3>1
  <2>4. CASE b # a
    <3>1. Cardinality(Ahead(b)) <= Cardinality(Ahead(b)') /\ passed'[b] = passed[b]
      BY <1>2, <1>5, <1>7, <1>11, <2>4, AheadGrows
    <3> QED
      BY <1>5, <1>12, <2>1, <3>1
  <2> QED
    BY <2>2, <2>3, <2>4
<1>14. TurnsKept'
  <2>1. Untold' = lost /\ Pending(cycleTask') <= lost'
    <3>1. Pending(cycleTask') = 0 /\ lost' = lost
      BY <1>1, <1>3, PendingIs
    <3> QED
      BY <1>5, <3>1 DEF Untold
  <2> QED
    BY <1>13, <2>1 DEF TurnsKept
<1> QED
  BY <1>7, <1>9, <1>10, <1>14

(* Every step keeps the invariant. *)
LEMMA NextAttempt == AttemptInv /\ [UpdatesNext]_updVars => AttemptInv'
<1> SUFFICES ASSUME AttemptInv, [UpdatesNext]_updVars PROVE AttemptInv'
  OBVIOUS
<1>1. CASE Scheduled \/ RunUpdatesNow \/ \E a \in Apps : RetryAppUpdate(a)
  <2>1. PICK t \in Listed : Spawn(t) /\ ~busy /\ UNCHANGED <<clock, config, page, disk, pastRuns, edits, faults, ghosts>>
    BY <1>1 DEF Scheduled, Due, RunUpdatesNow, RetryAppUpdate, Listed, NoTarget
  <2> QED
    BY <2>1, SpawnKeeps
<1>2. CASE Work
  BY <1>2, CheckAllKeeps, HealOneKeeps, FinishKeeps, RetryOneKeeps DEF Work
<1>3. CASE Watchdog
  BY <1>3, WatchdogKeeps
<1>4. CASE Folds
  BY <1>4, FoldingKeeps DEF Folds
<1>5. CASE Requests
  BY <1>1, <1>5, ClearKeeps, EditsKeep, IgnoreKeeps DEF Requests
<1>6. CASE NextDay \/ ServiceRestarts
  BY <1>6, NextDayKeeps
<1>7. CASE \E m \in {"on", "paused", "gaming"} : SetMode(m)
  BY <1>7, EditsKeep
<1>8. CASE UNCHANGED updVars
  <2>1. UpdatesTypeOK' /\ disk' \in AppState
    BY <1>8 DEF updVars, clock, config, page, pastRuns, bounds, ghosts, AttemptInv, AttemptShapes, UpdatesTypeOK
  <2>2. UNCHANGED <<today, tried, failing, passed, lost, cleared, runs, busy, cycleTask>>
    BY <1>8 DEF updVars, clock, pastRuns, bounds, ghosts
  <2> QED
    BY <2>1, <2>2, TaskKept
<1> QED
  BY <1>1, <1>2, <1>3, <1>4, <1>5, <1>6, <1>7, <1>8 DEF UpdatesNext

(* The updater keeps its turns and its failures, for any apps, cap and     *)
(* window.                                                                 *)
THEOREM AttemptsInvariance == UpdatesSpec => []AttemptInv
<1> QED
  BY AttemptInit, NextAttempt, PTL DEF UpdatesSpec

(* No app is passed over until it starves, and an app is paused just when  *)
(* its last runs in a row failed, for as long as their number earns        *)
(* (rotation_order, pause_reason).                                         *)
THEOREM AttemptsAreSound == UpdatesSpec => []AttemptsSound
<1>1. AttemptInv => AttemptsSound
  BY PausedIs, RotationIs DEF AttemptsSound, AttemptInv, AttemptShapes
<1> QED
  BY <1>1, AttemptsInvariance, PTL

-----------------------------------------------------------------------------
(* Learning: the table of facts *)

HIDE UpdatesAssumption
USE LearningAssumption

(* What the detectors may write: one candidate of a kind and subject.      *)
Candidates(cs) ==
    /\ \A c \in cs : Sourced(c)
    /\ \A c, d \in cs : Same(c, d) => c = d

(* The table, with what the user won and the facts the AI was asked about. *)
TableFits(fs, next, won, asked) ==
    /\ next \in Nat
    /\ \A f \in fs : FactFits(f) /\ f.id < next
    /\ \A f, g \in fs : (Same(f, g) \/ f.id = g.id) => f = g
    /\ \A c \in won : c.id \in Nat /\ c.id < next /\ c.status \in ByUser
    /\ \A c \in won : \A f \in fs : f.id = c.id => f.status = c.status
    /\ \A i \in asked : i \in Nat /\ i < next
    /\ \A i \in asked : \A f \in fs : f.id = i => f.tried

(* A fact goes on, without losing what the user made of it.                *)
Grows(f, g) ==
    /\ g.id = f.id /\ g.kind = f.kind /\ g.subject = f.subject
    /\ f.status \in ByUser => g.status = f.status
    /\ f.tried => g.tried

(* A table in which facts go on, go, or come with ids of their own.        *)
LEMMA TableGrows ==
    ASSUME NEW fs, NEW next, NEW won, NEW asked, TableFits(fs, next, won, asked),
           NEW gs, NEW last \in Nat, last >= next,
           \A g \in gs : FactFits(g) /\ g.id < last,
           \A g \in gs : \/ \E f \in fs : Grows(f, g)
                         \/ g.id >= next /\ \A f \in fs : ~Same(f, g),
           \A g, h \in gs : g.id = h.id => g = h,
           \A g, h \in gs : g.id >= next /\ h.id >= next /\ Same(g, h) => g = h
    PROVE  TableFits(gs, last, won, asked)
<1>1. next \in Nat /\ \A f \in fs : FactFits(f) /\ f.id < next
  BY DEF TableFits
<1>2. \A g \in gs : g.id \in Nat
  BY DEF FactFits
<1>3. ASSUME NEW g \in gs, NEW h \in gs, Same(g, h) PROVE g = h
  <2>1. CASE \E f \in fs : Grows(f, g)
    <3>1. PICK f \in fs : Grows(f, g)
      BY <2>1
    <3>2. CASE \E e \in fs : Grows(e, h)
      <4>1. PICK e \in fs : Grows(e, h)
        BY <3>2
      <4>2. f = e
        <5>1. Same(f, e)
          BY <1>3, <3>1, <4>1 DEF Grows, Same
        <5> QED
          BY <5>1 DEF TableFits
      <4>3. g.id = h.id
        BY <3>1, <4>1, <4>2 DEF Grows
      <4> QED
        BY <4>3
    <3>3. CASE \A e \in fs : ~Same(e, h)
      BY <1>3, <3>1, <3>3 DEF Grows, Same
    <3> QED
      BY <3>2, <3>3
  <2>2. CASE g.id >= next /\ \A f \in fs : ~Same(f, g)
    <3>1. CASE \E e \in fs : Grows(e, h)
      BY <1>3, <2>2, <3>1 DEF Grows, Same
    <3>2. CASE h.id >= next
      BY <1>3, <2>2, <3>2
    <3> QED
      BY <3>1, <3>2
  <2> QED
    BY <2>1, <2>2
<1>4. \A c \in won : c.id \in Nat /\ c.id < next /\ c.status \in ByUser
  BY DEF TableFits
<1>5. ASSUME NEW c \in won, NEW g \in gs, g.id = c.id PROVE g.status = c.status
  <2>1. ~(g.id >= next)
    BY <1>1, <1>4, <1>5
  <2>2. PICK f \in fs : Grows(f, g)
    BY <2>1
  <2>3. f.status = c.status
    BY <1>5, <2>2 DEF Grows, TableFits
  <2> QED
    BY <1>4, <2>2, <2>3 DEF Grows
<1>6. \A i \in asked : i \in Nat /\ i < next
  BY DEF TableFits
<1>7. ASSUME NEW i \in asked, NEW g \in gs, g.id = i PROVE g.tried
  <2>1. ~(g.id >= next)
    BY <1>1, <1>6, <1>7
  <2>2. PICK f \in fs : Grows(f, g)
    BY <2>1
  <2>3. f.tried
    BY <1>7, <2>2 DEF Grows, TableFits
  <2> QED
    BY <2>2, <2>3 DEF Grows
<1>8. \A c \in won : c.id < last
  BY <1>1, <1>4
<1>9. \A i \in asked : i < last
  BY <1>1, <1>6
<1> QED
  BY <1>3, <1>4, <1>5, <1>6, <1>7, <1>8, <1>9 DEF TableFits

LEMMA WithStatus ==
    ASSUME NEW f, FactFits(f), NEW status \in InForce0 \cup ByUser \cup {"expired"},
           NEW g, g = [f EXCEPT !.status = status]
    PROVE  /\ FactFits(g) /\ g.status = status /\ g.tried = f.tried
           /\ g.id = f.id /\ g.kind = f.kind /\ g.subject = f.subject
<1>1. g = [id |-> f.id, kind |-> f.kind, subject |-> f.subject, amount |-> f.amount,
           status |-> status, tried |-> f.tried, text |-> f.text, basis |-> f.basis]
  BY DEF FactFits
<1>2. /\ g.id = f.id /\ g.kind = f.kind /\ g.subject = f.subject /\ g.amount = f.amount
      /\ g.status = status /\ g.tried = f.tried /\ g.text = f.text /\ g.basis = f.basis
  BY <1>1
<1>3. Sourced(g)
  BY <1>2 DEF FactFits, Sourced
<1>4. g = [id |-> g.id, kind |-> g.kind, subject |-> g.subject, amount |-> g.amount,
           status |-> g.status, tried |-> g.tried, text |-> g.text, basis |-> g.basis]
  BY <1>1, <1>2
<1> QED
  BY <1>2, <1>3, <1>4 DEF FactFits

LEMMA WithMark ==
    ASSUME NEW f, FactFits(f), NEW g,
           g = [f EXCEPT !.tried = TRUE] \/ g = [f EXCEPT !.tried = TRUE, !.text = TRUE]
    PROVE  /\ FactFits(g) /\ g.status = f.status /\ g.tried
           /\ g.id = f.id /\ g.kind = f.kind /\ g.subject = f.subject
<1>1. PICK text : g = [id |-> f.id, kind |-> f.kind, subject |-> f.subject, amount |-> f.amount,
                       status |-> f.status, tried |-> TRUE, text |-> text, basis |-> f.basis]
  <2>1. CASE g = [f EXCEPT !.tried = TRUE]
    <3>1. g = [id |-> f.id, kind |-> f.kind, subject |-> f.subject, amount |-> f.amount,
               status |-> f.status, tried |-> TRUE, text |-> f.text, basis |-> f.basis]
      BY <2>1 DEF FactFits
    <3> QED
      BY <3>1
  <2>2. CASE g = [f EXCEPT !.tried = TRUE, !.text = TRUE]
    <3>1. g = [id |-> f.id, kind |-> f.kind, subject |-> f.subject, amount |-> f.amount,
               status |-> f.status, tried |-> TRUE, text |-> TRUE, basis |-> f.basis]
      BY <2>2 DEF FactFits
    <3> QED
      BY <3>1
  <2> QED
    BY <2>1, <2>2
<1>2. /\ g.id = f.id /\ g.kind = f.kind /\ g.subject = f.subject /\ g.amount = f.amount
      /\ g.status = f.status /\ g.tried = TRUE /\ g.text = text /\ g.basis = f.basis
  BY <1>1
<1>3. Sourced(g)
  BY <1>2 DEF FactFits, Sourced
<1>4. g = [id |-> g.id, kind |-> g.kind, subject |-> g.subject, amount |-> g.amount,
           status |-> g.status, tried |-> g.tried, text |-> g.text, basis |-> g.basis]
  BY <1>1, <1>2
<1> QED
  BY <1>2, <1>3, <1>4 DEF FactFits

LEMMA WithBasis ==
    ASSUME NEW f, FactFits(f), NEW c, Sourced(c), Same(f, c), NEW g, g = Reinforced(f, c)
    PROVE  FactFits(g) /\ Grows(f, g)
<1>1. PICK status : status = IF f.status \in ByUser THEN f.status ELSE "active"
  OBVIOUS
<1>2. g = [id |-> f.id, kind |-> f.kind, subject |-> f.subject, amount |-> PenaltyCap,
           status |-> status, tried |-> f.tried, text |-> f.text, basis |-> c.basis]
  BY <1>1 DEF FactFits, Reinforced
<1>3. /\ g.id = f.id /\ g.kind = f.kind /\ g.subject = f.subject /\ g.amount = PenaltyCap
      /\ g.status = status /\ g.tried = f.tried /\ g.text = f.text /\ g.basis = c.basis
  BY <1>2
<1>4. Sourced(g)
  BY <1>3 DEF Same, Sourced
<1>5. g = [id |-> g.id, kind |-> g.kind, subject |-> g.subject, amount |-> g.amount,
           status |-> g.status, tried |-> g.tried, text |-> g.text, basis |-> g.basis]
  BY <1>2, <1>3
<1>6. status \in InForce0 \cup ByUser \cup {"expired"} /\ PenaltyCap \in Int
  BY <1>1 DEF InForce0
<1> QED
  BY <1>1, <1>3, <1>4, <1>5, <1>6 DEF FactFits, Grows

LEMMA AddedFits ==
    ASSUME NEW c, Sourced(c), NEW id \in Nat, NEW g, g = Added(c, id)
    PROVE  FactFits(g) /\ g.id = id /\ Same(c, g) /\ Same(g, c)
<1>1. g = [id |-> id, kind |-> c.kind, subject |-> c.subject, amount |-> PenaltyCap,
           status |-> "active", tried |-> FALSE, text |-> FALSE, basis |-> c.basis]
  BY DEF Added
<1>2. /\ g.id = id /\ g.kind = c.kind /\ g.subject = c.subject /\ g.amount = PenaltyCap
      /\ g.status = "active" /\ g.tried = FALSE /\ g.text = FALSE /\ g.basis = c.basis
  BY <1>1
<1>3. Sourced(g)
  BY <1>2 DEF Sourced
<1>4. PenaltyCap \in Int /\ "active" \in InForce0
  BY DEF InForce0
<1> QED
  BY <1>1, <1>2, <1>3, <1>4 DEF FactFits, Same

(* What the writes of a detector leave.                                    *)
LEMMA UpsertsKeep ==
    ASSUME NEW fs, NEW next, NEW won, NEW asked, TableFits(fs, next, won, asked),
           NEW cs, Candidates(cs), IsFiniteSet(cs),
           NEW u \in Upserts([facts |-> fs, next |-> next], cs)
    PROVE  TableFits(u.facts, u.next, won, asked) /\ u = [facts |-> u.facts, next |-> u.next]
           /\ u.next \in Nat /\ u.next >= next
<1>1. PICK new, last, old :
        /\ new = {c \in cs : \A f \in fs : ~Same(f, c)}
        /\ last = next + Cardinality(new)
        /\ old = {IF \E c \in cs : Same(f, c) THEN Reinforced(f, CHOOSE c \in cs : Same(f, c)) ELSE f : f \in fs}
  OBVIOUS
<1>2. PICK id \in [new -> next .. last - 1] :
        /\ \A c, d \in new : id[c] = id[d] => c = d
        /\ u = [facts |-> old \cup {Added(c, id[c]) : c \in new}, next |-> last]
  BY <1>1 DEF Upserts
<1>3. u.facts = old \cup {Added(c, id[c]) : c \in new} /\ u.next = last /\ u = [facts |-> u.facts, next |-> u.next]
  BY <1>2
<1>4. next \in Nat /\ (\A f \in fs : FactFits(f) /\ f.id < next)
      /\ \A f, g \in fs : (Same(f, g) \/ f.id = g.id) => f = g
  BY DEF TableFits
<1>5. last \in Nat /\ last >= next
  <2>1. new \subseteq cs
    BY <1>1
  <2>2. Cardinality(new) \in Nat
    BY <2>1, FS_Subset, FS_CardinalityType
  <2> QED
    BY <1>1, <1>4, <2>2
<1>6. ASSUME NEW g \in old PROVE \E f \in fs : FactFits(g) /\ Grows(f, g) /\ g.id < next
                                  /\ g = IF \E c \in cs : Same(f, c) THEN Reinforced(f, CHOOSE c \in cs : Same(f, c)) ELSE f
  <2>1. PICK f \in fs : g = IF \E c \in cs : Same(f, c) THEN Reinforced(f, CHOOSE c \in cs : Same(f, c)) ELSE f
    BY <1>1, <1>6
  <2>2. FactFits(f) /\ f.id < next
    BY <1>4
  <2>3. CASE \E c \in cs : Same(f, c)
    <3>1. PICK c : c = CHOOSE d \in cs : Same(f, d)
      OBVIOUS
    <3>2. c \in cs /\ Same(f, c)
      BY <2>3, <3>1
    <3>3. g = Reinforced(f, c) /\ Sourced(c)
      BY <2>1, <2>3, <3>1, <3>2 DEF Candidates
    <3>4. FactFits(g) /\ Grows(f, g)
      BY <2>2, <3>2, <3>3, WithBasis
    <3>5. g.id < next
      BY <2>2, <3>4 DEF Grows
    <3> QED
      BY <2>1, <3>4, <3>5
  <2>4. CASE ~\E c \in cs : Same(f, c)
    <3>1. g = f
      BY <2>1, <2>4
    <3> QED
      BY <2>1, <2>2, <3>1, ZenonT(30) DEF Grows
  <2> QED
    BY <2>3, <2>4
<1>7. ASSUME NEW c \in new
      PROVE  /\ c \in cs /\ (\A f \in fs : ~Same(f, c)) /\ id[c] \in Nat /\ id[c] >= next /\ id[c] < last
             /\ FactFits(Added(c, id[c])) /\ Added(c, id[c]).id = id[c]
             /\ Same(c, Added(c, id[c])) /\ Same(Added(c, id[c]), c)
  <2>1. c \in cs /\ (\A f \in fs : ~Same(f, c)) /\ Sourced(c)
    BY <1>1, <1>7 DEF Candidates
  <2>2. id[c] \in next .. last - 1
    BY <1>2, <1>7
  <2>3. id[c] \in Nat /\ id[c] >= next /\ id[c] < last
    BY <1>4, <1>5, <2>2
  <2> QED
    BY <2>1, <2>3, AddedFits
<1>8. \A g \in u.facts : g \in old \/ \E c \in new : g = Added(c, id[c])
  BY <1>3
<1>9. \A g \in u.facts : FactFits(g) /\ g.id < last
  <2> SUFFICES ASSUME NEW g \in u.facts PROVE FactFits(g) /\ g.id < last
    OBVIOUS
  <2>1. CASE g \in old
    <3>1. FactFits(g) /\ g.id < next
      BY <1>6, <2>1
    <3>2. g.id \in Nat
      BY <3>1 DEF FactFits
    <3> QED
      BY <1>4, <1>5, <3>1, <3>2
  <2>2. CASE \E c \in new : g = Added(c, id[c])
    BY <1>7, <2>2
  <2> QED
    BY <1>8, <2>1, <2>2
<1>10. \A g \in u.facts : (\E f \in fs : Grows(f, g)) \/ (g.id >= next /\ \A f \in fs : ~Same(f, g))
  <2> SUFFICES ASSUME NEW g \in u.facts, g \notin old PROVE g.id >= next /\ \A f \in fs : ~Same(f, g)
    BY <1>6
  <2>1. PICK c \in new : g = Added(c, id[c])
    BY <1>8
  <2>2. g.id = id[c] /\ id[c] >= next /\ Same(c, g) /\ \A f \in fs : ~Same(f, c)
    BY <1>7, <2>1
  <2> QED
    BY <2>2 DEF Same
<1>11. \A g, h \in u.facts : g.id = h.id => g = h
  <2> SUFFICES ASSUME NEW g \in u.facts, NEW h \in u.facts, g.id = h.id PROVE g = h
    OBVIOUS
  <2>1. CASE g \in old /\ h \in old
    <3>1. PICK f \in fs : Grows(f, g) /\ g = IF \E c \in cs : Same(f, c) THEN Reinforced(f, CHOOSE c \in cs : Same(f, c)) ELSE f
      BY <1>6, <2>1
    <3>2. PICK e \in fs : Grows(e, h) /\ h = IF \E c \in cs : Same(e, c) THEN Reinforced(e, CHOOSE c \in cs : Same(e, c)) ELSE e
      BY <1>6, <2>1
    <3>3. f.id = e.id
      BY <3>1, <3>2 DEF Grows
    <3>4. f = e
      BY <1>4, <3>3
    <3> QED
      BY <3>1, <3>2, <3>4
  <2>2. ASSUME NEW x \in old, NEW c \in new PROVE x.id # Added(c, id[c]).id
    <3>1. x.id < next /\ FactFits(x)
      BY <1>6
    <3>2. Added(c, id[c]).id = id[c] /\ id[c] >= next /\ id[c] \in Nat
      BY <1>7
    <3>3. x.id \in Nat
      BY <3>1 DEF FactFits
    <3> QED
      BY <1>4, <3>1, <3>2, <3>3
  <2>3. ASSUME NEW c \in new, NEW d \in new, g = Added(c, id[c]), h = Added(d, id[d]) PROVE g = h
    <3>1. id[c] = id[d]
      BY <1>7, <2>3
    <3> QED
      BY <1>2, <2>3, <3>1
  <2> QED
    BY <1>8, <2>1, <2>2, <2>3
<1>12. \A g, h \in u.facts : g.id >= next /\ h.id >= next /\ Same(g, h) => g = h
  <2> SUFFICES ASSUME NEW g \in u.facts, NEW h \in u.facts, g.id >= next, h.id >= next, Same(g, h) PROVE g = h
    OBVIOUS
  <2>1. ASSUME NEW x \in old, x.id >= next PROVE FALSE
    <3>1. x.id < next /\ FactFits(x)
      BY <1>6
    <3>2. x.id \in Nat
      BY <3>1 DEF FactFits
    <3> QED
      BY <1>4, <2>1, <3>1, <3>2
  <2>2. PICK c \in new : g = Added(c, id[c])
    BY <1>8, <2>1
  <2>3. PICK d \in new : h = Added(d, id[d])
    BY <1>8, <2>1
  <2>4. Same(c, g) /\ Same(h, d) /\ c \in cs /\ d \in cs
    BY <1>7, <2>2, <2>3
  <2>5. c = d
    <3>1. Same(c, d)
      BY <2>4 DEF Same
    <3> QED
      BY <2>4, <3>1 DEF Candidates
  <2> QED
    BY <2>2, <2>3, <2>5
<1>13. TableFits(u.facts, last, won, asked)
  BY <1>5, <1>9, <1>10, <1>11, <1>12, TableGrows
<1> QED
  BY <1>3, <1>5, <1>13

(* A fact expires only from active, so none the user decided on does.      *)
LEMMA ExpireKeeps ==
    ASSUME NEW fs, NEW next, NEW won, NEW asked, TableFits(fs, next, won, asked), NEW kind, NEW gone
    PROVE  TableFits(ExpireFacts(fs, kind, gone), next, won, asked)
<1>1. PICK gs : gs = ExpireFacts(fs, kind, gone)
  OBVIOUS
<1>2. next \in Nat /\ (\A f \in fs : FactFits(f) /\ f.id < next)
      /\ \A f, g \in fs : (Same(f, g) \/ f.id = g.id) => f = g
  BY DEF TableFits
<1>3. ASSUME NEW g \in gs
      PROVE  \E f \in fs : /\ FactFits(g) /\ Grows(f, g) /\ g.id < next
                           /\ g = IF f.kind = kind /\ f.subject \in gone /\ f.status = "active"
                                  THEN [f EXCEPT !.status = "expired"] ELSE f
  <2>1. PICK f \in fs : g = IF f.kind = kind /\ f.subject \in gone /\ f.status = "active"
                            THEN [f EXCEPT !.status = "expired"] ELSE f
    BY <1>1, <1>3 DEF ExpireFacts
  <2>2. FactFits(f) /\ f.id < next
    BY <1>2
  <2>3. CASE f.kind = kind /\ f.subject \in gone /\ f.status = "active"
    <3>1. g = [f EXCEPT !.status = "expired"] /\ f.status \notin ByUser
      BY <2>1, <2>3 DEF ByUser
    <3>2. /\ FactFits(g) /\ g.tried = f.tried
          /\ g.id = f.id /\ g.kind = f.kind /\ g.subject = f.subject
      BY <2>2, <3>1, WithStatus
    <3> QED
      BY <2>1, <2>2, <3>1, <3>2 DEF Grows
  <2>4. CASE ~(f.kind = kind /\ f.subject \in gone /\ f.status = "active")
    <3>1. g = f
      BY <2>1, <2>4
    <3> QED
      BY <2>1, <2>2, <3>1, ZenonT(30) DEF Grows
  <2> QED
    BY <2>3, <2>4
<1>4. \A g, h \in gs : g.id = h.id => g = h
  <2> SUFFICES ASSUME NEW g \in gs, NEW h \in gs, g.id = h.id PROVE g = h
    OBVIOUS
  <2>1. PICK f \in fs : Grows(f, g) /\ g = IF f.kind = kind /\ f.subject \in gone /\ f.status = "active"
                                           THEN [f EXCEPT !.status = "expired"] ELSE f
    BY <1>3
  <2>2. PICK e \in fs : Grows(e, h) /\ h = IF e.kind = kind /\ e.subject \in gone /\ e.status = "active"
                                           THEN [e EXCEPT !.status = "expired"] ELSE e
    BY <1>3
  <2>3. f.id = e.id
    BY <2>1, <2>2 DEF Grows
  <2>4. f = e
    BY <1>2, <2>3
  <2> QED
    BY <2>1, <2>2, <2>4
<1>5. ASSUME NEW g \in gs, g.id >= next PROVE FALSE
  <2>1. FactFits(g) /\ g.id < next
    BY <1>3
  <2>2. g.id \in Nat
    BY <2>1 DEF FactFits
  <2> QED
    BY <1>2, <1>5, <2>1, <2>2
<1>6. \A g \in gs : FactFits(g) /\ g.id < next /\ \E f \in fs : Grows(f, g)
  BY <1>3
<1>7. next >= next
  BY <1>2
<1>8. TableFits(gs, next, won, asked)
  BY <1>2, <1>4, <1>5, <1>6, <1>7, TableGrows
<1> QED
  BY <1>1, <1>8

(* A detector keeps the table, whichever of its writes fail.               *)
LEMMA DetectedKeeps ==
    ASSUME NEW fs, NEW next, NEW won, NEW asked, TableFits(fs, next, won, asked), NEW kind,
           NEW found, Candidates(found), IsFiniteSet(found),
           NEW u \in Detected([facts |-> fs, next |-> next], kind, found)
    PROVE  TableFits(u.facts, u.next, won, asked) /\ u = [facts |-> u.facts, next |-> u.next]
           /\ u.next \in Nat /\ u.next >= next
<1>1. next \in Nat
  BY DEF TableFits
<1>2. CASE u = [facts |-> fs, next |-> next]
  <2>1. u.facts = fs /\ u.next = next
    BY <1>2
  <2> QED
    BY <1>1, <1>2, <2>1
<1>3. CASE u # [facts |-> fs, next |-> next]
  <2>1. PICK kept \in SUBSET found, grown \in UNION {Upserts([facts |-> fs, next |-> next], k) : k \in SUBSET found} :
            /\ grown \in Upserts([facts |-> fs, next |-> next], kept)
            /\ \E gone \in SUBSET StaleFacts(grown.facts, kind, found) :
                  u = [grown EXCEPT !.facts = ExpireFacts(@, kind, gone)]
    BY <1>3 DEF Detected
  <2>2. PICK gone : u = [grown EXCEPT !.facts = ExpireFacts(@, kind, gone)]
    BY <2>1
  <2>3. Candidates(kept) /\ IsFiniteSet(kept)
    <3>1. kept \subseteq found
      BY <2>1
    <3> QED
      BY <3>1, FS_Subset DEF Candidates
  <2>4. TableFits(grown.facts, grown.next, won, asked) /\ grown = [facts |-> grown.facts, next |-> grown.next]
        /\ grown.next \in Nat /\ grown.next >= next
    BY <2>1, <2>3, UpsertsKeep
  <2>5. u = [facts |-> ExpireFacts(grown.facts, kind, gone), next |-> grown.next]
    BY <2>2, <2>4
  <2>6. u.facts = ExpireFacts(grown.facts, kind, gone) /\ u.next = grown.next /\ u = [facts |-> u.facts, next |-> u.next]
    BY <2>5
  <2> QED
    BY <2>4, <2>6, ExpireKeeps
<1> QED
  BY <1>2, <1>3

-----------------------------------------------------------------------------
(* Learning: the detectors *)

EvidenceFits(ats, rej) ==
    /\ \A x \in ats : x.row \in Attempts
    /\ IsFiniteSet(rej) /\ \A x \in rej : x.subject = <<x.subject[1]>>

(* No app is named like a fix, and a time-out is no refused installer.     *)
LEMMA SelfUpdatersFit ==
    ASSUME NEW observed, \A x \in observed : x.row \in Attempts
    PROVE  Candidates(SelfUpdaters(observed))
<1> DEFINE late(app) == {x \in observed : BaseOf[x.row.app] = app /\ IsTimeout(x.row)}
<1>1. \A c \in SelfUpdaters(observed) :
          \E app \in {BaseOf[x.row.app] : x \in observed} : c = Fact("self_updater", <<app>>, late(app))
  BY DEF SelfUpdaters
<1>2. ASSUME NEW c \in SelfUpdaters(observed) PROVE Sourced(c)
  <2> PICK app \in {BaseOf[x.row.app] : x \in observed} : c = Fact("self_updater", <<app>>, late(app))
    BY <1>1, <1>2
  <2>1. PICK x \in observed : app = BaseOf[x.row.app]
    OBVIOUS
  <2>2. c.kind = "self_updater" /\ c.subject[1] = BaseOf[x.row.app] /\ c.basis = late(app)
    BY <2>1 DEF Fact
  <2>3. \A a \in Actions : c.subject[1] \notin {a.label, a.type}
    BY <2>2
  <2>4. \A y \in c.basis : y.row.category # "hash_mismatch"
    BY <2>2 DEF IsTimeout
  <2> QED
    BY <2>2, <2>3, <2>4 DEF Sourced
<1>3. ASSUME NEW c \in SelfUpdaters(observed), NEW d \in SelfUpdaters(observed), Same(c, d) PROVE c = d
  <2>1. PICK a : c = Fact("self_updater", <<a>>, late(a))
    BY <1>1
  <2>2. PICK b : d = Fact("self_updater", <<b>>, late(b))
    BY <1>1
  <2>3. a = b
    BY <1>3, <2>1, <2>2 DEF Same, Fact
  <2> QED
    BY <2>1, <2>2, <2>3
<1> QED
  BY <1>2, <1>3 DEF Candidates

LEMMA FailingMethodsFit ==
    ASSUME NEW observed, \A x \in observed : x.row \in Attempts
    PROVE  Candidates(FailingMethods(observed))
<1> DEFINE failed(p) == {x \in {x \in observed : <<BaseOf[x.row.app], x.row.method>> = p} : IsMethodFault(x.row)}
<1>1. \A c \in FailingMethods(observed) :
          \E p \in {<<BaseOf[x.row.app], x.row.method>> : x \in observed} : c = Fact("method", p, failed(p))
  BY DEF FailingMethods
<1>2. ASSUME NEW c \in FailingMethods(observed) PROVE Sourced(c)
  <2>1. PICK p \in {<<BaseOf[x.row.app], x.row.method>> : x \in observed} : c = Fact("method", p, failed(p))
    BY <1>1, <1>2
  <2>2. PICK x \in observed : p = <<BaseOf[x.row.app], x.row.method>>
    BY <2>1
  <2>3. c.kind = "method" /\ c.subject[1] = BaseOf[x.row.app] /\ c.basis = failed(p)
    BY <2>1, <2>2 DEF Fact
  <2>4. \A a \in Actions : c.subject[1] \notin {a.label, a.type}
    BY <2>3
  <2>5. \A y \in c.basis : y.row.category # "hash_mismatch"
    BY <2>3 DEF IsMethodFault, MethodFaults
  <2> QED
    BY <2>3, <2>4, <2>5 DEF Sourced
<1>3. ASSUME NEW c \in FailingMethods(observed), NEW d \in FailingMethods(observed), Same(c, d) PROVE c = d
  <2>1. PICK p : c = Fact("method", p, failed(p))
    BY <1>1
  <2>2. PICK q : d = Fact("method", q, failed(q))
    BY <1>1
  <2>3. p = q
    BY <1>3, <2>1, <2>2 DEF Same, Fact
  <2> QED
    BY <2>1, <2>2, <2>3
<1> QED
  BY <1>2, <1>3 DEF Candidates

LEMMA IneffectiveFit ==
    ASSUME NEW observed
    PROVE  Candidates(Ineffective(observed)) /\ IsFiniteSet(Ineffective(observed))
<1> DEFINE no(t) == {x \in observed : x.ok /\ x.act.type = t /\ x.res = "no"}
<1>1. \A c \in Ineffective(observed) : \E t \in ServiceFixes : c = Fact("fix", <<t>>, no(t))
  BY DEF Ineffective
<1>2. ASSUME NEW c \in Ineffective(observed) PROVE Sourced(c)
  <2>1. PICK t : c = Fact("fix", <<t>>, no(t))
    BY <1>1, <1>2
  <2>2. c.kind = "fix" /\ c.subject = <<t>>
    BY <2>1 DEF Fact
  <2>3. c.subject = <<c.subject[1]>>
    BY <2>2
  <2> QED
    BY <2>2, <2>3 DEF Sourced
<1>3. ASSUME NEW c \in Ineffective(observed), NEW d \in Ineffective(observed), Same(c, d) PROVE c = d
  <2>1. PICK t : c = Fact("fix", <<t>>, no(t))
    BY <1>1, ZenonT(30)
  <2>2. PICK u : d = Fact("fix", <<u>>, no(u))
    BY <1>1, ZenonT(30)
  <2>3. t = u
    BY <1>3, <2>1, <2>2 DEF Same, Fact
  <2> QED
    BY <2>1, <2>2, <2>3
<1>4. PICK both : both = {Fact("fix", <<"ServiceRestart">>, no("ServiceRestart")),
                          Fact("fix", <<"ServiceStart">>, no("ServiceStart"))}
  OBVIOUS
<1>5. Ineffective(observed) \subseteq both
  BY <1>1, <1>4 DEF ServiceFixes
<1>6. IsFiniteSet(both)
  <2>1. IsFiniteSet({Fact("fix", <<"ServiceRestart">>, no("ServiceRestart"))})
    BY FS_Singleton
  <2>2. both = {Fact("fix", <<"ServiceRestart">>, no("ServiceRestart"))}
               \cup {Fact("fix", <<"ServiceStart">>, no("ServiceStart"))}
    BY <1>4
  <2> HIDE DEF no
  <2> QED
    BY <2>1, <2>2, FS_AddElement
<1> QED
  BY <1>2, <1>3, <1>5, <1>6, FS_Subset DEF Candidates

LEMMA RejectedFit ==
    ASSUME NEW observed, IsFiniteSet(observed), \A x \in observed : x.subject = <<x.subject[1]>>
    PROVE  Candidates(Rejected(observed)) /\ IsFiniteSet(Rejected(observed))
<1> DEFINE of(s) == {x \in observed : x.subject = s}
<1>1. \A c \in Rejected(observed) : \E s \in {x.subject : x \in observed} : c = Fact("rejected", s, of(s))
  BY DEF Rejected
<1>2. ASSUME NEW c \in Rejected(observed) PROVE Sourced(c)
  <2> PICK s \in {x.subject : x \in observed} : c = Fact("rejected", s, of(s))
    BY <1>1, <1>2
  <2>1. PICK x \in observed : s = x.subject
    OBVIOUS
  <2>2. c.kind = "rejected" /\ c.subject = x.subject
    BY <2>1 DEF Fact
  <2>3. c.subject = <<c.subject[1]>>
    BY <2>2
  <2> QED
    BY <2>2, <2>3 DEF Sourced
<1>3. ASSUME NEW c \in Rejected(observed), NEW d \in Rejected(observed), Same(c, d) PROVE c = d
  <2>1. PICK s : c = Fact("rejected", s, of(s))
    BY <1>1
  <2>2. PICK u : d = Fact("rejected", u, of(u))
    BY <1>1
  <2>3. s = u
    BY <1>3, <2>1, <2>2 DEF Same, Fact
  <2> QED
    BY <2>1, <2>2, <2>3
<1>4. PICK image, f : /\ image = {Fact("rejected", x.subject, of(x.subject)) : x \in observed}
                      /\ f = [x \in observed |-> Fact("rejected", x.subject, of(x.subject))]
  OBVIOUS
<1>5. f \in Surjection(observed, image)
  BY <1>4 DEF Surjection
<1>6. IsFiniteSet(image)
  BY <1>5, FS_Surjection
<1>7. Rejected(observed) \subseteq image
  <2> SUFFICES ASSUME NEW c \in Rejected(observed) PROVE c \in image
    OBVIOUS
  <2> PICK s \in {x.subject : x \in observed} : c = Fact("rejected", s, of(s))
    BY <1>1
  <2>1. PICK x \in observed : s = x.subject
    OBVIOUS
  <2> QED
    BY <1>4, <2>1
<1> QED
  BY <1>2, <1>3, <1>6, <1>7, FS_Subset DEF Candidates

-----------------------------------------------------------------------------
(* Learning: the inductive invariant *)

(* The facts the AI has been or is about to be asked about: these are tried. *)
Given(cl, lb) == {cl[i] : i \in 1 .. Len(cl)} \cup {i \in {lb.id} : lb.at = "ask"}

LabelFits(cl, lb, flag, next) ==
    /\ cl \in Seq(Nat) /\ \A i, j \in 1 .. Len(cl) : cl[i] = cl[j] => i = j
    /\ lb = [at |-> lb.at, id |-> lb.id] /\ lb.id \in Nat
    /\ flag = (lb.at # "none")
    /\ lb.at \in {"mark", "ask"} => lb.id < next /\ \A i \in 1 .. Len(cl) : cl[i] # lb.id

JobFits(jb, on) ==
    /\ jb = [at |-> jb.at, kind |-> jb.kind, todo |-> jb.todo, current |-> jb.current,
             stale |-> jb.stale, later |-> jb.later]
    /\ Candidates(jb.current) /\ Candidates(jb.later) /\ jb.todo \subseteq jb.current
    /\ jb.at # "idle" => on

LearnInv ==
    /\ TableFits(facts, nextFact, chosen, Given(calls, label))
    /\ LabelFits(calls, label, labelFlag, nextFact)
    /\ JobFits(job, cycleOn)
    /\ EvidenceFits(attempts, rejections)

(* A table of which observed are deleted, with fewer facts asked about.        *)
LEMMA TableShrinks ==
    ASSUME NEW fs, NEW next, NEW won, NEW asked, TableFits(fs, next, won, asked),
           NEW gs, gs \subseteq fs, NEW fewer, fewer \subseteq asked
    PROVE  TableFits(gs, next, won, fewer)
BY DEF TableFits

LEMMA LabelLasts ==
    ASSUME NEW cl, NEW lb, NEW flag, NEW next \in Nat, LabelFits(cl, lb, flag, next),
           NEW last \in Nat, last >= next
    PROVE  LabelFits(cl, lb, flag, last)
BY DEF LabelFits

LEMMA IdleFitsJob == ASSUME NEW on PROVE JobFits(Idle0, on)
BY DEF JobFits, Idle0, Candidates

LEMMA NoLabelFits ==
    ASSUME NEW cl, NEW lb, NEW flag, NEW next, LabelFits(cl, lb, flag, next)
    PROVE  LabelFits(cl, NoLabel, FALSE, next) /\ Given(cl, NoLabel) \subseteq Given(cl, lb)
<1>1. NoLabel.at = "none" /\ NoLabel.id = 0 /\ NoLabel = [at |-> NoLabel.at, id |-> NoLabel.id]
  BY DEF NoLabel
<1>2. FALSE = (NoLabel.at # "none")
  BY <1>1
<1>3. LabelFits(cl, NoLabel, FALSE, next)
  BY <1>1, <1>2 DEF LabelFits
<1> QED
  BY <1>1, <1>3 DEF Given

(* What earlier runs have left fits.                                       *)
LEMMA LearningBegins == LearnInit => LearnInv
<1> SUFFICES ASSUME LearnInit PROVE LearnInv
  OBVIOUS
<1>1. PICK h \in Histories : attempts = h.attempts /\ rejections = h.rejections /\ facts = h.facts
  BY DEF LearnInit
<1>2. HistoryFits(h)
  OBVIOUS
<1>3. nextFact = 1 + Cardinality(facts) /\ job = Idle0 /\ labelFlag = FALSE
      /\ label = NoLabel /\ calls = <<>> /\ chosen = {}
  BY DEF LearnInit
<1>4. Cardinality(facts) \in Nat
  BY <1>1, <1>2, FS_CardinalityType DEF HistoryFits
<1>5. \A f \in facts : FactFits(f) /\ f.id < nextFact
  <2> SUFFICES ASSUME NEW f \in facts PROVE FactFits(f) /\ f.id < nextFact
    OBVIOUS
  <2>1. FactFits(f) /\ f.id <= Cardinality(facts)
    BY <1>1, <1>2 DEF HistoryFits
  <2>2. f.id \in Nat
    BY <2>1 DEF FactFits
  <2> QED
    BY <1>3, <1>4, <2>1, <2>2
<1>6. Given(calls, label) = {}
  BY <1>3 DEF Given, NoLabel
<1>7. TableFits(facts, nextFact, chosen, Given(calls, label))
  <2>1. \A f, g \in facts : (Same(f, g) \/ f.id = g.id) => f = g
    BY <1>1, <1>2 DEF HistoryFits
  <2> QED
    BY <1>3, <1>4, <1>5, <1>6, <2>1 DEF TableFits
<1>8. LabelFits(calls, label, labelFlag, nextFact)
  <2>1. label = [at |-> label.at, id |-> label.id] /\ label.id \in Nat /\ label.at = "none"
    BY <1>3 DEF NoLabel
  <2>2. labelFlag = (label.at # "none")
    BY <1>3, <2>1
  <2> QED
    BY <1>3, <2>1, <2>2 DEF LabelFits
<1>9. JobFits(job, cycleOn)
  BY <1>3, IdleFitsJob
<1>10. EvidenceFits(attempts, rejections)
  BY <1>1, <1>2 DEF HistoryFits, EvidenceFits
<1> QED
  BY <1>7, <1>8, <1>9, <1>10 DEF LearnInv

(* A step that leaves the table and the label alone.                       *)
Aside ==
    /\ UNCHANGED <<factVars, labelVars, chosen>>
    /\ EvidenceFits(attempts', rejections') /\ JobFits(job', cycleOn')

LEMMA AsideKeeps == ASSUME LearnInv, Aside PROVE LearnInv'
<1>1. facts' = facts /\ nextFact' = nextFact /\ label' = label /\ labelFlag' = labelFlag
      /\ calls' = calls /\ chosen' = chosen
  BY DEF Aside, factVars, labelVars
<1> QED
  BY <1>1 DEF LearnInv, Aside

LEMMA EvidenceKeeps ==
    ASSUME LearnInv,
           \/ \E a \in Actions : RecordFeedback(a) \/ RecordRejection(a)
           \/ Settle \/ Month \/ PruneFeedback
           \/ \E failed \in SUBSET ({a.target : a \in Actions} \ {""}) : MeasureFeedback(failed)
           \/ \E r \in Attempts : RecordAttempt(r)
           \/ StartCycle
    PROVE  LearnInv'
<1>1. EvidenceFits(attempts, rejections) /\ JobFits(job, cycleOn)
  BY DEF LearnInv
<1>2. ASSUME NEW a \in Actions, RecordFeedback(a) PROVE Aside
  BY <1>1, <1>2 DEF RecordFeedback, Aside
<1>3. ASSUME NEW a \in Actions, RecordRejection(a) PROVE Aside
  <2>1. PICK s \in {<<a.key>>, <<a.label>>} : rejections' = rejections \cup {[n |-> -seen, subject |-> s]}
    BY <1>3 DEF RecordRejection
  <2>2. PICK r : r = [n |-> -seen, subject |-> s]
    OBVIOUS
  <2>3. rejections' = rejections \cup {r} /\ r.subject = s /\ s = <<s[1]>>
    <3>1. rejections' = rejections \cup {r} /\ r.subject = s
      BY <2>1, <2>2
    <3>2. PICK name : s = <<name>>
      BY <2>1
    <3>3. s[1] = name
      BY <3>2
    <3> QED
      BY <3>1, <3>2, <3>3
  <2>4. IsFiniteSet(rejections')
    BY <1>1, <2>3, FS_AddElement DEF EvidenceFits
  <2>5. EvidenceFits(attempts', rejections')
    BY <1>1, <1>3, <2>3, <2>4 DEF EvidenceFits, RecordRejection
  <2> QED
    BY <1>1, <1>3, <2>5 DEF RecordRejection, Aside
<1>4. CASE Settle \/ PruneFeedback
  BY <1>1, <1>4, AsideKeeps DEF Settle, PruneFeedback, Aside
<1>5. CASE Month
  <2>1. EvidenceFits(attempts', rejections')
    BY <1>5, FS_EmptySet DEF Month, EvidenceFits
  <2>2. Aside
    BY <1>1, <1>5, <2>1 DEF Month, Aside
  <2> QED
    BY <2>2, AsideKeeps
<1>6. ASSUME NEW failed, MeasureFeedback(failed) PROVE Aside
  BY <1>1, <1>6 DEF MeasureFeedback, Aside
<1>7. ASSUME NEW r \in Attempts, RecordAttempt(r) PROVE Aside
  <2>1. PICK x : x = [n |-> -seen, cycle |-> cycle, row |-> r]
    OBVIOUS
  <2>2. attempts' = attempts \cup {x} /\ x.row = r
    BY <1>7, <2>1 DEF RecordAttempt
  <2>3. EvidenceFits(attempts', rejections')
    BY <1>1, <1>7, <2>2 DEF EvidenceFits, RecordAttempt
  <2> QED
    BY <1>1, <1>7, <2>3 DEF RecordAttempt, Aside
<1>8. CASE StartCycle
  <2>1. attempts' = attempts /\ rejections' = rejections /\ job' = job /\ cycleOn' = TRUE
    BY <1>8 DEF StartCycle, evidence
  <2>2. JobFits(job', cycleOn')
    BY <1>1, <2>1 DEF JobFits
  <2>3. Aside
    BY <1>1, <1>8, <2>1, <2>2 DEF StartCycle, Aside
  <2> QED
    BY <2>3, AsideKeeps
<1> QED
  BY <1>2, <1>3, <1>4, <1>5, <1>6, <1>7, <1>8, AsideKeeps

LEMMA JobKeeps ==
    ASSUME LearnInv, ReadAttempts \/ SelectStale \/ NextDetector \/ EndLearning
    PROVE  LearnInv'
<1>1. EvidenceFits(attempts, rejections) /\ JobFits(job, cycleOn)
  BY DEF LearnInv
<1>2. CASE ReadAttempts
  <2>1. PICK found, later : /\ found = SelfUpdaters(attempts) /\ later = FailingMethods(attempts)
                            /\ job' = [at |-> "keep", kind |-> "self_updater", todo |-> found,
                                       current |-> found, stale |-> {}, later |-> later]
    BY <1>2 DEF ReadAttempts
  <2>2. Candidates(found) /\ Candidates(later)
    BY <1>1, <2>1, SelfUpdatersFit, FailingMethodsFit DEF EvidenceFits
  <2>3. JobFits(job', cycleOn')
    BY <1>2, <2>1, <2>2 DEF JobFits, ReadAttempts
  <2>4. Aside
    BY <1>1, <1>2, <2>3 DEF ReadAttempts, Aside, evidence
  <2> QED
    BY <2>4, AsideKeeps
<1>3. CASE SelectStale
  <2>1. PICK stale : job' = [job EXCEPT !.at = "expire", !.stale = stale]
    BY <1>3 DEF SelectStale
  <2>2. job' = [at |-> "expire", kind |-> job.kind, todo |-> job.todo, current |-> job.current,
                stale |-> stale, later |-> job.later] /\ cycleOn' = cycleOn /\ cycleOn
    BY <1>1, <1>3, <2>1 DEF JobFits, SelectStale, JobStep
  <2>3. JobFits(job', cycleOn')
    BY <1>1, <2>2 DEF JobFits
  <2>4. Aside
    BY <1>1, <1>3, <2>3 DEF SelectStale, JobStep, Aside, evidence
  <2> QED
    BY <2>4, AsideKeeps
<1>4. CASE NextDetector
  <2>1. job' = [at |-> "keep", kind |-> "method", todo |-> job.later, current |-> job.later,
                stale |-> {}, later |-> {}] /\ cycleOn' = cycleOn /\ cycleOn
    BY <1>1, <1>4 DEF JobFits, NextDetector, JobStep
  <2>2. JobFits(job', cycleOn')
    BY <1>1, <2>1 DEF JobFits, Candidates
  <2>3. Aside
    BY <1>1, <1>4, <2>2 DEF NextDetector, JobStep, Aside, evidence
  <2> QED
    BY <2>3, AsideKeeps
<1>5. CASE EndLearning
  <2>1. JobFits(job', cycleOn')
    BY <1>5, IdleFitsJob DEF EndLearning
  <2>2. Aside
    BY <1>1, <1>5, <2>1 DEF EndLearning, Aside, evidence
  <2> QED
    BY <2>2, AsideKeeps
<1> QED
  BY <1>2, <1>3, <1>4, <1>5

(* analyse_issues: two detectors, one after the other.                     *)
LEMMA AnalyseKeeps == ASSUME LearnInv, AnalyseIssues PROVE LearnInv'
<1> DEFINE asked == Given(calls, label)
<1>1. PICK fixes, rejected, t :
        /\ fixes = Ineffective(InWindow(feedback)) /\ rejected = Rejected(rejections)
        /\ t \in Detected([facts |-> facts, next |-> nextFact], "fix", fixes)
        /\ \E u \in Detected(t, "rejected", rejected) : Table(u)
  BY DEF AnalyseIssues
<1>2. PICK u \in Detected(t, "rejected", rejected) : Table(u)
  BY <1>1
<1>3. TableFits(facts, nextFact, chosen, asked)
  BY DEF LearnInv
<1>4. Candidates(fixes) /\ IsFiniteSet(fixes)
  BY <1>1, IneffectiveFit
<1>5. Candidates(rejected) /\ IsFiniteSet(rejected)
  BY <1>1, RejectedFit DEF LearnInv, EvidenceFits
<1> HIDE DEF asked
<1>6. TableFits(t.facts, t.next, chosen, asked) /\ t = [facts |-> t.facts, next |-> t.next]
      /\ t.next \in Nat /\ t.next >= nextFact
  BY <1>1, <1>3, <1>4, DetectedKeeps
<1>7. u \in Detected([facts |-> t.facts, next |-> t.next], "rejected", rejected)
  BY <1>2, <1>6
<1>8. TableFits(u.facts, u.next, chosen, asked) /\ u.next \in Nat /\ u.next >= t.next
  BY <1>5, <1>6, <1>7, DetectedKeeps
<1>9. facts' = u.facts /\ nextFact' = u.next
  BY <1>2 DEF Table
<1>10. chosen' = chosen /\ calls' = calls /\ label' = label /\ labelFlag' = labelFlag /\ job' = job
       /\ cycleOn' = cycleOn /\ attempts' = attempts /\ rejections' = rejections
  BY DEF AnalyseIssues, evidence, labelVars
<1>11. TableFits(facts', nextFact', chosen', Given(calls', label'))
  BY <1>8, <1>9, <1>10 DEF asked
<1>12. LabelFits(calls', label', labelFlag', nextFact')
  <2>1. nextFact \in Nat /\ nextFact' \in Nat /\ nextFact' >= nextFact
    BY <1>3, <1>6, <1>8, <1>9 DEF TableFits
  <2>2. LabelFits(calls, label, labelFlag, nextFact')
    BY <2>1, LabelLasts DEF LearnInv
  <2> QED
    BY <1>10, <2>2
<1> QED
  BY <1>10, <1>11, <1>12 DEF LearnInv

(* A step of the table that leaves the ids, the label and the rest alone.  *)
LEMMA TableKeeps ==
    ASSUME LearnInv, TableFits(facts', nextFact', chosen', Given(calls', label')), nextFact' = nextFact,
           UNCHANGED <<evidence, labelVars>>, JobFits(job', cycleOn')
    PROVE  LearnInv'
<1>1. calls' = calls /\ label' = label /\ labelFlag' = labelFlag /\ attempts' = attempts /\ rejections' = rejections
  BY DEF evidence, labelVars
<1> QED
  BY <1>1 DEF LearnInv

(* The user pins or disables a fact.                                       *)
LEMMA Overridden ==
    ASSUME NEW fs, NEW next, NEW won, NEW asked, TableFits(fs, next, won, asked),
           NEW id \in Nat, id < next, NEW status \in ByUser
    PROVE  TableFits({IF f.id = id THEN [f EXCEPT !.status = status] ELSE f : f \in fs}, next,
                     {c \in won : c.id # id} \cup {[id |-> id, status |-> status]}, asked)
<1>1. PICK gs, mine : /\ gs = {IF f.id = id THEN [f EXCEPT !.status = status] ELSE f : f \in fs}
                      /\ mine = {c \in won : c.id # id} \cup {[id |-> id, status |-> status]}
  OBVIOUS
<1>2. ASSUME NEW g \in gs
      PROVE  \E f \in fs : /\ FactFits(g) /\ g.id = f.id /\ g.kind = f.kind /\ g.subject = f.subject
                           /\ g.tried = f.tried
                           /\ g = IF f.id = id THEN [f EXCEPT !.status = status] ELSE f
                           /\ g.status = IF f.id = id THEN status ELSE f.status
  <2>1. PICK f \in fs : g = IF f.id = id THEN [f EXCEPT !.status = status] ELSE f
    BY <1>1, <1>2
  <2>2. FactFits(f)
    BY DEF TableFits
  <2>3. CASE f.id = id
    <3>1. g = [f EXCEPT !.status = status]
      BY <2>1, <2>3
    <3>2. /\ FactFits(g) /\ g.status = status /\ g.tried = f.tried
          /\ g.id = f.id /\ g.kind = f.kind /\ g.subject = f.subject
      BY <2>2, <3>1, WithStatus
    <3> QED
      BY <2>1, <2>3, <3>2
  <2>4. CASE f.id # id
    <3>1. g = f
      BY <2>1, <2>4
    <3> QED
      BY <2>1, <2>2, <2>4, <3>1
  <2> QED
    BY <2>3, <2>4
<1>3. \A g, h \in gs : (Same(g, h) \/ g.id = h.id) => g = h
  <2> SUFFICES ASSUME NEW g \in gs, NEW h \in gs, Same(g, h) \/ g.id = h.id PROVE g = h
    OBVIOUS
  <2>1. PICK f \in fs : g.id = f.id /\ g.kind = f.kind /\ g.subject = f.subject
                        /\ g = IF f.id = id THEN [f EXCEPT !.status = status] ELSE f
    BY <1>2
  <2>2. PICK e \in fs : h.id = e.id /\ h.kind = e.kind /\ h.subject = e.subject
                        /\ h = IF e.id = id THEN [e EXCEPT !.status = status] ELSE e
    BY <1>2
  <2>3. Same(f, e) \/ f.id = e.id
    BY <2>1, <2>2 DEF Same
  <2>4. f = e
    BY <2>3 DEF TableFits
  <2> QED
    BY <2>1, <2>2, <2>4
<1>4. next \in Nat /\ \A g \in gs : FactFits(g) /\ g.id < next
  BY <1>2 DEF TableFits
<1>5. \A c \in mine : c.id \in Nat /\ c.id < next /\ c.status \in ByUser
  BY <1>1 DEF TableFits
<1>6. ASSUME NEW c \in mine, NEW g \in gs, g.id = c.id PROVE g.status = c.status
  <2>1. PICK f \in fs : g.id = f.id /\ g.status = IF f.id = id THEN status ELSE f.status
    BY <1>2
  <2>2. CASE c = [id |-> id, status |-> status]
    BY <1>6, <2>1, <2>2
  <2>3. CASE c \in won /\ c.id # id
    <3>1. f.status = c.status
      BY <1>6, <2>1, <2>3 DEF TableFits
    <3> QED
      BY <1>6, <2>1, <2>3, <3>1
  <2> QED
    BY <1>1, <2>2, <2>3
<1>7. ASSUME NEW i \in asked, NEW g \in gs, g.id = i PROVE g.tried
  <2>1. PICK f \in fs : g.id = f.id /\ g.tried = f.tried
    BY <1>2
  <2> QED
    BY <1>7, <2>1 DEF TableFits
<1>8. \A i \in asked : i \in Nat /\ i < next
  BY DEF TableFits
<1>9. TableFits(gs, next, mine, asked)
  BY <1>3, <1>4, <1>5, <1>6, <1>7, <1>8 DEF TableFits
<1> QED
  BY <1>1, <1>9

LEMMA UserKeeps ==
    ASSUME LearnInv,
           \/ \E id \in 1 .. nextFact - 1, op \in {"pin", "disable", "forget"} : SetLearnedFact(id, op)
           \/ ClearUpdateHistory
    PROVE  LearnInv'
<1>1. TableFits(facts, nextFact, chosen, Given(calls, label)) /\ JobFits(job, cycleOn) /\ nextFact \in Nat
  BY DEF LearnInv, TableFits
<1>2. ASSUME NEW id \in 1 .. nextFact - 1, NEW op, SetLearnedFact(id, op) PROVE LearnInv'
  <2>1. id \in Nat /\ id < nextFact
    BY <1>1
  <2>2. nextFact' = nextFact /\ job' = job /\ cycleOn' = cycleOn /\ calls' = calls /\ label' = label
        /\ UNCHANGED <<evidence, labelVars>>
    BY <1>2 DEF SetLearnedFact, labelVars
  <2>3. CASE op = "forget"
    <3>1. facts' \subseteq facts /\ chosen' = chosen
      BY <1>2, <2>3 DEF SetLearnedFact
    <3>2. TableFits(facts', nextFact, chosen, Given(calls, label))
      BY <1>1, <3>1, TableShrinks
    <3>3. TableFits(facts', nextFact', chosen', Given(calls', label'))
      BY <2>2, <3>1, <3>2
    <3> QED
      BY <1>1, <2>2, <3>3, TableKeeps
  <2>4. CASE op # "forget"
    <3>1. PICK status \in ByUser : status = IF op = "pin" THEN "user_pinned" ELSE "user_disabled"
      BY DEF ByUser
    <3>2. /\ facts' = {IF f.id = id THEN [f EXCEPT !.status = status] ELSE f : f \in facts}
          /\ chosen' = {c \in chosen : c.id # id} \cup {[id |-> id, status |-> status]}
      BY <1>2, <2>4, <3>1 DEF SetLearnedFact, ChosenNow
    <3>3. TableFits({IF f.id = id THEN [f EXCEPT !.status = status] ELSE f : f \in facts}, nextFact,
                    {c \in chosen : c.id # id} \cup {[id |-> id, status |-> status]}, Given(calls, label))
      BY <1>1, <2>1, Overridden
    <3>4. TableFits(facts', nextFact', chosen', Given(calls', label'))
      BY <2>2, <3>2, <3>3
    <3> QED
      BY <1>1, <2>2, <3>4, TableKeeps
  <2> QED
    BY <2>3, <2>4
<1>3. CASE ClearUpdateHistory
  <2>1. facts' \subseteq facts /\ chosen' = chosen /\ nextFact' = nextFact /\ job' = job /\ cycleOn' = cycleOn
        /\ calls' = calls /\ label' = label /\ UNCHANGED <<evidence, labelVars>>
    BY <1>3 DEF ClearUpdateHistory, labelVars
  <2>2. TableFits(facts', nextFact, chosen, Given(calls, label))
    BY <1>1, <2>1, TableShrinks
  <2>3. TableFits(facts', nextFact', chosen', Given(calls', label'))
    BY <2>1, <2>2
  <2> QED
    BY <1>1, <2>1, <2>3, TableKeeps
<1> QED
  BY <1>2, <1>3

LEMMA KeepFactKeeps == ASSUME LearnInv, KeepFact PROVE LearnInv'
<1>1. PICK c \in job.todo :
        /\ job' = [job EXCEPT !.todo = @ \ {c}]
        /\ \/ \E t \in Upserts([facts |-> facts, next |-> nextFact], {c}) : Table(t)
           \/ UNCHANGED factVars
  BY DEF KeepFact
<1>2. JobFits(job, cycleOn) /\ job.at = "keep" /\ TableFits(facts, nextFact, chosen, Given(calls, label))
      /\ LabelFits(calls, label, labelFlag, nextFact) /\ EvidenceFits(attempts, rejections)
  BY DEF LearnInv, KeepFact
<1>3. attempts' = attempts /\ rejections' = rejections /\ cycleOn' = cycleOn /\ calls' = calls
      /\ label' = label /\ labelFlag' = labelFlag /\ chosen' = chosen
  BY DEF KeepFact, JobStep, evidence, labelVars
<1>4. JobFits(job', cycleOn')
  <2>1. job' = [at |-> job.at, kind |-> job.kind, todo |-> job.todo \ {c}, current |-> job.current,
                stale |-> job.stale, later |-> job.later]
    BY <1>1, <1>2 DEF JobFits
  <2> QED
    BY <1>2, <1>3, <2>1 DEF JobFits
<1>5. CASE UNCHANGED factVars
  <2>1. facts' = facts /\ nextFact' = nextFact
    BY <1>5 DEF factVars
  <2> QED
    BY <1>2, <1>3, <1>4, <2>1 DEF LearnInv
<1>6. CASE \E t \in Upserts([facts |-> facts, next |-> nextFact], {c}) : Table(t)
  <2>1. PICK t \in Upserts([facts |-> facts, next |-> nextFact], {c}) : Table(t)
    BY <1>6
  <2>2. Candidates({c}) /\ IsFiniteSet({c})
    <3>1. c \in job.current
      BY <1>2 DEF JobFits
    <3>2. Sourced(c)
      BY <1>2, <3>1 DEF JobFits, Candidates
    <3> QED
      BY <3>2, FS_Singleton DEF Candidates
  <2>3. TableFits(t.facts, t.next, chosen, Given(calls, label)) /\ t.next \in Nat /\ t.next >= nextFact
    BY <1>2, <2>1, <2>2, UpsertsKeep
  <2>4. facts' = t.facts /\ nextFact' = t.next
    BY <2>1 DEF Table
  <2>5. nextFact \in Nat
    BY <1>2 DEF TableFits
  <2>6. LabelFits(calls, label, labelFlag, nextFact')
    BY <1>2, <2>3, <2>4, <2>5, LabelLasts
  <2> QED
    BY <1>2, <1>3, <1>4, <2>3, <2>4, <2>6 DEF LearnInv
<1> QED
  BY <1>1, <1>5, <1>6

LEMMA ExpireStepKeeps == ASSUME LearnInv, Expire PROVE LearnInv'
<1>1. PICK subject \in job.stale :
        /\ job' = [job EXCEPT !.stale = @ \ {subject}]
        /\ facts' = ExpireFacts(facts, job.kind, {subject})
  BY DEF Expire
<1>2. JobFits(job, cycleOn) /\ TableFits(facts, nextFact, chosen, Given(calls, label))
  BY DEF LearnInv
<1>3. cycleOn' = cycleOn /\ calls' = calls /\ label' = label /\ chosen' = chosen /\ nextFact' = nextFact
      /\ UNCHANGED <<evidence, labelVars>>
  BY DEF Expire, JobStep, labelVars
<1>4. JobFits(job', cycleOn')
  <2>1. job' = [at |-> job.at, kind |-> job.kind, todo |-> job.todo, current |-> job.current,
                stale |-> job.stale \ {subject}, later |-> job.later]
    BY <1>1, <1>2 DEF JobFits
  <2> QED
    BY <1>2, <1>3, <2>1 DEF JobFits
<1>5. TableFits(ExpireFacts(facts, job.kind, {subject}), nextFact, chosen, Given(calls, label))
  BY <1>2, ExpireKeeps
<1>6. TableFits(facts', nextFact', chosen', Given(calls', label'))
  BY <1>1, <1>3, <1>5
<1> QED
  BY <1>3, <1>4, <1>6, TableKeeps

Worded(fs, id) == {IF f.id = id THEN [f EXCEPT !.tried = TRUE, !.text = TRUE] ELSE f : f \in fs}

(* A fact is marked, or worded: it counts as tried from now on.            *)
LEMMA MarkKeeps ==
    ASSUME NEW fs, NEW next, NEW won, NEW asked, TableFits(fs, next, won, asked), NEW id, NEW gs,
           gs = Marked(fs, id) \/ gs = Worded(fs, id)
    PROVE  TableFits(gs, next, won, asked) /\ \A g \in gs : g.id = id => g.tried
<1>1. next \in Nat /\ (\A f \in fs : FactFits(f) /\ f.id < next)
      /\ \A f, g \in fs : (Same(f, g) \/ f.id = g.id) => f = g
  BY DEF TableFits
<1>2. ASSUME NEW f \in fs, NEW g, f.id # id => g = f,
             f.id = id => g = [f EXCEPT !.tried = TRUE] \/ g = [f EXCEPT !.tried = TRUE, !.text = TRUE]
      PROVE  FactFits(g) /\ Grows(f, g) /\ g.id < next /\ (g.id = id => g.tried)
  <2>1. FactFits(f) /\ f.id < next
    BY <1>1
  <2>2. CASE f.id = id
    <3>1. /\ FactFits(g) /\ g.status = f.status /\ g.tried
          /\ g.id = f.id /\ g.kind = f.kind /\ g.subject = f.subject
      BY <1>2, <2>1, <2>2, WithMark
    <3> QED
      BY <2>1, <3>1 DEF Grows
  <2>3. CASE f.id # id
    BY <1>2, <2>1, <2>3 DEF Grows
  <2> QED
    BY <2>2, <2>3
<1>3. ASSUME NEW hs, (\A g \in hs : \E f \in fs : FactFits(g) /\ Grows(f, g) /\ g.id < next /\ (g.id = id => g.tried)),
             \A g, h \in hs : g.id = h.id => g = h
      PROVE  TableFits(hs, next, won, asked) /\ \A g \in hs : g.id = id => g.tried
  <2>1. next >= next
    BY <1>1
  <2>2. \A g \in hs : FactFits(g) /\ g.id < next /\ \E f \in fs : Grows(f, g)
    BY <1>3
  <2>3. \A g \in hs : ~(g.id >= next)
    <3> SUFFICES ASSUME NEW g \in hs PROVE ~(g.id >= next)
      OBVIOUS
    <3>1. g.id \in Nat /\ g.id < next
      BY <2>2 DEF FactFits
    <3> QED
      BY <1>1, <3>1
  <2>4. TableFits(hs, next, won, asked)
    BY <1>1, <1>3, <2>1, <2>2, <2>3, TableGrows
  <2> QED
    BY <1>3, <2>4
<1>4. CASE gs = Marked(fs, id)
  <2>1. ASSUME NEW g \in gs
        PROVE  \E f \in fs : /\ FactFits(g) /\ Grows(f, g) /\ g.id < next /\ (g.id = id => g.tried)
                             /\ g = IF f.id = id THEN [f EXCEPT !.tried = TRUE] ELSE f
    <3>1. PICK f \in fs : g = IF f.id = id THEN [f EXCEPT !.tried = TRUE] ELSE f
      BY <1>4, <2>1 DEF Marked
    <3> QED
      BY <1>2, <3>1
  <2>2. ASSUME NEW g \in gs, NEW h \in gs, g.id = h.id PROVE g = h
    <3>1. PICK f \in fs : Grows(f, g) /\ g = IF f.id = id THEN [f EXCEPT !.tried = TRUE] ELSE f
      BY <2>1
    <3>2. PICK e \in fs : Grows(e, h) /\ h = IF e.id = id THEN [e EXCEPT !.tried = TRUE] ELSE e
      BY <2>1
    <3>3. f.id = e.id
      BY <2>2, <3>1, <3>2 DEF Grows
    <3>4. f = e
      BY <1>1, <3>3
    <3> QED
      BY <3>1, <3>2, <3>4
  <2> QED
    BY <1>3, <2>1, <2>2
<1>5. CASE gs = Worded(fs, id)
  <2>1. ASSUME NEW g \in gs
        PROVE  \E f \in fs : /\ FactFits(g) /\ Grows(f, g) /\ g.id < next /\ (g.id = id => g.tried)
                             /\ g = IF f.id = id THEN [f EXCEPT !.tried = TRUE, !.text = TRUE] ELSE f
    <3>1. PICK f \in fs : g = IF f.id = id THEN [f EXCEPT !.tried = TRUE, !.text = TRUE] ELSE f
      BY <1>5, <2>1 DEF Worded
    <3> QED
      BY <1>2, <3>1
  <2>2. ASSUME NEW g \in gs, NEW h \in gs, g.id = h.id PROVE g = h
    <3>1. PICK f \in fs : Grows(f, g) /\ g = IF f.id = id THEN [f EXCEPT !.tried = TRUE, !.text = TRUE] ELSE f
      BY <2>1
    <3>2. PICK e \in fs : Grows(e, h) /\ h = IF e.id = id THEN [e EXCEPT !.tried = TRUE, !.text = TRUE] ELSE e
      BY <2>1
    <3>3. f.id = e.id
      BY <2>2, <3>1, <3>2 DEF Grows
    <3>4. f = e
      BY <1>1, <3>3
    <3> QED
      BY <3>1, <3>2, <3>4
  <2> QED
    BY <1>3, <2>1, <2>2
<1> QED
  BY <1>4, <1>5

LEMMA LabelKeeps ==
    ASSUME LearnInv,
           DispatchLabel \/ LabelEnds \/ QueryLabel \/ MarkLabel \/ AskLabel \/ StoreLabel \/ LearnCrash
    PROVE  LearnInv'
<1>1. /\ TableFits(facts, nextFact, chosen, Given(calls, label))
      /\ LabelFits(calls, label, labelFlag, nextFact)
      /\ JobFits(job, cycleOn) /\ EvidenceFits(attempts, rejections)
  BY DEF LearnInv
<1>2. /\ calls \in Seq(Nat) /\ \A i, j \in 1 .. Len(calls) : calls[i] = calls[j] => i = j
      /\ label = [at |-> label.at, id |-> label.id] /\ label.id \in Nat
      /\ labelFlag = (label.at # "none")
      /\ label.at \in {"mark", "ask"} => label.id < nextFact /\ \A i \in 1 .. Len(calls) : calls[i] # label.id
  BY <1>1 DEF LabelFits
<1>3. LabelStep => /\ nextFact' = nextFact /\ chosen' = chosen /\ job' = job /\ cycleOn' = cycleOn
                   /\ attempts' = attempts /\ rejections' = rejections
  BY DEF LabelStep, evidence
<1>4. ASSUME LabelStep, TableFits(facts', nextFact, chosen, Given(calls', label')),
             LabelFits(calls', label', labelFlag', nextFact)
      PROVE  LearnInv'
  BY <1>1, <1>3, <1>4 DEF LearnInv
<1>5. CASE DispatchLabel
  <2>1. LabelStep /\ labelFlag' = TRUE /\ label' = [at |-> "query", id |-> 0] /\ facts' = facts /\ calls' = calls
    BY <1>5 DEF DispatchLabel
  <2>2. label'.at = "query" /\ label'.id = 0 /\ label' = [at |-> label'.at, id |-> label'.id]
    BY <2>1
  <2>3. labelFlag' = (label'.at # "none")
    BY <2>1, <2>2
  <2>4. LabelFits(calls', label', labelFlag', nextFact)
    BY <1>2, <2>1, <2>2, <2>3 DEF LabelFits
  <2>5. Given(calls', label') \subseteq Given(calls, label)
    BY <2>1, <2>2 DEF Given
  <2>6. TableFits(facts', nextFact, chosen, Given(calls', label'))
    BY <1>1, <2>1, <2>5, TableShrinks
  <2> QED
    BY <1>4, <2>1, <2>4, <2>6
<1>6. CASE LabelEnds
  <2>1. LabelStep /\ labelFlag' = FALSE /\ label' = NoLabel /\ facts' = facts /\ calls' = calls
    BY <1>6 DEF LabelEnds
  <2>2. LabelFits(calls', label', labelFlag', nextFact) /\ Given(calls', label') \subseteq Given(calls, label)
    BY <1>1, <2>1, NoLabelFits
  <2>3. TableFits(facts', nextFact, chosen, Given(calls', label'))
    BY <1>1, <2>1, <2>2, TableShrinks
  <2> QED
    BY <1>4, <2>1, <2>2, <2>3
<1>7. CASE QueryLabel
  <2>1. PICK f \in facts : ~f.tried /\ label' = [at |-> "mark", id |-> f.id]
    BY <1>7 DEF QueryLabel, Unlabelled, InForceNow
  <2>2. LabelStep /\ labelFlag' = labelFlag /\ facts' = facts /\ calls' = calls /\ label.at = "query"
    BY <1>7 DEF QueryLabel
  <2>3. label'.at = "mark" /\ label'.id = f.id /\ label' = [at |-> label'.at, id |-> label'.id]
    BY <2>1
  <2>4. FactFits(f) /\ f.id < nextFact /\ f.id \notin Given(calls, label)
    BY <1>1, <2>1 DEF TableFits
  <2>5. f.id \in Nat /\ \A i \in 1 .. Len(calls) : calls[i] # f.id
    BY <2>4 DEF FactFits, Given
  <2>6. labelFlag' = (label'.at # "none")
    BY <1>2, <2>2, <2>3
  <2>7. LabelFits(calls', label', labelFlag', nextFact)
    BY <1>2, <2>2, <2>3, <2>4, <2>5, <2>6 DEF LabelFits
  <2>8. Given(calls', label') \subseteq Given(calls, label)
    BY <2>2, <2>3 DEF Given
  <2>9. TableFits(facts', nextFact, chosen, Given(calls', label'))
    BY <1>1, <2>2, <2>8, TableShrinks
  <2> QED
    BY <1>4, <2>2, <2>7, <2>9
<1>8. CASE MarkLabel
  <2>1. LabelStep /\ label.at = "mark" /\ label' = [label EXCEPT !.at = "ask"] /\ facts' = Marked(facts, label.id)
        /\ labelFlag' = labelFlag /\ calls' = calls
    BY <1>8 DEF MarkLabel
  <2>2. label' = [at |-> "ask", id |-> label.id]
    BY <1>2, <2>1
  <2>3. label'.at = "ask" /\ label'.id = label.id /\ label' = [at |-> label'.at, id |-> label'.id]
    BY <2>2
  <2>4. labelFlag' = (label'.at # "none")
    BY <1>2, <2>1, <2>3
  <2>5. LabelFits(calls', label', labelFlag', nextFact)
    BY <1>2, <2>1, <2>3, <2>4 DEF LabelFits
  <2>6. TableFits(facts', nextFact, chosen, Given(calls, label)) /\ \A g \in facts' : g.id = label.id => g.tried
    BY <1>1, <2>1, MarkKeeps
  <2>7. Given(calls', label') \subseteq Given(calls, label) \cup {label.id}
    BY <2>1, <2>3 DEF Given
  <2>8. label.id \in Nat /\ label.id < nextFact
    BY <1>2, <2>1
  <2>9. TableFits(facts', nextFact, chosen, Given(calls', label'))
    BY <2>6, <2>7, <2>8 DEF TableFits
  <2> QED
    BY <1>4, <2>1, <2>5, <2>9
<1>9. CASE AskLabel
  <2>1. LabelStep /\ label.at = "ask" /\ label' = [label EXCEPT !.at = "store"] /\ calls' = Append(calls, label.id)
        /\ labelFlag' = labelFlag /\ facts' = facts
    BY <1>9 DEF AskLabel
  <2>2. label' = [at |-> "store", id |-> label.id]
    BY <1>2, <2>1
  <2>3. label'.at = "store" /\ label'.id = label.id /\ label' = [at |-> label'.at, id |-> label'.id]
    BY <2>2
  <2>4. labelFlag' = (label'.at # "none")
    BY <1>2, <2>1, <2>3
  <2>5. calls' \in Seq(Nat) /\ Len(calls') = Len(calls) + 1 /\ Len(calls) \in Nat
        /\ \A i \in 1 .. Len(calls') : calls'[i] = IF i \in 1 .. Len(calls) THEN calls[i] ELSE label.id
    BY <1>2, <2>1
  <2>6. \A i \in 1 .. Len(calls) : calls[i] # label.id
    BY <1>2, <2>1
  <2>7. ASSUME NEW i \in 1 .. Len(calls'), NEW j \in 1 .. Len(calls'), calls'[i] = calls'[j] PROVE i = j
    <3>1. CASE i \in 1 .. Len(calls) /\ j \in 1 .. Len(calls)
      BY <1>2, <2>5, <2>7, <3>1
    <3>2. CASE i \notin 1 .. Len(calls) /\ j \notin 1 .. Len(calls)
      BY <2>5, <3>2
    <3>3. CASE i \in 1 .. Len(calls) /\ j \notin 1 .. Len(calls)
      BY <2>5, <2>6, <2>7, <3>3
    <3>4. CASE i \notin 1 .. Len(calls) /\ j \in 1 .. Len(calls)
      BY <2>5, <2>6, <2>7, <3>4
    <3> QED
      BY <3>1, <3>2, <3>3, <3>4
  <2>8. LabelFits(calls', label', labelFlag', nextFact)
    BY <1>2, <2>3, <2>4, <2>5, <2>7 DEF LabelFits
  <2>9. Given(calls', label') \subseteq Given(calls, label)
    BY <2>1, <2>3, <2>5 DEF Given
  <2>10. TableFits(facts', nextFact, chosen, Given(calls', label'))
    BY <1>1, <2>1, <2>9, TableShrinks
  <2> QED
    BY <1>4, <2>1, <2>8, <2>10
<1>10. CASE StoreLabel
  <2>1. LabelStep /\ labelFlag' = FALSE /\ label' = NoLabel /\ facts' = Worded(facts, label.id) /\ calls' = calls
    BY <1>10 DEF StoreLabel, Worded
  <2>2. LabelFits(calls', label', labelFlag', nextFact) /\ Given(calls', label') \subseteq Given(calls, label)
    BY <1>1, <2>1, NoLabelFits
  <2>3. TableFits(facts', nextFact, chosen, Given(calls, label))
    BY <1>1, <2>1, MarkKeeps
  <2>4. TableFits(facts', nextFact, chosen, Given(calls', label'))
    BY <2>2, <2>3, TableShrinks
  <2> QED
    BY <1>4, <2>1, <2>2, <2>4
<1>11. CASE LearnCrash
  <2>1. cycleOn' = FALSE /\ job' = Idle0 /\ label' = NoLabel /\ labelFlag' = FALSE /\ calls' = calls
        /\ facts' = facts /\ nextFact' = nextFact /\ chosen' = chosen
        /\ attempts' = attempts /\ rejections' = rejections
    BY <1>11 DEF LearnCrash, evidence, factVars
  <2>2. LabelFits(calls', label', labelFlag', nextFact) /\ Given(calls', label') \subseteq Given(calls, label)
    BY <1>1, <2>1, NoLabelFits
  <2>3. TableFits(facts', nextFact', chosen', Given(calls', label'))
    BY <1>1, <2>1, <2>2, TableShrinks
  <2>4. JobFits(job', cycleOn')
    BY <2>1, IdleFitsJob
  <2> QED
    BY <1>1, <2>1, <2>2, <2>3, <2>4 DEF LearnInv
<1> QED
  BY <1>5, <1>6, <1>7, <1>8, <1>9, <1>10, <1>11

LEMMA LearnNextInv == LearnInv /\ [LearnNext]_learnVars => LearnInv'
<1> SUFFICES ASSUME LearnInv, [LearnNext]_learnVars PROVE LearnInv'
  OBVIOUS
<1>1. CASE UNCHANGED learnVars
  <2>1. Aside
    BY <1>1 DEF learnVars, evidence, LearnInv, Aside
  <2> QED
    BY <2>1, AsideKeeps
<1>2. CASE LearnNext
  BY <1>2, EvidenceKeeps, AnalyseKeeps, UserKeeps, JobKeeps, KeepFactKeeps, ExpireStepKeeps, LabelKeeps
     DEF LearnNext
<1> QED
  BY <1>1, <1>2

(* The invariant of what is learned: a table with one row of a kind and    *)
(* subject, in which what the user decided and what was tried stays so.    *)
THEOREM LearningInvariance == LearnSpec => []LearnInv
<1>1. LearnInit => LearnInv
  BY LearningBegins
<1>2. LearnInv /\ [LearnNext]_learnVars => LearnInv'
  BY LearnNextInv
<1> QED
  BY <1>1, <1>2, PTL DEF LearnSpec

LEMMA PenaltyBounded ==
    ASSUME LearnInv, NEW kind, NEW subjects PROVE PenaltyOf(kind, subjects) \in 0 .. PenaltyCap
<1>1. PICK fs : fs = {f \in Penalised(kind) : f.subject \in subjects}
  OBVIOUS
<1>2. PenaltyCap \in Nat
  OBVIOUS
<1>3. CASE fs = {}
  BY <1>1, <1>2, <1>3 DEF PenaltyOf
<1>4. CASE fs # {}
  <2>1. PICK f : f = CHOOSE g \in fs : TRUE
    OBVIOUS
  <2>2. f \in fs
    BY <1>4, <2>1
  <2>3. f.amount \in Int
    BY <1>1, <2>2 DEF LearnInv, TableFits, FactFits, Penalised, InForceNow
  <2>4. PenaltyOf(kind, subjects) = Bounded(f.amount)
    BY <1>1, <1>4, <2>1 DEF PenaltyOf
  <2> QED
    BY <1>2, <2>3, <2>4 DEF Bounded
<1> QED
  BY <1>3, <1>4

(* Whatever the machine, the user and the detectors do, what is learned is *)
(* sound.                                                                  *)
THEOREM LearningIsSound == LearnSpec => []LearningSound
<1>1. LearnInv => LearningSound
  <2> SUFFICES ASSUME LearnInv PROVE LearningSound
    OBVIOUS
  <2>1. LearnTypeOK
    BY DEF LearnInv, TableFits, FactFits, LabelFits, JobFits, LearnTypeOK
  <2>2. UserWins
    BY DEF LearnInv, TableFits, UserWins
  <2>3. TamperTeachesNothing
    BY DEF LearnInv, TableFits, FactFits, Sourced, TamperTeachesNothing
  <2>4. \A a \in Actions : ActionType(<<a.label>>) = a.type
    <3> SUFFICES ASSUME NEW a \in Actions PROVE ActionType(<<a.label>>) = a.type
      OBVIOUS
    <3>1. PICK b : b = CHOOSE c \in Actions : <<c.label>> = <<a.label>>
      OBVIOUS
    <3>2. b \in Actions /\ <<b.label>> = <<a.label>>
      BY <3>1
    <3>3. b.type = a.type
      BY <3>2
    <3> QED
      BY <3>1, <3>3 DEF ActionType
  <2>5. ASSUME NEW a \in Actions
        PROVE  ConfidencePenalty(a) \in 0 .. (IF a.type \in SecurityTypes THEN 0 ELSE PenaltyCap)
    <3>1. CASE a.type \in SecurityTypes
      BY <2>4, <3>1 DEF ConfidencePenalty, IsSecurity
    <3>2. CASE a.type \notin SecurityTypes
      <4>1. ~IsSecurity(<<a.label>>)
        BY <2>4, <3>2 DEF IsSecurity
      <4>2. PenaltyOf("fix", {<<a.type>>}) \in 0 .. PenaltyCap /\ BySubject(a) \in 0 .. PenaltyCap
        BY PenaltyBounded DEF BySubject
      <4>3. PICK sum \in Int : sum = PenaltyOf("fix", {<<a.type>>}) + BySubject(a)
        BY <4>2
      <4>4. Bounded(sum) \in 0 .. PenaltyCap
        BY <4>3 DEF Bounded
      <4> QED
        BY <3>2, <4>1, <4>3, <4>4 DEF ConfidencePenalty
    <3> QED
      BY <3>1, <3>2
  <2>6. AskedOnce
    <3>1. DOMAIN calls = 1 .. Len(calls)
      BY DEF LearnInv, LabelFits
    <3> QED
      BY <3>1 DEF LearnInv, LabelFits, AskedOnce
  <2>7. ASSUME NEW p \in PromptFacts, NEW a \in Actions, a.type \in SecurityTypes
        PROVE  p[2][1] \notin {a.label, a.type}
    <3>1. PICK f \in facts : /\ p = <<f.kind, f.subject>>
                             /\ f.kind \in {"self_updater", "method"} \/ ~IsSecurity(f.subject)
      BY DEF PromptFacts, Penalised, InForceNow
    <3>2. Sourced(f) /\ p[2] = f.subject
      BY <3>1 DEF LearnInv, TableFits, FactFits
    <3>3. CASE f.kind \in {"self_updater", "method"}
      BY <3>2, <3>3 DEF Sourced
    <3>4. CASE f.kind \notin {"self_updater", "method"}
      <4>1. f.subject = <<f.subject[1]>> /\ ~IsSecurity(f.subject)
        BY <3>1, <3>2, <3>4 DEF Sourced
      <4>2. ASSUME f.subject[1] = a.label PROVE FALSE
        <5>1. f.subject = <<a.label>>
          BY <4>1, <4>2
        <5> QED
          BY <2>4, <2>7, <4>1, <5>1 DEF IsSecurity
      <4>3. ASSUME f.subject[1] = a.type PROVE FALSE
        <5>1. f.subject = <<a.type>> /\ f.subject[1] = a.type
          BY <4>1, <4>3
        <5>2. CASE \E b \in Actions : <<b.label>> = f.subject
          <6>1. PICK b \in Actions : <<b.label>> = f.subject
            BY <5>2
          <6>2. b.label = a.type
            BY <5>1, <6>1
          <6>3. b.type = a.type /\ ActionType(<<b.label>>) = b.type
            BY <2>4, <6>2
          <6> QED
            BY <2>7, <4>1, <6>1, <6>3 DEF IsSecurity
        <5>3. CASE ~\E b \in Actions : <<b.label>> = f.subject
          <6>1. ActionType(f.subject) = a.type
            BY <5>1, <5>3 DEF ActionType
          <6> QED
            BY <2>7, <4>1, <6>1 DEF IsSecurity
        <5> QED
          BY <5>2, <5>3
      <4> QED
        BY <3>2, <4>2, <4>3
    <3> QED
      BY <3>3, <3>4
  <2> QED
    BY <2>1, <2>2, <2>3, <2>5, <2>6, <2>7 DEF LearningSound, OnlyCautious, PromptSparesSecurity
<1> QED
  BY <1>1, LearningInvariance, PTL

=============================================================================
