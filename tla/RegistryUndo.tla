----------------------------- MODULE RegistryUndo -----------------------------
(***************************************************************************)
(* The one fix Eir can take back: a registry reset and its undo            *)
(* (eir-svc/src/executor/registry.rs, the registry_undo table of audit.rs, *)
(* and their callers in main.rs), for one registry value.                  *)
(*                                                                         *)
(* The serial executor resets; every undo the user asks for is a task of   *)
(* its own, so that a reset and several undos overlap, while other         *)
(* programs write the value too.  Each PowerShell script checks and writes *)
(* in one invocation and is one step here.                                 *)
(***************************************************************************)
CONSTANTS
    Ids,      \* registry_undo row ids; the bound on successful resets
    Values,   \* states of the registry value
    Absent,   \* the one in which it does not exist
    Faults    \* whether a script or a database call may fail

ASSUME FaultsAssumption == Faults \in BOOLEAN
ASSUME ValuesAssumption == Absent \in Values

VARIABLES
    up,       \* the service runs
    value,    \* the registry value
    worker,   \* the reset in the executor, with its snapshot and its target
    undone,   \* registry_undo.undone of each row, "none" without a row
    record,   \* the row: the prior value and the value Eir applied
    task,     \* the undo task of each row
    buttons,  \* ids of recent_executions, where the tray shows Undo
    reports,  \* outcomes on their way to the loop
    shown,    \* history: ids a client has been shown
    taken,    \* history: rows whose undo has worked
    ours,     \* history: the live value was written by a reset
    cutOff    \* history: a script, an unclaim or the process was cut off

db == <<undone, record>>
ui == <<buttons, reports, shown>>
history == <<taken, ours, cutOff>>
vars == <<up, value, worker, db, task, ui, history>>

-----------------------------------------------------------------------------
(* Types *)

Record == [prior : Values, applied : Values]
Blank == [prior |-> Absent, applied |-> Absent]

(* "snapped": the value is read; "written": the script has worked and its  *)
(* undo is to be committed; "unstored": the commit failed.                 *)
Worker == [at : {"idle", "snapped", "written", "unstored"}, undo : Record]
Idle == [at |-> "idle", undo |-> Blank]

TypeOK ==
    /\ up \in BOOLEAN
    /\ value \in Values
    /\ worker \in Worker
    /\ undone \in [Ids -> {"none", "no", "yes"}]
    /\ record \in [Ids -> Record]
    /\ task \in [Ids -> {"none", "restoring", "failed", "restored"}]
    /\ buttons \subseteq Ids
    /\ reports \subseteq {"ran", "undone"} \X Ids
    /\ shown \subseteq Ids /\ taken \subseteq Ids
    /\ ours \in BOOLEAN /\ cutOff \in BOOLEAN

Init ==
    /\ up = TRUE
    /\ value \in Values
    /\ worker = Idle
    /\ undone = [i \in Ids |-> "none"]
    /\ record = [i \in Ids |-> Blank]
    /\ task = [i \in Ids |-> "none"]
    /\ buttons = {} /\ reports = {}
    /\ shown = {} /\ taken = {}
    /\ ours = FALSE /\ cutOff = FALSE

-----------------------------------------------------------------------------
(* The executor: reset_value, persist_execution and the rollback *)

(* Each script writes `new` if it finds `expected` and refuses if not; one *)
(* that is killed by its time-out may have written.                        *)
Write(expected, new) == value = expected /\ value' = new
Killed(expected, new) ==
    /\ Faults
    /\ value' = value \/ Write(expected, new)

(* The prior value is read before anything is written. *)
Snapshot(target) ==
    /\ up /\ worker = Idle
    /\ \E i \in Ids : undone[i] = "none"
    /\ target # Absent
    /\ worker' = [at |-> "snapped", undo |-> [prior |-> value, applied |-> target]]
    /\ UNCHANGED <<up, value, db, task, ui, history>>

(* The write is guarded by the snapshot.  A reset that fails is logged     *)
(* without an undo.                                                        *)
Reset ==
    /\ worker.at = "snapped"
    /\ LET undo == worker.undo IN
       \/ /\ Write(undo.prior, undo.applied)
          /\ worker' = [worker EXCEPT !.at = "written"]
          /\ ours' = TRUE /\ cutOff' = cutOff
       \/ /\ value # undo.prior
          /\ worker' = Idle
          /\ UNCHANGED <<value, ours, cutOff>>
       \/ /\ Killed(undo.prior, undo.applied)
          /\ worker' = Idle
          /\ ours' = (ours \/ value' # value) /\ cutOff' = TRUE
    /\ UNCHANGED <<up, db, task, ui, taken>>

(* Mutant: a row without the prior value is let through. *)
CommitOmitsPrior(i) ==
    /\ worker.at = "written" /\ undone[i] = "none"
    /\ undone' = [undone EXCEPT ![i] = "no"]
    /\ record' = [record EXCEPT ![i] = [applied |-> worker.undo.applied]]
    /\ reports' = reports \cup {<<"ran", i>>}
    /\ worker' = Idle
    /\ UNCHANGED <<up, value, task, buttons, shown, history>>

(* persist_execution: the execution and its undo are one transaction. *)
Commit(i) ==
    /\ worker.at = "written" /\ undone[i] = "none"
    /\ undone' = [undone EXCEPT ![i] = "no"]
    /\ record' = [record EXCEPT ![i] = worker.undo]
    /\ reports' = reports \cup {<<"ran", i>>}
    /\ worker' = Idle
    /\ UNCHANGED <<up, value, task, buttons, shown, history>>

(* Mutant: a reset whose undo cannot be stored is left as it is. *)
CommitFailsQuietly ==
    /\ Faults /\ worker.at = "written"
    /\ worker' = Idle
    /\ UNCHANGED <<up, value, db, task, ui, history>>

CommitFails ==
    /\ Faults /\ worker.at = "written"
    /\ worker' = [worker EXCEPT !.at = "unstored"]
    /\ UNCHANGED <<up, value, db, task, ui, history>>

(* The reset is taken back at once; if that fails too, it stays. *)
RollBack ==
    /\ worker.at = "unstored"
    /\ worker' = Idle
    /\ LET undo == worker.undo IN
       \/ /\ Write(undo.applied, undo.prior)
          /\ ours' = FALSE /\ cutOff' = cutOff
       \/ /\ value # undo.applied
          /\ UNCHANGED <<value, ours, cutOff>>
       \/ /\ Killed(undo.applied, undo.prior)
          /\ cutOff' = TRUE /\ ours' = ours
    /\ UNCHANGED <<up, db, task, ui, taken>>

-----------------------------------------------------------------------------
(* UndoRegistry *)

(* Mutant: the row is claimed whether or not it has been undone. *)
ClaimAgain(i) ==
    /\ up /\ i \in shown /\ task[i] = "none"
    /\ undone' = [undone EXCEPT ![i] = "yes"]
    /\ task' = [task EXCEPT ![i] = "restoring"]
    /\ UNCHANGED <<up, value, worker, record, ui, history>>

(* claim_registry_undo: only the request that flips `undone` goes on.  A   *)
(* client asks for ids it has been shown, if not lately.                   *)
ClaimUndo(i) ==
    /\ up /\ i \in shown
    /\ undone[i] = "no"
    /\ undone' = [undone EXCEPT ![i] = "yes"]
    /\ task' = [task EXCEPT ![i] = "restoring"]
    /\ UNCHANGED <<up, value, worker, record, ui, history>>

(* restore_value, guarded by the value Eir applied. *)
Restore(i) ==
    /\ task[i] = "restoring"
    /\ LET undo == record[i] IN
       \/ /\ Write(undo.applied, undo.prior)
          /\ task' = [task EXCEPT ![i] = "restored"]
          /\ taken' = taken \cup {i}
          /\ ours' = FALSE /\ cutOff' = cutOff
       \/ /\ value # undo.applied
          /\ task' = [task EXCEPT ![i] = "failed"]
          /\ UNCHANGED <<value, history>>
       \/ /\ Killed(undo.applied, undo.prior)
          /\ task' = [task EXCEPT ![i] = "failed"]
          /\ cutOff' = TRUE /\ UNCHANGED <<taken, ours>>
    /\ UNCHANGED <<up, worker, db, ui>>

(* unclaim_registry_undo: the user can try again, unless this fails too. *)
Unclaim(i) ==
    /\ task[i] = "failed"
    /\ task' = [task EXCEPT ![i] = "none"]
    /\ \/ undone' = [undone EXCEPT ![i] = "no"] /\ cutOff' = cutOff
       \/ Faults /\ undone' = undone /\ cutOff' = TRUE
    /\ UNCHANGED <<up, value, worker, record, ui, taken, ours>>

ReportUndone(i) ==
    /\ task[i] = "restored"
    /\ task' = [task EXCEPT ![i] = "none"]
    /\ reports' = reports \cup {<<"undone", i>>}
    /\ UNCHANGED <<up, value, worker, db, buttons, shown, history>>

-----------------------------------------------------------------------------
(* The loop and the world *)

(* Mutant: a finished undo leaves the button where it is. *)
FoldKeeps(kind, i) ==
    /\ <<kind, i>> \in reports
    /\ reports' = reports \ {<<kind, i>>}
    /\ buttons' = IF kind = "ran" THEN buttons \cup {i} ELSE buttons
    /\ shown' = shown \cup buttons'
    /\ UNCHANGED <<up, value, worker, db, task, history>>

(* exec_done_rx: a reset gets its button, a finished undo retires it. *)
Fold(kind, i) ==
    /\ <<kind, i>> \in reports
    /\ reports' = reports \ {<<kind, i>>}
    /\ buttons' = IF kind = "ran" THEN buttons \cup {i} ELSE buttons \ {i}
    /\ shown' = shown \cup buttons'
    /\ UNCHANGED <<up, value, worker, db, task, history>>

(* ClearExecutions empties the list that has the buttons, and a new entry  *)
(* pushes the oldest out of it.                                            *)
Dropped(kept) ==
    /\ up
    /\ kept \subseteq buttons
    /\ buttons' = kept
    /\ UNCHANGED <<up, value, worker, db, task, reports, shown, history>>

OthersWrite(v) ==
    /\ v # value
    /\ value' = v
    /\ ours' = FALSE
    /\ UNCHANGED <<up, worker, db, task, ui, taken, cutOff>>

(* The process dies, wherever its tasks are. *)
Crash ==
    /\ up
    /\ up' = FALSE
    /\ worker' = Idle
    /\ task' = [i \in Ids |-> "none"]
    /\ buttons' = {} /\ reports' = {}
    /\ cutOff' = (cutOff \/ worker # Idle \/ \E i \in Ids : task[i] # "none")
    /\ UNCHANGED <<value, db, shown, taken, ours>>

(* recent_executions starts empty. *)
Restart ==
    /\ ~up
    /\ up' = TRUE
    /\ UNCHANGED <<value, worker, db, task, ui, history>>

-----------------------------------------------------------------------------
(* Specification *)

Execute == \/ \E target \in Values : Snapshot(target)
           \/ Reset
           \/ \E i \in Ids : Commit(i)
           \/ CommitFails
           \/ RollBack

Undo(i) == ClaimUndo(i) \/ Restore(i) \/ Unclaim(i) \/ ReportUndone(i)

Loop == \/ \E i \in Ids, kind \in {"ran", "undone"} : Fold(kind, i)
        \/ \E kept \in SUBSET Ids : Dropped(kept)

Next == \/ Execute
        \/ \E i \in Ids : Undo(i)
        \/ Loop
        \/ \E v \in Values : OthersWrite(v)
        \/ Crash
        \/ Restart

Spec == Init /\ [][Next]_vars

-----------------------------------------------------------------------------
(* Properties *)

Held == worker.at \in {"written", "unstored"} /\ worker.undo.applied = value

(* A row that can be undone, or is being undone, for the value there is. *)
Recorded == \E i \in Ids : /\ record[i].applied = value
                           /\ undone[i] = "no" \/ task[i] \in {"restoring", "failed"}

(* Unless something was cut off, a value that Eir has written can be taken *)
(* back: the executor still has its snapshot, or a row records it that is  *)
(* not latched as undone (persist_execution, its rollback, the claims).    *)
WayBackRecorded == ours /\ ~cutOff => Held \/ Recorded

(* The same, whatever dies: "Registry reset has crash-durable, exact-type  *)
(* undo" (ARCHITECTURE.md:1715).                                           *)
CrashDurable == ours => Held \/ Recorded

(* A row that has been undone is not restored a second time, however many  *)
(* clients ask for it (claim_registry_undo).                               *)
OnceOnly == \A i \in taken : undone[i] = "yes" /\ task[i] \notin {"restoring", "failed"}

(* An Undo button does what it says: its row can be undone, is being       *)
(* undone, or the report that retires the button is on its way.            *)
ButtonsWork ==
    ~cutOff => \A i \in buttons : \/ undone[i] = "no"
                                  \/ task[i] # "none"
                                  \/ <<"undone", i>> \in reports

=============================================================================
