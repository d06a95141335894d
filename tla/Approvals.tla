------------------------------ MODULE Approvals ------------------------------
(***************************************************************************)
(* The approval queue of eir-svc and everything that can execute a fix:    *)
(* the decision loop (eir-svc/src/main.rs), the durable rows it shares     *)
(* with the executor worker (eir-svc/src/audit.rs), the rate limiter       *)
(* (safety.rs), the stored preferences (prefs.rs), and what a crash, a     *)
(* graceful stop and a restart do to them.                                 *)
(*                                                                         *)
(* Three actors interleave at every await of the code: the loop (a handler *)
(* in progress is the value of `loop`), the serial executor worker and the *)
(* database they both write.  A key is FixAction::dedup_key, an id is the  *)
(* AUTOINCREMENT row id of migrations/0006, which is never reused.         *)
(***************************************************************************)
EXTENDS Naturals, Sequences, FiniteSets

CONSTANTS
    Ids,        \* approval row ids
    Keys,       \* semantic identities of fixes (dedup keys)
    NoId,       \* approval_id: None
    NoKey,      \* no key: the action_key of a row that was never inserted
    Whitelist,  \* keys policy.toml lets run without a card
    Scripts,    \* keys of PowerShellDiagnostic: can_always_approve is false
    Resets,     \* keys of RegistryReset: a success must commit its undo
    UserKeys,   \* keys a user can request by id: disk clean-up, startup toggle
    MaxActive,  \* MAX_ACTIVE_APPROVALS
    Breaker,    \* FAILURE_BREAKER_THRESHOLD
    MaxClicks,  \* bound of the model: accepted clicks per row
    DbFaults    \* whether a database call may fail

ASSUME IdsAssumption == NoId \notin Ids
ASSUME KeysAssumption == /\ NoKey \notin Keys
                         /\ Whitelist \subseteq Keys
                         /\ Scripts \subseteq Keys
                         /\ Resets \subseteq Keys
                         /\ UserKeys \subseteq Keys
ASSUME ScriptsNotWhitelisted == Scripts \cap Whitelist = {}
ASSUME BoundsAssumption == /\ MaxActive \in Nat
                           /\ Breaker \in Nat \ {0}
                           /\ MaxClicks \in Nat
                           /\ DbFaults \in BOOLEAN

VARIABLES
    status,     \* pending_approvals.status of each id, "absent" when no row
    keyOf,      \* pending_approvals.action_key; kept when the row is deleted
    pref,       \* action_preferences
    succ, fail, \* execution_log: rows of a key inside the rate-limit window
    mode,       \* "up", "draining" (the loop has stopped), "down"
    cards,      \* st.pending, the cards the tray shows
    inFlight,   \* st.in_flight
    loop,       \* the handler the decision loop is in, between two awaits
    queue,      \* exec_tx -> exec_rx
    worker,     \* the executor worker
    done,       \* exec_done_tx -> exec_done_rx
    clicks,     \* history: accepted approvals of each row
    runs        \* history: executions started on behalf of each row

dbVars      == <<status, keyOf, pref, succ, fail>>
loopVars    == <<cards, inFlight, loop>>
workerVars  == <<queue, worker, done>>
historyVars == <<clicks, runs>>
vars == <<dbVars, mode, loopVars, workerVars, historyVars>>

-----------------------------------------------------------------------------
(* Types *)

Status == {"absent", "pending", "approved", "rejected"}
Pref   == {"none", "ignore", "always"}
Job    == [key : Keys, id : Ids \cup {NoId}]

(* Where the loop is.  "select": waiting for an event.  "claim": an Always *)
(* Approve is saved, its card not claimed yet.  "preflight": a claimed row *)
(* awaits approved_action_ready.  "enqueue": every check that awaits has   *)
(* passed and the job is about to be sent; `by` tells which handler does   *)
(* it.  "retire": the handler is about to delete the row.                  *)
Loop == [at : {"select", "claim", "preflight", "enqueue", "retire"},
         by : {"none", "ai", "user", "click"},
         key : Keys \cup {NoKey}, id : Ids \cup {NoId}]

Worker == [at : {"idle", "running", "ran", "rollback"},
           key : Keys \cup {NoKey}, id : Ids \cup {NoId},
           outcome : {"none", "success", "failure", "synthetic"},
           requeue : BOOLEAN]

Outcome == [key : Keys, refresh : BOOLEAN]

Select == [at |-> "select", by |-> "none", key |-> NoKey, id |-> NoId]
Idle   == [at |-> "idle", key |-> NoKey, id |-> NoId,
           outcome |-> "none", requeue |-> FALSE]

TypeOK ==
    /\ status \in [Ids -> Status]
    /\ keyOf \in [Ids -> Keys \cup {NoKey}]
    /\ pref \in [Keys -> Pref]
    /\ succ \in [Keys -> Nat]
    /\ fail \in [Keys -> Nat]
    /\ mode \in {"up", "draining", "down"}
    /\ cards \subseteq Ids
    /\ inFlight \subseteq Keys
    /\ loop \in Loop
    /\ queue \in Seq(Job)
    /\ worker \in Worker
    /\ done \in Seq(Outcome)
    /\ clicks \in [Ids -> Nat]
    /\ runs \in [Ids -> Nat]
    /\ \A i \in Ids : status[i] # "absent" => keyOf[i] \in Keys
    /\ \A i \in cards : keyOf[i] \in Keys
    /\ loop.at # "select" => loop.key \in Keys
    /\ loop.at \in {"claim", "preflight", "retire"} => loop.by = "click"
    /\ loop.by = "click" => loop.id \in Ids
    /\ worker.at # "idle" => worker.key \in Keys

(* A first start on a database an earlier build may have left behind: such *)
(* a build could store Always Approve for a script (main.rs, startup).     *)
Init ==
    /\ status = [i \in Ids |-> "absent"]
    /\ keyOf = [i \in Ids |-> NoKey]
    /\ \E granted \in SUBSET Scripts :
          pref = [k \in Keys |-> IF k \in granted THEN "always" ELSE "none"]
    /\ succ = [k \in Keys |-> 0]
    /\ fail = [k \in Keys |-> 0]
    /\ mode = "down"
    /\ cards = {}
    /\ inFlight = {}
    /\ loop = Select
    /\ queue = << >>
    /\ worker = Idle
    /\ done = << >>
    /\ clicks = [i \in Ids |-> 0]
    /\ runs = [i \in Ids |-> 0]

-----------------------------------------------------------------------------
(* Helpers *)

Idling == mode = "up" /\ loop = Select

(* safety::rate_limited *)
RateLimited(k) == succ[k] > 0 \/ fail[k] >= Breaker

(* The dedup test of the routing code: a card or a job of the same key. *)
Carded(k) == \E i \in cards : keyOf[i] = k
Duplicate(k) == k \in inFlight \/ Carded(k)

(* Rows that count against MAX_ACTIVE_APPROVALS and that the partial       *)
(* unique index of migrations/0017 covers.                                 *)
Active == {i \in Ids : status[i] \in {"pending", "approved"}}
Insertable(k) == /\ Cardinality(Active) < MaxActive
                 /\ \A i \in Active : keyOf[i] # k

(* FixAction::can_always_approve *)
CanAlwaysApprove(k) == k \notin Scripts

(* Verdicts ExecutionPolicy::evaluate may give a key that the blocklists   *)
(* and the confidence threshold let through (a Block leaves no trace here).*)
AutoApproved(k) == k \in Whitelist

(* What the lookup of a stored preference can return on the analysis path: *)
(* an error is logged and treated as no preference.                        *)
Looked(k) == {pref[k]} \cup (IF DbFaults THEN {"none"} ELSE {})

-----------------------------------------------------------------------------
(* Routing a fix: the per-problem loop of the analysis_done_rx arm and     *)
(* route_user_action.                                                      *)

At(where, by, k, i) == [at |-> where, by |-> by, key |-> k, id |-> i]

(* Mutant: a stored preference runs whatever it was stored for. *)
RouteAutoAnyGrant(k) ==
    /\ Idling
    /\ AutoApproved(k) \/ "always" \in Looked(k)
    /\ ~RateLimited(k)
    /\ loop' = At("enqueue", "ai", k, NoId)
    /\ UNCHANGED <<dbVars, mode, cards, inFlight, workerVars, historyVars>>

(* Analysis path, AutoApprove: the rate limit is read first, the in-memory *)
(* dedup test comes after that await (see Enqueue).                        *)
RouteAuto(k) ==
    /\ Idling
    /\ AutoApproved(k) \/ ("always" \in Looked(k) /\ CanAlwaysApprove(k))
    /\ ~RateLimited(k)
    /\ loop' = At("enqueue", "ai", k, NoId)
    /\ UNCHANGED <<dbVars, mode, cards, inFlight, workerVars, historyVars>>

(* route_user_action, AutoApprove: the dedup test comes first. *)
RouteUserAuto(k) ==
    /\ Idling
    /\ k \in UserKeys
    /\ AutoApproved(k)
    /\ ~Duplicate(k)
    /\ ~RateLimited(k)
    /\ loop' = At("enqueue", "user", k, NoId)
    /\ UNCHANGED <<dbVars, mode, cards, inFlight, workerVars, historyVars>>

(* Mutant: the row is written without its action_key. *)
InsertCardKeyless(i, k) ==
    /\ Idling
    /\ ~Duplicate(k)
    /\ Insertable(k)
    /\ keyOf[i] = NoKey
    /\ status' = [status EXCEPT ![i] = "pending"]
    /\ cards' = cards \cup {i}
    /\ UNCHANGED <<keyOf, pref, succ, fail, mode, inFlight, loop, workerVars,
                   historyVars>>

(* insert_pending_approval and the card that mirrors the row. *)
InsertCard(i, k) ==
    /\ Idling
    /\ ~Duplicate(k)
    /\ Insertable(k)
    /\ keyOf[i] = NoKey
    /\ status' = [status EXCEPT ![i] = "pending"]
    /\ keyOf' = [keyOf EXCEPT ![i] = k]
    /\ cards' = cards \cup {i}
    /\ UNCHANGED <<pref, succ, fail, mode, inFlight, loop, workerVars,
                   historyVars>>

RouteCard(i, k) ==
    /\ ~AutoApproved(k)
    /\ \/ "none" \in Looked(k)
       \/ "always" \in Looked(k) /\ ~CanAlwaysApprove(k)
    /\ InsertCard(i, k)

(* The user path ignores preferences, and force_approval turns a           *)
(* whitelisted key into a card as well.                                    *)
RouteUserCard(i, k) ==
    /\ k \in UserKeys
    /\ InsertCard(i, k)

-----------------------------------------------------------------------------
(* Decisions of the user: UiMsg::Approve, SetActionPreference and          *)
(* ClearActionPreference.  The id of a message may be stale: any id is     *)
(* tried, and claim_pending_approval accepts only a pending row.           *)

(* Mutant: a claimed row keeps its card. *)
ClaimKeepsCard(i) ==
    /\ status[i] = "pending"
    /\ clicks[i] < MaxClicks
    /\ status' = [status EXCEPT ![i] = "approved"]
    /\ clicks' = [clicks EXCEPT ![i] = @ + 1]
    /\ loop' = At("preflight", "click", keyOf[i], i)
    /\ UNCHANGED <<keyOf, succ, fail, mode, cards, inFlight, workerVars, runs>>

(* Mutant: the claim also takes a row the user has rejected. *)
ClaimRejected(i) ==
    /\ status[i] \in {"pending", "rejected"}
    /\ clicks[i] < MaxClicks
    /\ status' = [status EXCEPT ![i] = "approved"]
    /\ cards' = cards \ {i}
    /\ clicks' = [clicks EXCEPT ![i] = @ + 1]
    /\ loop' = At("preflight", "click", keyOf[i], i)
    /\ UNCHANGED <<keyOf, succ, fail, mode, inFlight, workerVars, runs>>

Claim(i) ==
    /\ status[i] = "pending"
    /\ clicks[i] < MaxClicks
    /\ status' = [status EXCEPT ![i] = "approved"]
    /\ cards' = cards \ {i}
    /\ clicks' = [clicks EXCEPT ![i] = @ + 1]
    /\ loop' = At("preflight", "click", keyOf[i], i)
    /\ UNCHANGED <<keyOf, succ, fail, mode, inFlight, workerVars, runs>>

Approve(i) ==
    /\ Idling
    /\ Claim(i)
    /\ UNCHANGED pref

Reject(i) ==
    /\ Idling
    /\ status[i] = "pending"
    /\ status' = [status EXCEPT ![i] = "rejected"]
    /\ cards' = cards \ {i}
    /\ loop' = At("retire", "click", keyOf[i], i)
    /\ UNCHANGED <<keyOf, pref, succ, fail, mode, inFlight, workerVars,
                   historyVars>>

Ignore(i) ==
    /\ Idling
    /\ i \in cards
    /\ pref' = [pref EXCEPT ![keyOf[i]] = "ignore"]
    /\ cards' = cards \ {i}
    /\ loop' = At("retire", "click", keyOf[i], i)
    /\ UNCHANGED <<status, keyOf, succ, fail, mode, inFlight, workerVars,
                   historyVars>>

AlwaysApprove(i) ==
    /\ Idling
    /\ i \in cards
    /\ CanAlwaysApprove(keyOf[i])
    /\ clicks[i] < MaxClicks
    /\ pref' = [pref EXCEPT ![keyOf[i]] = "always"]
    /\ loop' = At("claim", "click", keyOf[i], i)
    /\ UNCHANGED <<status, keyOf, succ, fail, mode, cards, inFlight,
                   workerVars, historyVars>>

(* The second half of AlwaysApprove: the claim, which finds the row no     *)
(* longer pending, fails, or takes the row.                                *)
ClaimAlways ==
    /\ loop.at = "claim"
    /\ \/ Claim(loop.id) /\ UNCHANGED pref
       \/ /\ DbFaults \/ status[loop.id] # "pending"
          /\ loop' = Select
          /\ UNCHANGED <<dbVars, mode, cards, inFlight, workerVars, historyVars>>

ClearPreference(k) ==
    /\ Idling
    /\ pref[k] # "none"
    /\ pref' = [pref EXCEPT ![k] = "none"]
    /\ UNCHANGED <<status, keyOf, succ, fail, mode, loopVars, workerVars,
                   historyVars>>

(* Mutants: an approved row skips the rate limit; a refused row is kept. *)
PreflightUnlimited ==
    /\ loop.at = "preflight"
    /\ loop' = [loop EXCEPT !.at = "enqueue"]
    /\ UNCHANGED <<dbVars, mode, cards, inFlight, workerVars, historyVars>>

PreflightKeepsRow ==
    /\ loop.at = "preflight"
    /\ loop' = Select
    /\ UNCHANGED <<dbVars, mode, cards, inFlight, workerVars, historyVars>>

(* approved_action_ready: Ok, Resolved (blocked by the current policy, or  *)
(* rate limited) and Retry (the database failed; the row stays approved).  *)
PreflightPasses ==
    /\ loop.at = "preflight"
    /\ ~RateLimited(loop.key)
    /\ loop' = [loop EXCEPT !.at = "enqueue"]
    /\ UNCHANGED <<dbVars, mode, cards, inFlight, workerVars, historyVars>>

PreflightRefuses ==
    /\ loop.at = "preflight"
    /\ loop' = [loop EXCEPT !.at = "retire"]
    /\ UNCHANGED <<dbVars, mode, cards, inFlight, workerVars, historyVars>>

PreflightFails ==
    /\ loop.at = "preflight"
    /\ DbFaults
    /\ loop' = Select
    /\ UNCHANGED <<dbVars, mode, cards, inFlight, workerVars, historyVars>>

(* Mutants: an executing fix is not retired; an executing fix runs again. *)
EnqueueForgets ==
    /\ loop.at = "enqueue" /\ loop.by = "click"
    /\ loop.key \in inFlight
    /\ loop' = Select
    /\ UNCHANGED <<dbVars, mode, cards, inFlight, workerVars, historyVars>>

EnqueueTwice ==
    /\ loop.at = "enqueue"
    /\ loop.by = "ai" => ~Duplicate(loop.key)
    /\ inFlight' = inFlight \cup {loop.key}
    /\ queue' = Append(queue, [key |-> loop.key, id |-> loop.id])
    /\ loop' = Select
    /\ UNCHANGED <<dbVars, mode, cards, worker, done, historyVars>>

(* in_flight.insert and exec_tx.send.  Only the analysis path tests for a  *)
(* duplicate here, and only a click finds its key already in flight: it    *)
(* then retires the row.  A send cannot fail while the worker holds the    *)
(* receiver, so the "executor unavailable" branches have no step.          *)
EnqueueSkips ==
    /\ loop.at = "enqueue" /\ loop.by = "ai"
    /\ Duplicate(loop.key)
    /\ loop' = Select
    /\ UNCHANGED <<dbVars, mode, cards, inFlight, workerVars, historyVars>>

EnqueueRetires ==
    /\ loop.at = "enqueue" /\ loop.by = "click"
    /\ loop.key \in inFlight
    /\ loop' = [loop EXCEPT !.at = "retire"]
    /\ UNCHANGED <<dbVars, mode, cards, inFlight, workerVars, historyVars>>

EnqueueSends ==
    /\ loop.at = "enqueue"
    /\ loop.by = "ai" => ~Duplicate(loop.key)
    /\ loop.by = "click" => loop.key \notin inFlight
    /\ inFlight' = inFlight \cup {loop.key}
    /\ queue' = Append(queue, [key |-> loop.key, id |-> loop.id])
    /\ loop' = Select
    /\ UNCHANGED <<dbVars, mode, cards, worker, done, historyVars>>

(* delete_pending_approval, best effort. *)
Retire ==
    /\ loop.at = "retire"
    /\ \/ status' = [status EXCEPT ![loop.id] = "absent"]
       \/ DbFaults /\ UNCHANGED status
    /\ loop' = Select
    /\ UNCHANGED <<keyOf, pref, succ, fail, mode, cards, inFlight, workerVars,
                   historyVars>>

-----------------------------------------------------------------------------
(* The executor worker (spawn_executor) and audit::persist_execution.      *)

Start ==
    /\ worker.at = "idle"
    /\ queue # << >>
    /\ worker' = [Idle EXCEPT !.at = "running", !.key = Head(queue).key,
                             !.id = Head(queue).id]
    /\ queue' = Tail(queue)
    /\ runs' = IF Head(queue).id \in Ids
               THEN [runs EXCEPT ![Head(queue).id] = @ + 1]
               ELSE runs
    /\ UNCHANGED <<dbVars, mode, loopVars, done, clicks>>

(* executor::execute returns, or the worker gives up on it: a panic and a  *)
(* timeout are the same synthetic failure, which sends an approved row     *)
(* back to the queue.                                                      *)
Finish ==
    /\ worker.at = "running"
    /\ \E o \in {"success", "failure", "synthetic"} :
          worker' = [worker EXCEPT !.at = "ran", !.outcome = o,
                        !.requeue = (o = "synthetic" /\ worker.id # NoId)]
    /\ UNCHANGED <<dbVars, mode, loopVars, queue, done, historyVars>>

(* The ExecOutcome goes to the loop, or nowhere once the loop has stopped. *)
Report(refresh) ==
    /\ done' = IF mode = "up"
               THEN Append(done, [key |-> worker.key, refresh |-> refresh])
               ELSE done
    /\ worker' = Idle

(* "approved action changed before completion": the transaction fails      *)
(* unless the row it must delete or requeue is still approved.             *)
Committable == worker.id # NoId => status[worker.id] = "approved"

Commit ==
    /\ worker.at = "ran"
    /\ Committable
    /\ IF worker.outcome = "success"
       THEN succ' = [succ EXCEPT ![worker.key] = @ + 1] /\ UNCHANGED fail
       ELSE fail' = [fail EXCEPT ![worker.key] = @ + 1] /\ UNCHANGED succ
    /\ status' = IF worker.id = NoId THEN status
                 ELSE [status EXCEPT ![worker.id] =
                          IF worker.requeue THEN "pending" ELSE "absent"]
    /\ Report(worker.requeue)
    /\ UNCHANGED <<keyOf, pref, mode, loopVars, queue, historyVars>>

(* The transaction failed.  A reset that had succeeded is rolled back in   *)
(* the registry before anything else; any other row stays approved.        *)
CommitFails ==
    /\ worker.at = "ran"
    /\ DbFaults \/ ~Committable
    /\ IF worker.outcome = "success" /\ worker.key \in Resets
       THEN worker' = [worker EXCEPT !.at = "rollback"] /\ UNCHANGED done
       ELSE Report(FALSE)
    /\ UNCHANGED <<dbVars, mode, loopVars, queue, historyVars>>

(* registry::restore_value.  When it works the run is logged as a failure  *)
(* in a second transaction, which requeues the row; when it fails, or no   *)
(* snapshot exists, the row is retained as approved.                       *)
RollBack ==
    /\ worker.at = "rollback"
    /\ \/ /\ worker' = [worker EXCEPT !.at = "ran", !.outcome = "failure",
                                      !.requeue = (worker.id # NoId)]
          /\ UNCHANGED done
       \/ Report(FALSE)
    /\ UNCHANGED <<dbVars, mode, loopVars, queue, historyVars>>

(* load_pending_approvals: it deletes the rejected tombstones, then returns *)
(* the pending rows; a failure may come before or after the deletion.      *)
Swept(st) == [i \in Ids |-> IF st[i] = "rejected" THEN "absent" ELSE st[i]]
PendingRows(st) == {i \in Ids : st[i] = "pending"}

(* The exec_done_rx arm. *)
(* Mutant: the key of a requeued approval stays in flight. *)
FoldKeepsRequeued ==
    /\ Idling
    /\ done # << >>
    /\ done' = Tail(done)
    /\ IF Head(done).refresh
       THEN /\ status' = Swept(status)
            /\ cards' = PendingRows(status)
            /\ UNCHANGED inFlight
       ELSE /\ inFlight' = inFlight \ {Head(done).key}
            /\ UNCHANGED <<status, cards>>
    /\ UNCHANGED <<keyOf, pref, succ, fail, mode, loop, queue, worker,
                   historyVars>>

FoldOutcome ==
    /\ Idling
    /\ done # << >>
    /\ done' = Tail(done)
    /\ inFlight' = inFlight \ {Head(done).key}
    /\ \/ Head(done).refresh /\ status' = Swept(status) /\ cards' = PendingRows(status)
       \/ /\ Head(done).refresh /\ DbFaults
          /\ status' \in {status, Swept(status)}
          /\ UNCHANGED cards
       \/ ~Head(done).refresh /\ UNCHANGED <<status, cards>>
    /\ UNCHANGED <<keyOf, pref, succ, fail, mode, loop, queue, worker,
                   historyVars>>

-----------------------------------------------------------------------------
(* The process and the clock *)

(* Shutdown wins the outer select!: the loop future is dropped at whatever *)
(* await it is in, and exec_tx with it.  The worker drains its queue.      *)
Stop ==
    /\ mode = "up"
    /\ mode' = "draining"
    /\ cards' = {}
    /\ inFlight' = {}
    /\ loop' = Select
    /\ done' = << >>
    /\ UNCHANGED <<dbVars, queue, worker, historyVars>>

(* The process ends and its memory with it.  A worker that is cut off may  *)
(* already have changed the machine.                                       *)
Ends ==
    /\ mode' = "down"
    /\ cards' = {}
    /\ inFlight' = {}
    /\ loop' = Select
    /\ queue' = << >>
    /\ worker' = Idle
    /\ done' = << >>
    /\ UNCHANGED <<dbVars, historyVars>>

Crash == mode = "up" /\ Ends

(* The drain is over: the queue is empty or 20 s have passed. *)
Exit == mode = "draining" /\ Ends

(* Startup: requeue_claimed_approvals_on_startup, load_pending_approvals   *)
(* and clear_always_approve for scripts, each of which may fail on its own *)
(* without stopping the service.                                           *)
Requeued == [i \in Ids |-> IF status[i] = "approved" THEN "pending" ELSE status[i]]
ScriptGrantsCleared ==
    [k \in Keys |-> IF k \in Scripts /\ pref[k] = "always" THEN "none" ELSE pref[k]]

(* Mutant: the startup runs what was approved before the crash. *)
RestartReplays ==
    /\ mode = "down"
    /\ mode' = "up"
    /\ queue' \in {<< >>} \cup {<<[key |-> keyOf[i], id |-> i]>> :
                                  i \in {j \in Ids : status[j] = "approved"}}
    /\ inFlight' = {queue'[n].key : n \in DOMAIN queue'}
    /\ cards' = PendingRows(status)
    /\ UNCHANGED <<status, keyOf, pref, succ, fail, loop, worker, done,
                   historyVars>>

Restart ==
    /\ mode = "down"
    /\ mode' = "up"
    /\ \E requeued \in {Requeued} \cup (IF DbFaults THEN {status} ELSE {}) :
          \/ status' = Swept(requeued) /\ cards' = PendingRows(requeued)
          \/ /\ DbFaults
             /\ status' \in {requeued, Swept(requeued)}
             /\ cards' = {}
    /\ pref' \in {ScriptGrantsCleared} \cup (IF DbFaults THEN {pref} ELSE {})
    /\ UNCHANGED <<keyOf, succ, fail, inFlight, loop, workerVars, historyVars>>

(* Rows of execution_log leave the rate-limit window as time passes. *)
WindowSlides(k) ==
    /\ \E s \in 0 .. succ[k], f \in 0 .. fail[k] :
          /\ s + f < succ[k] + fail[k]
          /\ succ' = [succ EXCEPT ![k] = s]
          /\ fail' = [fail EXCEPT ![k] = f]
    /\ UNCHANGED <<status, keyOf, pref, mode, loopVars, workerVars, historyVars>>

-----------------------------------------------------------------------------

Route == \E k \in Keys : \/ RouteAuto(k)
                         \/ RouteUserAuto(k)
                         \/ \E i \in Ids : RouteCard(i, k) \/ RouteUserCard(i, k)

Decide == \/ \E i \in Ids : Approve(i) \/ Reject(i) \/ Ignore(i) \/ AlwaysApprove(i)
          \/ \E k \in Keys : ClearPreference(k)

Handle == \/ ClaimAlways
          \/ PreflightPasses \/ PreflightRefuses \/ PreflightFails
          \/ EnqueueSkips \/ EnqueueRetires \/ EnqueueSends
          \/ Retire

Work == Start \/ Finish \/ Commit \/ CommitFails \/ RollBack

Environment == Stop \/ Crash \/ Exit \/ Restart \/ \E k \in Keys : WindowSlides(k)

Next == Route \/ Decide \/ Handle \/ Work \/ FoldOutcome \/ Environment

Spec == Init /\ [][Next]_vars

(* A handler runs to its end and the worker, whose every call is bounded   *)
(* by a timeout, never stops.  select! polls its ready branches in random  *)
(* order, so an outcome that keeps waiting is eventually taken although    *)
(* other events compete with it.  A stopped service is started again: it   *)
(* is registered AutoStart.                                                *)
Fairness == /\ WF_vars(Handle)
            /\ WF_vars(Work)
            /\ SF_vars(FoldOutcome)
            /\ WF_vars(Exit)
            /\ WF_vars(Restart)

FairSpec == Spec /\ Fairness

-----------------------------------------------------------------------------
(* Properties *)

QueuedKeys   == {queue[n].key : n \in DOMAIN queue}
QueuedIds    == {queue[n].id : n \in DOMAIN queue}
UnfoldedKeys == {done[n].key : n \in DOMAIN done}
WorkerKeys   == IF worker.at = "idle" THEN {} ELSE {worker.key}

(* Eir never replays an approved fix: whatever crashes, times out, is      *)
(* requeued or is clicked twice, a row's action is started at most once    *)
(* per decision the user made on it.                                       *)
OneRunPerClick == \A i \in Ids : runs[i] <= clicks[i]

(* st.in_flight names the fixes the worker owes an answer for, exactly: a  *)
(* key too many and the fix is skipped for ever and the tray is latched on *)
(* "Executing"; one too few and the same fix can run twice at once.        *)
InFlightExact ==
    mode = "up" =>
        /\ inFlight = QueuedKeys \cup WorkerKeys \cup UnfoldedKeys
        /\ \A m, n \in DOMAIN queue : queue[m].key = queue[n].key => m = n
        /\ QueuedKeys \cap (WorkerKeys \cup UnfoldedKeys) = {}

(* The rate limit is read long before the job runs, and other jobs are     *)
(* logged in between.  Still nothing waits or runs whose key has succeeded *)
(* or has tripped the circuit breaker inside the window.                   *)
BreakerHolds ==
    \A k \in QueuedKeys \cup WorkerKeys : succ[k] = 0 /\ fail[k] < Breaker

(* A card the tray shows can still be decided: its row is pending.         *)
CardsDecidable == \A i \in cards : status[i] = "pending"

(* Every approved row is in somebody's hands, so the user's decision is    *)
(* carried out or handed back without waiting for a restart.  It holds     *)
(* only while the database works (see the README).                         *)
NothingStranded ==
    mode = "up" =>
        \A i \in Ids : status[i] = "approved" =>
            loop.id = i \/ worker.id = i \/ i \in QueuedIds

(* A script never runs without its own click, whatever preference an       *)
(* earlier build has stored.                                               *)
ScriptsOnlyByClick ==
    /\ \A n \in DOMAIN queue : queue[n].key \in Scripts => queue[n].id # NoId
    /\ worker.key \in Scripts => worker.id # NoId

(* An approved row is dropped as "already executing" only while the worker *)
(* really has that fix (main.rs, "Approved action already executing").     *)
DroppedOnlyIfExecuting ==
    [][EnqueueRetires => loop.key \in QueuedKeys \cup WorkerKeys]_vars

(* No job is forgotten: its key leaves in_flight. *)
InFlightReleased == \A k \in Keys : k \in inFlight ~> k \notin inFlight

(* Every recorded decision is settled: the row goes, or is shown again. *)
DecisionsSettle == \A i \in Ids : status[i] = "approved" ~> status[i] # "approved"

-----------------------------------------------------------------------------
(* Refinement of the contract the queue offers the user.                   *)

Phase(i) ==
    CASE status[i] = "pending"  -> "open"
      [] status[i] = "rejected" -> "closed"
      [] status[i] = "absent"   -> IF keyOf[i] = NoKey THEN "unborn" ELSE "closed"
      [] status[i] = "approved" -> IF worker.id = i THEN "started"
                                   ELSE IF loop.id = i \/ i \in QueuedIds
                                   THEN "granted" ELSE "lost"

phases == [i \in Ids |-> Phase(i)]

Contract == INSTANCE ApprovalContract WITH phase <- phases

(* The queue keeps the contract. *)
ContractKept == Contract!Spec

=============================================================================
