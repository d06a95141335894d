--------------------------- MODULE Approvals_proofs ---------------------------
(***************************************************************************)
(* Theorems about Approvals, for every set of rows and keys and every      *)
(* bound.                                                                  *)
(***************************************************************************)
EXTENDS Approvals, TLAPS

USE IdsAssumption, KeysAssumption, ScriptsNotWhitelisted, BoundsAssumption

(***************************************************************************)
(* Sequences used as queues: what Append and Tail do to the elements.      *)
(***************************************************************************)
LEMMA AppendElements ==
    ASSUME NEW S, NEW q \in Seq(S), NEW e \in S
    PROVE  /\ Append(q, e) \in Seq(S)
           /\ DOMAIN Append(q, e) = DOMAIN q \cup {Len(q) + 1}
           /\ \A n \in DOMAIN q : Append(q, e)[n] = q[n] /\ n # Len(q) + 1
           /\ Append(q, e)[Len(q) + 1] = e
  OBVIOUS

LEMMA TailElements ==
    ASSUME NEW S, NEW q \in Seq(S), q # << >>
    PROVE  /\ Tail(q) \in Seq(S)
           /\ 1 \in DOMAIN q /\ Head(q) = q[1] /\ Head(q) \in S
           /\ \A n \in DOMAIN Tail(q) : /\ n + 1 \in DOMAIN q
                                        /\ n + 1 # 1
                                        /\ Tail(q)[n] = q[n + 1]
           /\ \A n \in DOMAIN q \ {1} : /\ n - 1 \in DOMAIN Tail(q)
                                        /\ Tail(q)[n - 1] = q[n]
  OBVIOUS

(***************************************************************************)
(* The variables keep their types.                                         *)
(***************************************************************************)
LEMMA TypeInit == Init => TypeOK
  BY DEF Init, TypeOK, Status, Pref, Loop, Worker, Select, Idle

LEMMA ReportType ==
    ASSUME TypeOK, worker.at # "idle", NEW refresh \in BOOLEAN, Report(refresh)
    PROVE  done' \in Seq(Outcome) /\ worker' = Idle
  BY AppendElements DEF TypeOK, Report, Outcome

LEMMA TypeStep == TypeOK /\ [Next]_vars => TypeOK'
<1> SUFFICES ASSUME TypeOK, [Next]_vars PROVE TypeOK'
  OBVIOUS
<1> USE DEF TypeOK, dbVars, loopVars, workerVars, historyVars
<1>1. ASSUME NEW k \in Keys, RouteAuto(k) \/ RouteUserAuto(k) PROVE TypeOK'
  BY <1>1 DEF RouteAuto, RouteUserAuto, Loop, At
<1>2. ASSUME NEW k \in Keys, NEW i \in Ids, InsertCard(i, k) PROVE TypeOK'
  BY <1>2 DEF InsertCard, Status
<1>3. ASSUME NEW i \in Ids, Claim(i), UNCHANGED pref PROVE TypeOK'
  BY <1>3 DEF Claim, Status, Loop, At
<1>4. ASSUME NEW i \in Ids, Reject(i) PROVE TypeOK'
  BY <1>4 DEF Reject, Status, Loop, At
<1>5. ASSUME NEW i \in Ids, Ignore(i) PROVE TypeOK'
  BY <1>5 DEF Ignore, Pref, Loop, At
<1>6. ASSUME NEW i \in Ids, AlwaysApprove(i) PROVE TypeOK'
  BY <1>6 DEF AlwaysApprove, Pref, Loop, At
<1>7. ASSUME NEW k \in Keys, ClearPreference(k) PROVE TypeOK'
  BY <1>7 DEF ClearPreference, Pref
<1>8. CASE ClaimAlways /\ ~(Claim(loop.id) /\ UNCHANGED pref)
  BY <1>8 DEF ClaimAlways, Loop, Select
<1>9. CASE PreflightPasses \/ PreflightRefuses \/ PreflightFails
  <2>1. CASE PreflightPasses
    BY <2>1 DEF PreflightPasses, Loop
  <2>2. CASE PreflightRefuses
    BY <2>2 DEF PreflightRefuses, Loop
  <2>3. CASE PreflightFails
    BY <2>3 DEF PreflightFails, Loop, Select
  <2>4. QED BY <1>9, <2>1, <2>2, <2>3
<1>10. CASE EnqueueSkips \/ EnqueueRetires
  <2>1. CASE EnqueueSkips
    BY <2>1 DEF EnqueueSkips, Loop, Select
  <2>2. CASE EnqueueRetires
    BY <2>2 DEF EnqueueRetires, Loop
  <2>3. QED BY <1>10, <2>1, <2>2
<1>11. CASE EnqueueSends
  BY <1>11, AppendElements DEF EnqueueSends, Loop, Select, Job
<1>12. CASE Retire
  BY <1>12 DEF Retire, Loop, Select, Status
<1>13. CASE Start
  <2>1. /\ Head(queue).key \in Keys /\ Head(queue).id \in Ids \cup {NoId}
        /\ Tail(queue) \in Seq(Job)
    <3>1. Head(queue) \in Job /\ Tail(queue) \in Seq(Job)
      BY <1>13, TailElements DEF Start
    <3>2. QED BY <3>1 DEF Job
  <2>2. worker' \in Worker /\ worker'.key \in Keys
    BY <1>13, <2>1 DEF Start, Worker, Idle
  <2>3. runs' \in [Ids -> Nat]
    BY <1>13 DEF Start
  <2>4. QED BY <1>13, <2>1, <2>2, <2>3 DEF Start
<1>14. CASE Finish
  BY ZenonT(30), <1>14 DEF Finish, Worker
<1>15. CASE Commit
  <2>1. succ' \in [Keys -> Nat] /\ fail' \in [Keys -> Nat]
    <3> worker.key \in Keys
      BY <1>15 DEF Commit
    <3>1. CASE worker.outcome = "success"
      <4>1. succ' = [succ EXCEPT ![worker.key] = @ + 1] /\ fail' = fail
        BY <1>15, <3>1 DEF Commit
      <4>2. QED BY <4>1
    <3>2. CASE worker.outcome # "success"
      BY <1>15, <3>2 DEF Commit
    <3>3. QED BY <3>1, <3>2
  <2>2. /\ status' \in [Ids -> Status]
        /\ \A i \in Ids : status'[i] # "absent" => status[i] # "absent" \/ i = worker.id
    BY <1>15 DEF Commit, Status
  <2>3. \A i \in Ids : status'[i] # "absent" => keyOf[i] \in Keys
    BY <1>15, <2>2 DEF Commit, Committable
  <2>4. done' \in Seq(Outcome) /\ worker' = Idle
    BY <1>15, ReportType DEF Commit, Worker
  <2>5. QED BY <1>15, <2>1, <2>2, <2>3, <2>4 DEF Commit, Worker, Idle
<1>16. CASE CommitFails
  <2>1. CASE Report(FALSE)
    <3>1. done' \in Seq(Outcome) /\ worker' = Idle
      BY <1>16, <2>1, ReportType DEF CommitFails
    <3>2. QED BY <1>16, <3>1 DEF CommitFails, Worker, Idle
  <2>2. CASE worker' = [worker EXCEPT !.at = "rollback"] /\ UNCHANGED done
    BY <1>16, <2>2 DEF CommitFails, Worker
  <2>3. QED BY <1>16, <2>1, <2>2 DEF CommitFails
<1>17. CASE RollBack
  <2>1. CASE Report(FALSE)
    <3>1. done' \in Seq(Outcome) /\ worker' = Idle
      BY <1>17, <2>1, ReportType DEF RollBack
    <3>2. QED BY <1>17, <3>1 DEF RollBack, Worker, Idle
  <2>2. CASE ~Report(FALSE)
    BY <1>17, <2>2 DEF RollBack, Worker
  <2>3. QED BY <2>1, <2>2
<1>18. CASE FoldOutcome
  <2>1. done' \in Seq(Outcome)
    BY <1>18, TailElements DEF FoldOutcome
  <2>2. status' \in {status, Swept(status)} /\ cards' \in {cards, PendingRows(status)}
    BY <1>18 DEF FoldOutcome
  <2>3. /\ status' \in [Ids -> Status]
        /\ \A i \in Ids : status'[i] # "absent" => keyOf[i] \in Keys
        /\ cards' \subseteq Ids /\ \A i \in cards' : keyOf[i] \in Keys
    BY <2>2 DEF Swept, PendingRows, Status
  <2>4. QED BY <1>18, <2>1, <2>3 DEF FoldOutcome
<1>19. CASE Stop \/ Crash \/ Exit
  <2>1. Select \in Loop /\ Idle \in Worker /\ Select.at = "select" /\ Idle.at = "idle"
        /\ Select.by = "none"
    BY DEF Select, Loop, Idle, Worker
  <2>2. CASE Stop
    BY <2>1, <2>2 DEF Stop
  <2>3. CASE Ends
    BY <2>1, <2>3 DEF Ends
  <2>4. QED BY <1>19, <2>2, <2>3 DEF Crash, Exit
<1>20. CASE Restart
  <2>1. PICK requeued \in {Requeued, status} :
           status' \in {requeued, Swept(requeued)} /\ cards' \in {{}, PendingRows(requeued)}
    BY <1>20 DEF Restart
  <2>2. /\ requeued \in [Ids -> Status]
        /\ \A i \in Ids : requeued[i] # "absent" => keyOf[i] \in Keys
    BY DEF Requeued, Status
  <2>3. /\ status' \in [Ids -> Status]
        /\ \A i \in Ids : status'[i] # "absent" => keyOf[i] \in Keys
        /\ cards' \subseteq Ids /\ \A i \in cards' : keyOf[i] \in Keys
    BY <2>1, <2>2 DEF Swept, PendingRows, Status
  <2>4. pref' \in [Keys -> Pref]
    BY <1>20 DEF Restart, ScriptGrantsCleared, Pref
  <2>5. QED BY <1>20, <2>3, <2>4 DEF Restart
<1>21. ASSUME NEW k \in Keys, WindowSlides(k) PROVE TypeOK'
  BY <1>21 DEF WindowSlides
<1>22. CASE UNCHANGED vars
  BY <1>22 DEF vars
<1>23. QED
  BY <1>1, <1>2, <1>3, <1>4, <1>5, <1>6, <1>7, <1>8, <1>9, <1>10, <1>11, <1>12, <1>13,
     <1>14, <1>15, <1>16, <1>17, <1>18, <1>19, <1>20, <1>21, <1>22
  DEF Next, Route, RouteCard, RouteUserCard, Decide, Approve, Handle, ClaimAlways, Loop,
      Work, Environment

THEOREM TypeCorrect == Spec => []TypeOK
  BY TypeInit, TypeStep, PTL DEF Spec

(***************************************************************************)
(* The inductive invariant.  The properties are not inductive alone: that  *)
(* a start is always paid for needs to know that every job still waiting   *)
(* belongs to an approved row with a click to spare, and that no two       *)
(* places hold the same row; that needs the keys of the jobs to be         *)
(* distinct, which rests on in_flight being exact.                         *)
(***************************************************************************)

\* A claimed row whose click has not been spent.
Waiting(i, k) == status[i] = "approved" /\ keyOf[i] = k /\ runs[i] < clicks[i]

\* The worker does not have the row.
Unheld(i) == (\A n \in DOMAIN queue : queue[n].id # i) /\ worker.id # i

ModeInv ==
    /\ mode = "down" => queue = << >> /\ worker = Idle
    /\ mode # "up" => cards = {} /\ inFlight = {} /\ loop = Select /\ done = << >>

LoopInv ==
    /\ loop.at = "preflight" \/ (loop.at = "enqueue" /\ loop.by = "click")
          => Waiting(loop.id, loop.key) /\ Unheld(loop.id)
    /\ loop.at = "retire" => Unheld(loop.id) /\ loop.id \notin cards
    /\ loop.at = "enqueue" =>
          /\ loop.by # "none"
          /\ loop.by # "click" => loop.id = NoId /\ loop.key \notin Scripts
          /\ loop.by = "user" => loop.key \notin inFlight
          /\ loop.key \notin inFlight => ~RateLimited(loop.key)

QueueInv ==
    \A n \in DOMAIN queue :
        /\ queue[n].id \in Ids => /\ Waiting(queue[n].id, queue[n].key)
                                  /\ worker.id # queue[n].id
        /\ ~RateLimited(queue[n].key)
        /\ queue[n].key \in Scripts => queue[n].id # NoId

WorkerInv ==
    /\ worker.at = "idle" => worker = Idle
    /\ worker.at # "idle" => ~RateLimited(worker.key)
    /\ worker.id \in Ids => status[worker.id] = "approved" /\ keyOf[worker.id] = worker.key
    /\ worker.key \in Scripts => worker.id # NoId

KeysInv ==
    /\ \A m, n \in DOMAIN queue : queue[m].key = queue[n].key => m = n
    /\ \A m, n \in DOMAIN done : done[m].key = done[n].key => m = n
    /\ \A m \in DOMAIN queue, n \in DOMAIN done : queue[m].key # done[n].key
    /\ worker.at # "idle" => /\ \A n \in DOMAIN queue : queue[n].key # worker.key
                            /\ \A n \in DOMAIN done : done[n].key # worker.key
    /\ mode = "up" =>
          \A k \in Keys : k \in inFlight <=>
              \/ \E n \in DOMAIN queue : queue[n].key = k
              \/ worker.at # "idle" /\ worker.key = k
              \/ \E n \in DOMAIN done : done[n].key = k

IInv == /\ TypeOK
        /\ OneRunPerClick
        /\ CardsDecidable
        /\ ModeInv
        /\ LoopInv
        /\ QueueInv
        /\ WorkerInv
        /\ KeysInv

(***************************************************************************)
(* It is initial.                                                          *)
(***************************************************************************)
LEMMA IInvInit == Init => IInv
<1> SUFFICES ASSUME Init PROVE IInv
  OBVIOUS
<1>1. TypeOK
  BY TypeInit
<1>2. OneRunPerClick /\ CardsDecidable
  BY DEF Init, OneRunPerClick, CardsDecidable
<1>3. ModeInv /\ LoopInv
  BY DEF Init, ModeInv, LoopInv, Select, Idle
<1>4. QueueInv /\ WorkerInv /\ KeysInv
  BY DEF Init, QueueInv, WorkerInv, KeysInv, Idle
<1>5. QED
  BY <1>1, <1>2, <1>3, <1>4 DEF IInv

(***************************************************************************)
(* It is preserved, action by action.  Inv is IInv without the types.      *)
(***************************************************************************)
Inv == /\ OneRunPerClick
       /\ CardsDecidable
       /\ ModeInv
       /\ LoopInv
       /\ QueueInv
       /\ WorkerInv
       /\ KeysInv

(* A step of a handler that moves only the handler itself. *)
LEMMA LoopOnly ==
    ASSUME IInv, LoopInv', mode = "up", UNCHANGED <<dbVars, mode, cards, inFlight, workerVars, historyVars>>
    PROVE  Inv'
  BY DEF IInv, Inv, OneRunPerClick, CardsDecidable, ModeInv, QueueInv, WorkerInv, KeysInv,
     Waiting, RateLimited, dbVars, workerVars, historyVars

(* A handler is under way only in a running service. *)
LEMMA HandlerUp ==
    ASSUME IInv, loop.at # "select"
    PROVE  mode = "up"
  BY DEF IInv, ModeInv, Select

LEMMA RouteAutoInv ==
    ASSUME IInv, NEW k \in Keys, RouteAuto(k) \/ RouteUserAuto(k)
    PROVE  Inv'
<1>1. /\ mode = "up" /\ loop'.at = "enqueue" /\ loop'.by \in {"ai", "user"}
      /\ loop'.key = k /\ loop'.id = NoId
      /\ UNCHANGED <<dbVars, mode, cards, inFlight, workerVars, historyVars>>
  BY DEF RouteAuto, RouteUserAuto, At, Idling
<1>2. k \notin Scripts /\ ~RateLimited(k) /\ (loop'.by = "user" => k \notin inFlight)
  BY DEF RouteAuto, RouteUserAuto, At, AutoApproved, CanAlwaysApprove, Duplicate
<1>3. LoopInv'
  BY <1>1, <1>2 DEF LoopInv, RateLimited, dbVars
<1>4. QED
  BY <1>1, <1>3, LoopOnly

LEMMA InsertCardInv ==
    ASSUME IInv, NEW k \in Keys, NEW i \in Ids, InsertCard(i, k)
    PROVE  Inv'
<1> USE DEF IInv, workerVars, historyVars
<1>1. status[i] = "absent"
  BY DEF TypeOK, InsertCard
<1>2. /\ \A j \in Ids : status[j] = "approved" =>
                           j # i /\ status'[j] = "approved" /\ keyOf'[j] = keyOf[j]
      /\ UNCHANGED <<succ, fail, mode, loop, inFlight, queue, worker, done, clicks, runs>>
  BY <1>1 DEF InsertCard, TypeOK
<1>3. OneRunPerClick' /\ ModeInv' /\ KeysInv'
  BY <1>2 DEF OneRunPerClick, ModeInv, KeysInv, InsertCard, Idling
<1>4. CardsDecidable'
  BY DEF CardsDecidable, InsertCard, TypeOK
<1>5. LoopInv'
  BY DEF LoopInv, InsertCard, Idling, Select
<1>6. QueueInv'
  BY <1>2 DEF QueueInv, Waiting, RateLimited
<1>7. WorkerInv'
  BY <1>2 DEF WorkerInv, RateLimited
<1>8. QED
  BY <1>3, <1>4, <1>5, <1>6, <1>7 DEF Inv

(* A row the user can decide is not in the worker's hands. *)
LEMMA PendingUnheld ==
    ASSUME IInv, NEW i \in Ids, status[i] # "approved"
    PROVE  Unheld(i)
  BY DEF IInv, Unheld, QueueInv, WorkerInv, Waiting

LEMMA ClaimInv ==
    ASSUME IInv, mode = "up", NEW i \in Ids, Claim(i)
    PROVE  Inv'
<1> USE DEF IInv, workerVars
<1>1. Unheld(i)
  BY PendingUnheld DEF Claim
<1>2. /\ status[i] = "pending" /\ status'[i] = "approved"
      /\ \A j \in Ids \ {i} : status'[j] = status[j]
      /\ clicks'[i] = clicks[i] + 1 /\ \A j \in Ids \ {i} : clicks'[j] = clicks[j]
      /\ cards' = cards \ {i}
      /\ loop' = At("preflight", "click", keyOf[i], i)
      /\ UNCHANGED <<keyOf, succ, fail, mode, inFlight, queue, worker, done, runs>>
  BY DEF Claim, TypeOK
<1>3. OneRunPerClick'
  <2> SUFFICES ASSUME NEW j \in Ids PROVE runs'[j] <= clicks'[j]
    BY DEF OneRunPerClick
  <2>1. runs'[j] = runs[j] /\ runs[j] \in Nat /\ clicks[j] \in Nat /\ runs[j] <= clicks[j]
    BY <1>2 DEF OneRunPerClick, TypeOK
  <2>2. clicks'[j] = clicks[j] \/ clicks'[j] = clicks[j] + 1
    BY <1>2
  <2>3. QED BY <2>1, <2>2
<1>4. CardsDecidable'
  BY <1>2 DEF CardsDecidable, TypeOK
<1>5. ModeInv' /\ KeysInv'
  BY <1>2 DEF ModeInv, KeysInv
<1>6. LoopInv'
  <2>1. Waiting(i, keyOf[i])' /\ Unheld(i)'
    BY <1>1, <1>2 DEF Waiting, Unheld, OneRunPerClick, TypeOK
  <2>2. QED BY <1>2, <2>1 DEF LoopInv, At
<1>7. QueueInv'
  BY <1>1, <1>2 DEF QueueInv, Waiting, RateLimited, Unheld
<1>8. WorkerInv'
  BY <1>1, <1>2 DEF WorkerInv, RateLimited
<1>9. QED
  BY <1>3, <1>4, <1>5, <1>6, <1>7, <1>8 DEF Inv

LEMMA DeclineInv ==
    ASSUME IInv, NEW i \in Ids, Reject(i) \/ Ignore(i)
    PROVE  Inv'
<1> USE DEF IInv, workerVars, historyVars
<1>1. status[i] = "pending" /\ Unheld(i)
  BY PendingUnheld DEF Reject, Ignore, CardsDecidable
<1>2. /\ status'[i] \in {"pending", "rejected"}
      /\ \A j \in Ids \ {i} : status'[j] = status[j]
      /\ cards' = cards \ {i}
      /\ loop' = At("retire", "click", keyOf[i], i)
      /\ mode = "up"
      /\ UNCHANGED <<keyOf, succ, fail, mode, inFlight, queue, worker, done, clicks, runs>>
  BY <1>1 DEF Reject, Ignore, TypeOK, Idling
<1>3. OneRunPerClick' /\ CardsDecidable' /\ ModeInv' /\ KeysInv'
  BY <1>2 DEF OneRunPerClick, CardsDecidable, ModeInv, KeysInv, TypeOK
<1>4. LoopInv'
  BY <1>1, <1>2 DEF LoopInv, At, Unheld
<1>5. QueueInv'
  BY <1>1, <1>2 DEF QueueInv, Waiting, RateLimited, Unheld
<1>6. WorkerInv'
  BY <1>1, <1>2 DEF WorkerInv, RateLimited
<1>7. QED
  BY <1>3, <1>4, <1>5, <1>6 DEF Inv

(* Preferences are outside the invariant. *)
LEMMA PreferenceInv ==
    ASSUME IInv, (\E i \in Ids : AlwaysApprove(i)) \/ (\E k \in Keys : ClearPreference(k))
    PROVE  Inv'
<1>1. /\ UNCHANGED <<status, keyOf, succ, fail, mode, cards, inFlight, queue, worker, done,
                     clicks, runs>>
      /\ mode = "up"
      /\ loop'.at \in {"select", "claim"}
  BY DEF AlwaysApprove, ClearPreference, loopVars, workerVars, historyVars, Idling, Select, At
<1>2. LoopInv'
  BY <1>1 DEF LoopInv
<1>3. QED
  BY <1>1, <1>2 DEF IInv, Inv, OneRunPerClick, CardsDecidable, ModeInv, QueueInv, WorkerInv,
     KeysInv, Waiting, RateLimited

LEMMA ClaimAlwaysInv ==
    ASSUME IInv, ClaimAlways
    PROVE  Inv'
<1>1. mode = "up" /\ loop.id \in Ids
  BY HandlerUp DEF ClaimAlways, IInv, TypeOK
<1>2. CASE Claim(loop.id)
  BY <1>1, <1>2, ClaimInv
<1>3. CASE ~Claim(loop.id)
  <2>1. loop' = Select /\ UNCHANGED <<dbVars, mode, cards, inFlight, workerVars, historyVars>>
    BY <1>3 DEF ClaimAlways
  <2>2. LoopInv'
    BY <2>1 DEF LoopInv, Select
  <2>3. QED BY <1>1, <2>1, <2>2, LoopOnly
<1>4. QED
  BY <1>2, <1>3

LEMMA PreflightInv ==
    ASSUME IInv, PreflightPasses \/ PreflightRefuses \/ PreflightFails
    PROVE  Inv'
<1>1. /\ mode = "up" /\ loop.at = "preflight" /\ loop.by = "click" /\ loop \in Loop
      /\ UNCHANGED <<dbVars, mode, cards, inFlight, workerVars, historyVars>>
  BY HandlerUp DEF PreflightPasses, PreflightRefuses, PreflightFails, IInv, TypeOK
<1>2. Waiting(loop.id, loop.key) /\ Unheld(loop.id) /\ loop.id \notin cards
  BY <1>1 DEF IInv, LoopInv, CardsDecidable, Waiting, TypeOK
<1>3. CASE PreflightPasses
  <2>1. /\ loop'.at = "enqueue" /\ loop'.by = "click" /\ loop'.id = loop.id
        /\ loop'.key = loop.key /\ ~RateLimited(loop.key)
    BY <1>1, <1>3 DEF PreflightPasses, Loop
  <2>2. LoopInv'
    BY <1>1, <1>2, <2>1 DEF LoopInv, Waiting, Unheld, RateLimited, dbVars, workerVars,
       historyVars
  <2>3. QED BY <1>1, <2>2, LoopOnly
<1>4. CASE PreflightRefuses
  <2>1. loop'.at = "retire" /\ loop'.id = loop.id
    BY <1>1, <1>4 DEF PreflightRefuses, Loop
  <2>2. LoopInv'
    BY <1>1, <1>2, <2>1 DEF LoopInv, Unheld, workerVars
  <2>3. QED BY <1>1, <2>2, LoopOnly
<1>5. CASE PreflightFails
  <2>1. LoopInv'
    BY <1>5 DEF PreflightFails, LoopInv, Select
  <2>2. QED BY <1>1, <2>1, LoopOnly
<1>6. QED
  BY <1>3, <1>4, <1>5

LEMMA EnqueueStopsInv ==
    ASSUME IInv, EnqueueSkips \/ EnqueueRetires
    PROVE  Inv'
<1>1. /\ mode = "up" /\ loop.at = "enqueue" /\ loop \in Loop
      /\ UNCHANGED <<dbVars, mode, cards, inFlight, workerVars, historyVars>>
  BY HandlerUp DEF EnqueueSkips, EnqueueRetires, IInv, TypeOK
<1>2. CASE EnqueueSkips
  <2>1. LoopInv'
    BY <1>2 DEF EnqueueSkips, LoopInv, Select
  <2>2. QED BY <1>1, <2>1, LoopOnly
<1>3. CASE EnqueueRetires
  <2>1. loop'.at = "retire" /\ loop'.id = loop.id
    BY <1>1, <1>3 DEF EnqueueRetires, Loop
  <2>2. Unheld(loop.id) /\ loop.id \notin cards
    BY <1>1, <1>3 DEF EnqueueRetires, IInv, LoopInv, CardsDecidable, Waiting, TypeOK
  <2>3. LoopInv'
    BY <1>1, <2>1, <2>2 DEF LoopInv, Unheld, workerVars
  <2>4. QED BY <1>1, <2>3, LoopOnly
<1>4. QED
  BY <1>2, <1>3

LEMMA EnqueueSendsInv ==
    ASSUME IInv, EnqueueSends
    PROVE  Inv'
<1> DEFINE job == [key |-> loop.key, id |-> loop.id]
           last == Len(queue) + 1
<1> USE DEF IInv
<1>1. /\ mode = "up" /\ loop.at = "enqueue" /\ loop.key \in Keys
      /\ loop.id \in Ids \cup {NoId} /\ queue \in Seq(Job)
  BY HandlerUp DEF EnqueueSends, TypeOK, Loop
<1>2. /\ inFlight' = inFlight \cup {loop.key} /\ queue' = Append(queue, job) /\ loop' = Select
      /\ UNCHANGED <<status, keyOf, succ, fail, mode, cards, worker, done, clicks, runs>>
  BY DEF EnqueueSends, dbVars, historyVars
<1>3. job \in Job
  BY <1>1 DEF Job
<1>4. /\ DOMAIN queue' = DOMAIN queue \cup {last}
      /\ \A n \in DOMAIN queue : queue'[n] = queue[n] /\ n # last
      /\ queue'[last] = job /\ job.key = loop.key /\ job.id = loop.id
  BY <1>1, <1>2, <1>3, AppendElements
<1>5. loop.key \notin inFlight
  BY <1>1 DEF EnqueueSends, LoopInv, TypeOK, Loop, Duplicate
<1>6. ~RateLimited(loop.key) /\ (loop.id \notin Ids => loop.key \notin Scripts)
  BY <1>1, <1>5 DEF LoopInv, TypeOK
<1>7. loop.id \in Ids => Waiting(loop.id, loop.key) /\ worker.id # loop.id
  BY <1>1 DEF LoopInv, Unheld
<1>8. OneRunPerClick' /\ CardsDecidable' /\ ModeInv' /\ WorkerInv'
  BY <1>1, <1>2 DEF OneRunPerClick, CardsDecidable, ModeInv, WorkerInv, RateLimited
<1>9. LoopInv'
  BY <1>2 DEF LoopInv, Select
<1>10. QueueInv'
  <2> SUFFICES ASSUME NEW n \in DOMAIN queue'
               PROVE  /\ queue'[n].id \in Ids => /\ Waiting(queue'[n].id, queue'[n].key)
                                                 /\ worker.id # queue'[n].id
                      /\ ~RateLimited(queue'[n].key)
                      /\ queue'[n].key \in Scripts => queue'[n].id # NoId
    BY <1>2 DEF QueueInv, Waiting, RateLimited
  <2>1. CASE n \in DOMAIN queue
    BY <1>4, <2>1 DEF QueueInv
  <2>2. CASE n = last
    BY <1>1, <1>4, <1>6, <1>7, <2>2
  <2>3. QED BY <1>4, <2>1, <2>2
<1>11. KeysInv'
  <2>1. /\ \A n \in DOMAIN queue : queue[n].key # loop.key
        /\ \A n \in DOMAIN done : done[n].key # loop.key
        /\ worker.at # "idle" => worker.key # loop.key
    BY <1>1, <1>5 DEF KeysInv
  <2>2. \A m, n \in DOMAIN queue' : queue'[m].key = queue'[n].key => m = n
    BY <1>4, <2>1 DEF KeysInv
  <2>3. \A m \in DOMAIN queue', n \in DOMAIN done : queue'[m].key # done[n].key
    BY <1>4, <2>1 DEF KeysInv
  <2>4. worker.at # "idle" => \A n \in DOMAIN queue' : queue'[n].key # worker.key
    BY <1>4, <2>1 DEF KeysInv
  <2>5. ASSUME NEW k \in Keys
        PROVE  (\E n \in DOMAIN queue' : queue'[n].key = k)
                  <=> (k = loop.key \/ \E n \in DOMAIN queue : queue[n].key = k)
    BY <1>4
  <2>6. ASSUME NEW k \in Keys
        PROVE  k \in inFlight' <=> \/ \E n \in DOMAIN queue' : queue'[n].key = k
                                   \/ worker.at # "idle" /\ worker.key = k
                                   \/ \E n \in DOMAIN done : done[n].key = k
    BY <1>1, <1>2, <2>5 DEF KeysInv
  <2>7. QED BY <1>2, <2>2, <2>3, <2>4, <2>6 DEF KeysInv
<1>12. QED
  BY <1>8, <1>9, <1>10, <1>11 DEF Inv

LEMMA RetireInv ==
    ASSUME IInv, Retire
    PROVE  Inv'
<1> USE DEF IInv
<1>1. /\ mode = "up" /\ loop' = Select /\ Unheld(loop.id) /\ loop.id \in Ids
      /\ loop.id \notin cards
      /\ UNCHANGED <<keyOf, succ, fail, mode, cards, inFlight, queue, worker, done, clicks,
                     runs>>
  BY HandlerUp DEF Retire, LoopInv, TypeOK, workerVars, historyVars
<1>2. \A j \in Ids \ {loop.id} : status'[j] = status[j]
  BY DEF Retire, TypeOK
<1>3. OneRunPerClick' /\ CardsDecidable' /\ ModeInv' /\ KeysInv'
  BY <1>1, <1>2 DEF OneRunPerClick, CardsDecidable, ModeInv, KeysInv, TypeOK
<1>4. LoopInv'
  BY <1>1 DEF LoopInv, Select
<1>5. QueueInv'
  BY <1>1, <1>2 DEF QueueInv, Waiting, RateLimited, Unheld
<1>6. WorkerInv'
  BY <1>1, <1>2 DEF WorkerInv, RateLimited, Unheld
<1>7. QED
  BY <1>3, <1>4, <1>5, <1>6 DEF Inv

(* Two jobs of one row would have one key: the rows of the queue are distinct. *)
LEMMA QueuedOnce ==
    ASSUME IInv, NEW m \in DOMAIN queue, NEW n \in DOMAIN queue,
           queue[m].id = queue[n].id, queue[m].id \in Ids
    PROVE  m = n
<1>1. keyOf[queue[m].id] = queue[m].key /\ keyOf[queue[n].id] = queue[n].key
  BY DEF IInv, QueueInv, Waiting
<1>2. QED
  BY <1>1 DEF IInv, KeysInv

LEMMA StartInv ==
    ASSUME IInv, Start
    PROVE  Inv'
<1> DEFINE job == Head(queue)
<1> USE DEF IInv
<1>1. /\ queue \in Seq(Job) /\ queue # << >> /\ worker = Idle /\ queue' = Tail(queue)
      /\ UNCHANGED <<status, keyOf, succ, fail, mode, cards, inFlight, loop, done, clicks>>
  BY DEF Start, TypeOK, WorkerInv, dbVars, loopVars
<1>2. /\ 1 \in DOMAIN queue /\ job = queue[1] /\ job \in Job
      /\ \A n \in DOMAIN queue' : n + 1 \in DOMAIN queue /\ n + 1 # 1 /\ queue'[n] = queue[n + 1]
      /\ \A n \in DOMAIN queue \ {1} : n - 1 \in DOMAIN queue' /\ queue'[n - 1] = queue[n]
  BY <1>1, TailElements
<1>3. /\ worker'.at = "running" /\ worker'.key = job.key /\ worker'.id = job.id
      /\ job.key \in Keys /\ job.id \in Ids \cup {NoId}
  BY <1>2 DEF Start, Idle, Job
<1>4. /\ job.id \in Ids => Waiting(job.id, job.key)
      /\ ~RateLimited(job.key)
      /\ job.key \in Scripts => job.id # NoId
  BY <1>2 DEF QueueInv
<1>5. \A n \in DOMAIN queue' : queue'[n].key # job.key
  BY <1>2 DEF KeysInv
<1>6. \A n \in DOMAIN queue' : queue'[n].id \in Ids => queue'[n].id # job.id
  BY <1>2, QueuedOnce
<1>7. \A j \in Ids : /\ runs'[j] = (IF j = job.id THEN runs[j] + 1 ELSE runs[j])
                     /\ runs[j] \in Nat /\ clicks[j] \in Nat /\ runs[j] <= clicks[j]
  BY <1>3 DEF Start, TypeOK, OneRunPerClick
<1>8. OneRunPerClick'
  <2> SUFFICES ASSUME NEW j \in Ids PROVE runs'[j] <= clicks[j]
    BY <1>1 DEF OneRunPerClick
  <2>1. CASE j = job.id
    BY <1>4, <1>7, <2>1 DEF Waiting
  <2>2. CASE j # job.id
    BY <1>7, <2>2
  <2>3. QED BY <2>1, <2>2
<1>9. CardsDecidable' /\ ModeInv'
  <2>1. mode # "down"
    BY <1>1 DEF ModeInv
  <2>2. QED BY <1>1, <2>1 DEF CardsDecidable, ModeInv
<1>10. ASSUME NEW i \in Ids, Unheld(i)
       PROVE  Unheld(i)' /\ i # job.id
  BY <1>2, <1>3, <1>10 DEF Unheld
<1>11. ASSUME NEW i \in Ids, NEW k, Waiting(i, k), i # job.id
       PROVE  Waiting(i, k)'
  BY <1>1, <1>7, <1>11 DEF Waiting
<1>12. LoopInv'
  <2>1. CASE loop.at = "preflight" \/ (loop.at = "enqueue" /\ loop.by = "click")
    <3> DEFINE i == loop.id
               k == loop.key
    <3>1. i \in Ids /\ Waiting(i, k) /\ Unheld(i)
      BY <2>1 DEF LoopInv, TypeOK
    <3> HIDE DEF i, k
    <3>2. Waiting(i, k)' /\ Unheld(i)'
      BY <1>1, <1>10, <1>11, <3>1 DEF i, k
    <3>3. QED BY <1>1, <2>1, <3>2 DEF LoopInv, RateLimited, i, k
  <2>2. CASE loop.at = "retire"
    BY <1>1, <1>2, <1>3, <2>2 DEF LoopInv, TypeOK, Unheld
  <2>3. CASE loop.at # "retire" /\ loop.at # "preflight" /\ (loop.at = "enqueue" => loop.by # "click")
    BY <1>1, <2>3 DEF LoopInv, RateLimited
  <2>4. QED BY <2>1, <2>2, <2>3
<1>13. QueueInv'
  <2> SUFFICES ASSUME NEW n \in DOMAIN queue'
               PROVE  /\ queue'[n].id \in Ids =>
                            /\ /\ status[queue'[n].id] = "approved"
                               /\ keyOf[queue'[n].id] = queue'[n].key
                               /\ runs'[queue'[n].id] < clicks[queue'[n].id]
                            /\ worker'.id # queue'[n].id
                      /\ ~RateLimited(queue'[n].key)
                      /\ queue'[n].key \in Scripts => queue'[n].id # NoId
    BY <1>1 DEF QueueInv, Waiting, RateLimited
  <2>1. queue'[n] = queue[n + 1] /\ n + 1 \in DOMAIN queue
    BY <1>2
  <2>2. ~RateLimited(queue'[n].key) /\ (queue'[n].key \in Scripts => queue'[n].id # NoId)
    BY <2>1 DEF QueueInv
  <2>3. ASSUME queue'[n].id \in Ids
        PROVE  /\ status[queue'[n].id] = "approved"
               /\ keyOf[queue'[n].id] = queue'[n].key
               /\ runs'[queue'[n].id] < clicks[queue'[n].id]
               /\ worker'.id # queue'[n].id
    BY <1>3, <1>6, <1>7, <2>1, <2>3 DEF QueueInv, Waiting
  <2>4. QED BY <2>2, <2>3
<1>14. WorkerInv'
  BY <1>1, <1>3, <1>4 DEF WorkerInv, Waiting, RateLimited
<1>15. KeysInv'
  <2>1. \A m, n \in DOMAIN queue' : queue'[m].key = queue'[n].key => m = n
    <3> SUFFICES ASSUME NEW m \in DOMAIN queue', NEW n \in DOMAIN queue',
                        queue'[m].key = queue'[n].key
                 PROVE  m = n
      OBVIOUS
    <3>1. m + 1 = n + 1
      BY <1>2 DEF KeysInv
    <3>2. m \in Nat /\ n \in Nat
      BY <1>1, TailElements, DOMAIN queue' = 1 .. Len(queue')
    <3>3. QED BY <3>1, <3>2
  <2>2. \A n \in DOMAIN done : done[n].key # job.key
    BY <1>2 DEF KeysInv
  <2>3. \A m \in DOMAIN queue', n \in DOMAIN done : queue'[m].key # done[n].key
    BY <1>2 DEF KeysInv
  <2>4. ASSUME NEW k \in Keys
        PROVE  (\E n \in DOMAIN queue : queue[n].key = k)
                  <=> (job.key = k \/ \E n \in DOMAIN queue' : queue'[n].key = k)
    BY <1>2
  <2>5. worker.at = "idle"
    BY DEF Start
  <2>6. ASSUME mode = "up", NEW k \in Keys
        PROVE  k \in inFlight <=> \/ \E n \in DOMAIN queue' : queue'[n].key = k
                                  \/ worker'.key = k
                                  \/ \E n \in DOMAIN done : done[n].key = k
    BY <1>3, <2>4, <2>5, <2>6 DEF KeysInv
  <2>7. QED BY <1>1, <1>3, <1>5, <2>1, <2>2, <2>3, <2>6 DEF KeysInv
<1>16. QED
  BY <1>8, <1>9, <1>12, <1>13, <1>14, <1>15 DEF Inv

(* The worker keeps its job. *)
LEMMA WorkerStays ==
    ASSUME IInv, worker.at # "idle", worker'.at # "idle", worker'.key = worker.key,
           worker'.id = worker.id, UNCHANGED <<dbVars, mode, loopVars, queue, done, historyVars>>
    PROVE  Inv'
<1> USE DEF IInv, dbVars, loopVars, historyVars
<1>1. mode # "down"
  BY DEF ModeInv, Idle
<1>2. OneRunPerClick' /\ CardsDecidable' /\ ModeInv'
  BY <1>1 DEF OneRunPerClick, CardsDecidable, ModeInv
<1>3. LoopInv' /\ QueueInv'
  BY DEF LoopInv, QueueInv, Waiting, Unheld, RateLimited
<1>4. WorkerInv' /\ KeysInv'
  BY DEF WorkerInv, KeysInv, RateLimited
<1>5. QED
  BY <1>2, <1>3, <1>4 DEF Inv

LEMMA FinishInv ==
    ASSUME IInv, Finish
    PROVE  Inv'
<1>1. worker'.at = "ran" /\ worker'.key = worker.key /\ worker'.id = worker.id
  BY DEF Finish, IInv, TypeOK, Worker
<1>2. QED
  BY <1>1, WorkerStays DEF Finish

(* Handing the outcome to the loop moves the key from the worker to done. *)
LEMMA ReportKeys ==
    ASSUME IInv, worker.at # "idle", NEW refresh \in BOOLEAN, Report(refresh),
           UNCHANGED <<mode, inFlight, queue>>
    PROVE  KeysInv'
<1> USE DEF IInv
<1>1. worker' = Idle /\ Idle.at = "idle" /\ worker.key \in Keys /\ done \in Seq(Outcome)
  BY DEF Report, Idle, TypeOK
<1>2. CASE mode # "up"
  BY <1>1, <1>2 DEF Report, KeysInv
<1>3. CASE mode = "up"
  <2> DEFINE e == [key |-> worker.key, refresh |-> refresh]
             last == Len(done) + 1
  <2>1. e \in Outcome /\ e.key = worker.key
    BY <1>1 DEF Outcome
  <2>2. done' = Append(done, e)
    BY <1>3 DEF Report
  <2> HIDE DEF e
  <2>3. /\ DOMAIN done' = DOMAIN done \cup {last}
        /\ \A n \in DOMAIN done : done'[n] = done[n] /\ n # last
        /\ done'[last].key = worker.key
    BY <1>1, <2>1, <2>2, AppendElements
  <2>4. /\ \A n \in DOMAIN queue : queue[n].key # worker.key
        /\ \A n \in DOMAIN done : done[n].key # worker.key
    BY DEF KeysInv
  <2>5. \A m, n \in DOMAIN done' : done'[m].key = done'[n].key => m = n
    BY <2>3, <2>4 DEF KeysInv
  <2>6. \A m \in DOMAIN queue, n \in DOMAIN done' : queue[m].key # done'[n].key
    BY <2>3, <2>4 DEF KeysInv
  <2>7. ASSUME NEW k \in Keys
        PROVE  (\E n \in DOMAIN done' : done'[n].key = k)
                  <=> (worker.key = k \/ \E n \in DOMAIN done : done[n].key = k)
    BY <2>3
  <2>8. ASSUME NEW k \in Keys
        PROVE  k \in inFlight <=> \/ \E n \in DOMAIN queue : queue[n].key = k
                                  \/ \E n \in DOMAIN done' : done'[n].key = k
    BY <1>3, <2>7 DEF KeysInv
  <2>9. QED BY <1>1, <2>5, <2>6, <2>8 DEF KeysInv
<1>4. QED
  BY <1>2, <1>3

(* The worker gives its row up without touching the database. *)
LEMMA ReportInv ==
    ASSUME IInv, worker.at # "idle", NEW refresh \in BOOLEAN, Report(refresh),
           UNCHANGED <<dbVars, mode, loopVars, queue, historyVars>>
    PROVE  Inv'
<1> USE DEF IInv, dbVars, loopVars, historyVars
<1>1. KeysInv'
  BY ReportKeys
<1>2. worker' = Idle /\ Idle.at = "idle" /\ Idle.id = NoId /\ Idle.key = NoKey
  BY DEF Report, Idle
<1>3. OneRunPerClick' /\ CardsDecidable' /\ WorkerInv'
  BY <1>2 DEF OneRunPerClick, CardsDecidable, WorkerInv
<1>4. ModeInv'
  BY <1>2 DEF ModeInv, Report
<1>5. LoopInv'
  <2>1. loop.at = "preflight" \/ loop.at = "retire" \/ (loop.at = "enqueue" /\ loop.by = "click")
           => loop.id # NoId
    BY DEF TypeOK
  <2>2. QED BY <1>2, <2>1 DEF LoopInv, Waiting, Unheld, RateLimited
<1>6. QueueInv'
  BY <1>2 DEF QueueInv, Waiting, RateLimited
<1>7. QED
  BY <1>1, <1>3, <1>4, <1>5, <1>6 DEF Inv

LEMMA CommitInv ==
    ASSUME IInv, Commit
    PROVE  Inv'
<1> USE DEF IInv, loopVars, historyVars
<1>1. /\ worker.at # "idle" /\ worker.key \in Keys /\ worker.requeue \in BOOLEAN
      /\ Report(worker.requeue) /\ worker' = Idle /\ Idle.id = NoId /\ Idle.key = NoKey
      /\ Idle.at = "idle"
      /\ UNCHANGED <<keyOf, mode, cards, inFlight, loop, queue, clicks, runs>>
  BY DEF Commit, Report, TypeOK, Worker, Idle
<1>2. KeysInv'
  BY <1>1, ReportKeys
<1>3. \A j \in Ids \ {worker.id} : status'[j] = status[j]
  BY DEF Commit, TypeOK
<1>4. \A k \in Keys \ {worker.key} : succ'[k] = succ[k] /\ fail'[k] = fail[k]
  BY DEF Commit, TypeOK
<1>5. OneRunPerClick' /\ WorkerInv'
  BY <1>1 DEF OneRunPerClick, WorkerInv
<1>6. CardsDecidable'
  BY <1>1, <1>3 DEF CardsDecidable, WorkerInv, TypeOK
<1>7. ModeInv'
  BY <1>1 DEF ModeInv, Report
<1>8. LoopInv'
  <2>1. loop.at # "select" => mode = "up" /\ loop.key \in Keys
    BY HandlerUp DEF TypeOK
  <2>2. mode = "up" => worker.key \in inFlight
    BY <1>1 DEF KeysInv
  <2>3. loop.at = "enqueue" /\ loop.key \notin inFlight => ~RateLimited(loop.key)'
    BY <1>1, <1>4, <2>1, <2>2 DEF LoopInv, RateLimited
  <2>4. loop.at = "preflight" \/ (loop.at = "enqueue" /\ loop.by = "click")
           => Waiting(loop.id, loop.key)' /\ Unheld(loop.id)'
    <3> SUFFICES ASSUME loop.at = "preflight" \/ (loop.at = "enqueue" /\ loop.by = "click")
                 PROVE  Waiting(loop.id, loop.key)' /\ Unheld(loop.id)'
      OBVIOUS
    <3>1. loop.id \in Ids /\ Waiting(loop.id, loop.key) /\ Unheld(loop.id)
      BY DEF LoopInv, TypeOK
    <3>2. status'[loop.id] = status[loop.id]
      BY <1>3, <3>1 DEF Unheld
    <3>3. QED BY <1>1, <3>1, <3>2 DEF Waiting, Unheld
  <2>5. loop.at = "retire" => Unheld(loop.id)' /\ loop.id \notin cards
    BY <1>1 DEF LoopInv, Unheld, TypeOK
  <2>6. QED BY <1>1, <2>3, <2>4, <2>5 DEF LoopInv
<1>9. QueueInv'
  <2> SUFFICES ASSUME NEW n \in DOMAIN queue
               PROVE  /\ queue[n].id \in Ids =>
                            /\ status'[queue[n].id] = "approved"
                            /\ keyOf[queue[n].id] = queue[n].key
                            /\ runs[queue[n].id] < clicks[queue[n].id]
                      /\ ~(succ'[queue[n].key] > 0 \/ fail'[queue[n].key] >= Breaker)
                      /\ queue[n].key \in Scripts => queue[n].id # NoId
    BY <1>1 DEF QueueInv, Waiting, RateLimited
  <2>1. queue[n].key \in Keys \ {worker.key}
    <3>1. queue[n] \in Job
      BY DEF TypeOK
    <3>2. queue[n].key # worker.key
      BY <1>1 DEF KeysInv
    <3>3. QED BY <3>1, <3>2 DEF Job
  <2>2. QED BY <1>3, <1>4, <2>1 DEF QueueInv, Waiting, RateLimited
<1>10. QED
  BY <1>2, <1>5, <1>6, <1>7, <1>8, <1>9 DEF Inv

LEMMA CommitFailsInv ==
    ASSUME IInv, CommitFails
    PROVE  Inv'
<1>1. worker.at # "idle" /\ UNCHANGED <<dbVars, mode, loopVars, queue, historyVars>>
  BY DEF CommitFails
<1>2. CASE Report(FALSE)
  BY <1>1, <1>2, ReportInv
<1>3. CASE worker' = [worker EXCEPT !.at = "rollback"] /\ UNCHANGED done
  <2>1. worker'.at = "rollback" /\ worker'.key = worker.key /\ worker'.id = worker.id
    BY <1>3 DEF IInv, TypeOK, Worker
  <2>2. QED BY <1>1, <1>3, <2>1, WorkerStays
<1>4. QED
  BY <1>2, <1>3 DEF CommitFails

LEMMA RollBackInv ==
    ASSUME IInv, RollBack
    PROVE  Inv'
<1>1. worker.at # "idle" /\ UNCHANGED <<dbVars, mode, loopVars, queue, historyVars>>
  BY DEF RollBack
<1>2. CASE Report(FALSE)
  BY <1>1, <1>2, ReportInv
<1>3. CASE ~Report(FALSE)
  <2>1. /\ worker'.at = "ran" /\ worker'.key = worker.key /\ worker'.id = worker.id
        /\ UNCHANGED done
    BY <1>3 DEF RollBack, IInv, TypeOK, Worker
  <2>2. QED BY <1>1, <2>1, WorkerStays
<1>4. QED
  BY <1>2, <1>3

LEMMA FoldOutcomeInv ==
    ASSUME IInv, FoldOutcome
    PROVE  Inv'
<1> DEFINE key == Head(done).key
<1> USE DEF IInv
<1>1. /\ mode = "up" /\ loop = Select /\ done' = Tail(done) /\ inFlight' = inFlight \ {key}
      /\ done \in Seq(Outcome) /\ done # << >>
      /\ UNCHANGED <<keyOf, succ, fail, mode, loop, queue, worker, clicks, runs>>
  BY DEF FoldOutcome, Idling, TypeOK, historyVars
<1>2. /\ 1 \in DOMAIN done /\ key = done[1].key
      /\ \A n \in DOMAIN done' : n + 1 \in DOMAIN done /\ n + 1 # 1 /\ done'[n] = done[n + 1]
      /\ \A n \in DOMAIN done \ {1} : n - 1 \in DOMAIN done' /\ done'[n - 1] = done[n]
      /\ DOMAIN done' \subseteq Nat
  BY <1>1, TailElements
<1>3. \A i \in Ids : status[i] = "approved" => status'[i] = "approved"
  BY DEF FoldOutcome, Swept
<1>4. CardsDecidable'
  <2>1. status' \in {status, Swept(status)} /\ cards' \in {cards, PendingRows(status)}
    BY DEF FoldOutcome
  <2>2. \A i \in Ids : status[i] = "pending" => status'[i] = "pending"
    BY <2>1 DEF Swept
  <2>3. \A i \in cards' : i \in Ids /\ status[i] = "pending"
    BY <2>1 DEF PendingRows, CardsDecidable, TypeOK
  <2>4. QED BY <2>2, <2>3 DEF CardsDecidable
<1>5. OneRunPerClick' /\ ModeInv'
  BY <1>1 DEF OneRunPerClick, ModeInv
<1>6. LoopInv'
  BY <1>1 DEF LoopInv, Select
<1>7. QueueInv'
  BY <1>1, <1>3 DEF QueueInv, Waiting, RateLimited
<1>8. WorkerInv'
  BY <1>1, <1>3 DEF WorkerInv, RateLimited
<1>9. KeysInv'
  <2>1. \A m, n \in DOMAIN done' : done'[m].key = done'[n].key => m = n
    <3> SUFFICES ASSUME NEW m \in DOMAIN done', NEW n \in DOMAIN done',
                        done'[m].key = done'[n].key
                 PROVE  m = n
      OBVIOUS
    <3>1. m + 1 = n + 1
      BY <1>2 DEF KeysInv
    <3>2. QED BY <1>2, <3>1
  <2>2. \A n \in DOMAIN done' : done'[n].key # key
    BY <1>2 DEF KeysInv
  <2>3. \A m \in DOMAIN queue, n \in DOMAIN done' : queue[m].key # done'[n].key
    BY <1>2 DEF KeysInv
  <2>4. /\ \A m \in DOMAIN queue : queue[m].key # key
        /\ worker.at # "idle" => worker.key # key
    BY <1>2 DEF KeysInv
  <2>5. worker.at # "idle" => \A n \in DOMAIN done' : done'[n].key # worker.key
    BY <1>2 DEF KeysInv
  <2>6. ASSUME NEW k \in Keys
        PROVE  (\E n \in DOMAIN done : done[n].key = k)
                  <=> (key = k \/ \E n \in DOMAIN done' : done'[n].key = k)
    BY <1>2
  <2>7. ASSUME NEW k \in Keys
        PROVE  k \in inFlight' <=> \/ \E n \in DOMAIN queue : queue[n].key = k
                                   \/ worker.at # "idle" /\ worker.key = k
                                   \/ \E n \in DOMAIN done' : done'[n].key = k
    <3>1. k \in inFlight <=> \/ \E n \in DOMAIN queue : queue[n].key = k
                             \/ worker.at # "idle" /\ worker.key = k
                             \/ \E n \in DOMAIN done : done[n].key = k
      BY <1>1 DEF KeysInv
    <3>2. k \in inFlight' <=> k \in inFlight /\ k # key
      BY <1>1
    <3>3. QED BY <2>2, <2>4, <2>6, <3>1, <3>2
  <2>8. QED BY <1>1, <2>1, <2>3, <2>5, <2>7 DEF KeysInv
<1>10. QED
  BY <1>4, <1>5, <1>6, <1>7, <1>8, <1>9 DEF Inv

LEMMA StopInv ==
    ASSUME IInv, Stop
    PROVE  Inv'
<1> USE DEF IInv, dbVars, historyVars
<1>1. /\ mode' = "draining" /\ cards' = {} /\ inFlight' = {} /\ loop' = Select /\ done' = << >>
      /\ UNCHANGED <<status, keyOf, succ, fail, queue, worker, clicks, runs>>
  BY DEF Stop
<1>2. OneRunPerClick' /\ CardsDecidable' /\ ModeInv' /\ LoopInv'
  BY <1>1 DEF OneRunPerClick, CardsDecidable, ModeInv, LoopInv, Select
<1>3. QueueInv' /\ WorkerInv'
  BY <1>1 DEF QueueInv, WorkerInv, Waiting, RateLimited
<1>4. KeysInv'
  BY <1>1 DEF KeysInv
<1>5. QED
  BY <1>2, <1>3, <1>4 DEF Inv

LEMMA EndsInv ==
    ASSUME IInv, Crash \/ Exit
    PROVE  Inv'
<1> USE DEF IInv, dbVars, historyVars
<1>1. /\ mode' = "down" /\ cards' = {} /\ inFlight' = {} /\ loop' = Select /\ queue' = << >>
      /\ worker' = Idle /\ done' = << >>
      /\ UNCHANGED <<status, keyOf, succ, fail, clicks, runs>>
  BY DEF Crash, Exit, Ends
<1>2. OneRunPerClick' /\ CardsDecidable' /\ ModeInv' /\ LoopInv'
  BY <1>1 DEF OneRunPerClick, CardsDecidable, ModeInv, LoopInv, Select
<1>3. QueueInv' /\ WorkerInv' /\ KeysInv'
  BY <1>1 DEF QueueInv, WorkerInv, KeysInv, Idle
<1>4. QED
  BY <1>2, <1>3 DEF Inv

LEMMA RestartInv ==
    ASSUME IInv, Restart
    PROVE  Inv'
<1> USE DEF IInv, workerVars, historyVars
<1>1. /\ mode = "down" /\ queue = << >> /\ worker = Idle /\ done = << >> /\ inFlight = {}
      /\ loop = Select
      /\ UNCHANGED <<inFlight, loop, queue, worker, done, clicks, runs>>
  BY DEF Restart, ModeInv
<1>2. mode' = "up"
  BY DEF Restart
<1>3. CardsDecidable'
  BY DEF Restart, CardsDecidable, Swept, PendingRows
<1>4. OneRunPerClick' /\ ModeInv' /\ LoopInv'
  BY <1>1, <1>2 DEF OneRunPerClick, ModeInv, LoopInv, Select
<1>5. QueueInv' /\ WorkerInv' /\ KeysInv'
  BY <1>1 DEF QueueInv, WorkerInv, KeysInv, Idle
<1>6. QED
  BY <1>3, <1>4, <1>5 DEF Inv

LEMMA WindowSlidesInv ==
    ASSUME IInv, NEW k \in Keys, WindowSlides(k)
    PROVE  Inv'
<1> USE DEF IInv, loopVars, workerVars, historyVars
<1>1. /\ \A q \in Keys : succ'[q] <= succ[q] /\ fail'[q] <= fail[q]
      /\ \A q \in Keys : /\ succ[q] \in Nat /\ fail[q] \in Nat
                         /\ succ'[q] \in Nat /\ fail'[q] \in Nat
      /\ UNCHANGED <<status, keyOf, mode, cards, inFlight, loop, queue, worker, done, clicks, runs>>
  BY DEF WindowSlides, TypeOK
<1>2. \A q \in Keys : ~RateLimited(q) => ~RateLimited(q)'
  BY <1>1 DEF RateLimited
<1>3. OneRunPerClick' /\ CardsDecidable' /\ ModeInv' /\ KeysInv'
  BY <1>1 DEF OneRunPerClick, CardsDecidable, ModeInv, KeysInv
<1>4. LoopInv'
  BY <1>1, <1>2 DEF LoopInv, Waiting, Unheld, TypeOK, RateLimited
<1>5. QueueInv'
  <2>1. \A n \in DOMAIN queue : queue[n].key \in Keys
    <3>1. \A n \in DOMAIN queue : queue[n] \in Job
      BY DEF TypeOK
    <3>2. QED BY <3>1 DEF Job
  <2>2. QED BY <1>1, <1>2, <2>1 DEF QueueInv, Waiting, RateLimited
<1>6. WorkerInv'
  BY <1>1, <1>2 DEF WorkerInv, TypeOK, RateLimited
<1>7. QED
  BY <1>3, <1>4, <1>5, <1>6 DEF Inv

LEMMA IInvStep == IInv /\ [Next]_vars => IInv'
<1> SUFFICES ASSUME IInv, [Next]_vars PROVE IInv'
  OBVIOUS
<1>1. TypeOK'
  BY TypeStep DEF IInv
<1>2. Inv'
  <2>1. CASE Route
    BY <2>1, RouteAutoInv, InsertCardInv DEF Route, RouteCard, RouteUserCard
  <2>2. CASE Decide
    BY <2>2, ClaimInv, DeclineInv, PreferenceInv DEF Decide, Approve, Idling
  <2>3. CASE Handle
    BY <2>3, ClaimAlwaysInv, PreflightInv, EnqueueStopsInv, EnqueueSendsInv, RetireInv DEF Handle
  <2>4. CASE Work
    BY <2>4, StartInv, FinishInv, CommitInv, CommitFailsInv, RollBackInv DEF Work
  <2>5. CASE FoldOutcome
    BY <2>5, FoldOutcomeInv
  <2>6. CASE Environment
    BY <2>6, StopInv, EndsInv, RestartInv, WindowSlidesInv DEF Environment
  <2>7. CASE UNCHANGED vars
    BY <2>7 DEF vars, dbVars, loopVars, workerVars, historyVars, IInv, Inv, OneRunPerClick,
       CardsDecidable, ModeInv, LoopInv, QueueInv, WorkerInv, KeysInv, Waiting, Unheld,
       RateLimited
  <2>8. QED BY <2>1, <2>2, <2>3, <2>4, <2>5, <2>6, <2>7 DEF Next
<1>3. QED
  BY <1>1, <1>2 DEF IInv, Inv

(* Every reachable state satisfies the inductive invariant. *)
THEOREM Inductive == Spec => []IInv
  BY IInvInit, IInvStep, PTL DEF Spec

(***************************************************************************)
(* The safety properties.                                                  *)
(***************************************************************************)

(* Eir never replays an approved fix (claim_pending_approval, the worker's *)
(* requeue, the startup requeue): one start per decision.                  *)
THEOREM NoReplay == Spec => []OneRunPerClick
<1>1. IInv => OneRunPerClick
  BY DEF IInv
<1>2. QED
  BY <1>1, Inductive, PTL

(* A card on the tray is a row that can still be claimed. *)
THEOREM CardsAreLive == Spec => []CardsDecidable
<1>1. IInv => CardsDecidable
  BY DEF IInv
<1>2. QED
  BY <1>1, Inductive, PTL

(* st.in_flight is what the worker owes: the dedup test and the tray's     *)
(* "Executing" state are exact.                                            *)
THEOREM InFlightIsExact == Spec => []InFlightExact
<1>1. ASSUME IInv PROVE InFlightExact
  <2> USE <1>1 DEF IInv, KeysInv
  <2> SUFFICES ASSUME mode = "up"
               PROVE  /\ inFlight = QueuedKeys \cup WorkerKeys \cup UnfoldedKeys
                      /\ \A m, n \in DOMAIN queue : queue[m].key = queue[n].key => m = n
                      /\ QueuedKeys \cap (WorkerKeys \cup UnfoldedKeys) = {}
    BY DEF InFlightExact
  <2>1. /\ \A n \in DOMAIN queue : queue[n].key \in Keys
        /\ \A n \in DOMAIN done : done[n].key \in Keys
    <3>1. /\ \A n \in DOMAIN queue : queue[n] \in Job
          /\ \A n \in DOMAIN done : done[n] \in Outcome
      BY DEF TypeOK
    <3>2. QED BY <3>1 DEF Job, Outcome
  <2>2. inFlight = QueuedKeys \cup WorkerKeys \cup UnfoldedKeys
    <3>1. inFlight \subseteq Keys /\ WorkerKeys \subseteq Keys
      BY DEF TypeOK, WorkerKeys
    <3>2. QueuedKeys \subseteq Keys /\ UnfoldedKeys \subseteq Keys
      BY <2>1 DEF QueuedKeys, UnfoldedKeys
    <3>3. ASSUME NEW k \in Keys
          PROVE  k \in inFlight <=> k \in QueuedKeys \/ k \in WorkerKeys \/ k \in UnfoldedKeys
      BY DEF QueuedKeys, WorkerKeys, UnfoldedKeys
    <3>4. QED BY <3>1, <3>2, <3>3
  <2>3. QueuedKeys \cap (WorkerKeys \cup UnfoldedKeys) = {}
    BY DEF QueuedKeys, WorkerKeys, UnfoldedKeys
  <2>4. QED BY <2>2, <2>3
<1>2. QED
  BY <1>1, Inductive, PTL

(* What was true when safety::rate_limited was read is true when the fix   *)
(* runs.                                                                   *)
THEOREM LimitsHold == Spec => []BreakerHolds
<1>1. ASSUME IInv PROVE BreakerHolds
  <2> USE <1>1 DEF IInv
  <2> SUFFICES ASSUME NEW k \in QueuedKeys \cup WorkerKeys
               PROVE  succ[k] = 0 /\ fail[k] < Breaker
    BY DEF BreakerHolds
  <2>1. k \in Keys /\ ~RateLimited(k)
    <3>1. \A n \in DOMAIN queue : queue[n] \in Job
      BY DEF TypeOK
    <3>2. \A n \in DOMAIN queue : queue[n].key \in Keys
      BY <3>1 DEF Job
    <3>3. QED BY <3>2 DEF QueuedKeys, WorkerKeys, QueueInv, WorkerInv, TypeOK
  <2>2. succ[k] \in Nat /\ fail[k] \in Nat
    BY <2>1 DEF TypeOK
  <2>3. QED BY <2>1, <2>2 DEF RateLimited
<1>2. QED
  BY <1>1, Inductive, PTL

(* can_always_approve holds at the executor, not only where a preference   *)
(* is stored.                                                              *)
THEOREM ScriptsNeedClicks == Spec => []ScriptsOnlyByClick
<1>1. ASSUME IInv PROVE ScriptsOnlyByClick
  BY <1>1 DEF IInv, QueueInv, WorkerInv, ScriptsOnlyByClick
<1>2. QED
  BY <1>1, Inductive, PTL

(***************************************************************************)
(* The queue keeps its contract: the refinement of ApprovalContract.       *)
(***************************************************************************)

(* Between two handlers the loop holds no row, and the row an Always       *)
(* Approve is about to claim is still pending.                             *)
HandlerInv ==
    /\ loop.at = "select" => loop.id = NoId
    /\ loop.at = "claim" => status[loop.id] = "pending"

LEMMA HandlerInit == Init => HandlerInv
  BY DEF Init, HandlerInv, Select

LEMMA HandlerStep == IInv /\ HandlerInv /\ [Next]_vars => HandlerInv'
<1> SUFFICES ASSUME IInv, HandlerInv, [Next]_vars PROVE HandlerInv'
  OBVIOUS
<1> USE DEF HandlerInv, IInv, TypeOK, dbVars, loopVars, workerVars, historyVars
<1>1. CASE loop' = Select
  BY <1>1 DEF Select
<1>2. ASSUME NEW k \in Keys, RouteAuto(k) \/ RouteUserAuto(k) PROVE HandlerInv'
  BY <1>2 DEF RouteAuto, RouteUserAuto, At
<1>3. ASSUME NEW i \in Ids, NEW k \in Keys, InsertCard(i, k) PROVE HandlerInv'
  BY <1>3 DEF InsertCard, Idling, Select
<1>4. ASSUME NEW i \in Ids, Claim(i) PROVE HandlerInv'
  BY <1>4 DEF Claim, At
<1>5. ASSUME NEW i \in Ids, Reject(i) \/ Ignore(i) PROVE HandlerInv'
  BY <1>5 DEF Reject, Ignore, At
<1>6. ASSUME NEW i \in Ids, AlwaysApprove(i) PROVE HandlerInv'
  BY <1>6 DEF AlwaysApprove, At, CardsDecidable
<1>7. CASE PreflightPasses \/ PreflightRefuses \/ EnqueueRetires
  BY <1>7 DEF PreflightPasses, PreflightRefuses, EnqueueRetires, Loop
<1>8. CASE loop' = loop /\ status' = status
  BY <1>8
<1>9. CASE Commit
  BY <1>9 DEF Commit, Committable
<1>10. CASE FoldOutcome \/ Restart
  BY <1>10 DEF FoldOutcome, Restart, Idling, ModeInv, Select
<1>11. QED
  BY <1>1, <1>2, <1>3, <1>4, <1>5, <1>6, <1>7, <1>8, <1>9, <1>10
  DEF Next, Route, RouteCard, RouteUserCard, Decide, Approve, ClearPreference, Handle,
      ClaimAlways, PreflightFails, EnqueueSkips, EnqueueSends, Retire, Work, Start, Finish,
      CommitFails, RollBack, Environment, Stop, Crash, Exit, Ends, WindowSlides, vars

(* What the phase of a row is. *)
LEMMA PhaseOf ==
    ASSUME TypeOK, NEW i \in Ids
    PROVE  /\ status[i] = "pending"  => Phase(i) = "open"
           /\ status[i] = "rejected" => Phase(i) = "closed"
           /\ status[i] = "absent"   => Phase(i) = IF keyOf[i] = NoKey THEN "unborn" ELSE "closed"
           /\ status[i] = "approved" => Phase(i) = IF worker.id = i THEN "started"
                                                   ELSE IF loop.id = i \/ i \in QueuedIds
                                                   THEN "granted" ELSE "lost"
           /\ status[i] \in Status
  BY DEF Phase, TypeOK, Status

(* A row keeps its phase if it keeps its status and its holder. *)
LEMMA PhaseKept ==
    ASSUME TypeOK, TypeOK', NEW i \in Ids, status'[i] = status[i], keyOf'[i] = keyOf[i],
           status[i] = "approved" =>
               /\ (worker.id = i)' <=> worker.id = i
               /\ (loop.id = i \/ i \in QueuedIds)' <=> (loop.id = i \/ i \in QueuedIds)
    PROVE  Phase(i)' = Phase(i)
<1>1. /\ status'[i] = "pending"  => Phase(i)' = "open"
      /\ status'[i] = "rejected" => Phase(i)' = "closed"
      /\ status'[i] = "absent"   => Phase(i)' = IF keyOf'[i] = NoKey THEN "unborn" ELSE "closed"
      /\ status'[i] = "approved" => Phase(i)' = IF worker'.id = i THEN "started"
                                                ELSE IF (loop.id = i \/ i \in QueuedIds)'
                                                THEN "granted" ELSE "lost"
  BY DEF Phase, TypeOK, Status
<1>2. QED
  BY <1>1, PhaseOf DEF Status

(* A step that moves one row, or none, is a step of the contract. *)
LEMMA OneMoves ==
    ASSUME NEW i \in Ids, \A j \in Ids \ {i} : Phase(j)' = Phase(j),
           \/ Phase(i)' = Phase(i)
           \/ Phase(i) = "unborn" /\ Phase(i)' = "open"
           \/ Phase(i) = "open" /\ Phase(i)' \in {"granted", "closed"}
           \/ Phase(i) = "granted" /\ Phase(i)' \in {"started", "closed", "lost"}
           \/ Phase(i) = "started" /\ Phase(i)' \in {"closed", "open", "lost"}
    PROVE  [Contract!Next]_phases
<1>1. phases' = [phases EXCEPT ![i] = Phase(i)']
  BY DEF phases
<1>2. CASE Phase(i)' = Phase(i)
  <2>1. phases' = phases
    BY <1>2 DEF phases
  <2>2. QED BY <2>1
<1>3. CASE /\ Phase(i) \in {"granted", "started"} /\ Phase(i)' = "lost"
  <2>1. phases' = [j \in Ids |-> IF j \in {i} THEN "lost" ELSE phases[j]]
    BY <1>3 DEF phases
  <2>2. Contract!Lose
    BY <1>3, <2>1 DEF Contract!Lose, phases
  <2>3. QED BY <2>2 DEF Contract!Next
<1>4. QED
  BY <1>1, <1>2, <1>3 DEF phases, Contract!Next, Contract!Step, Contract!Show, Contract!Grant,
     Contract!Start, Contract!Close, Contract!Return


(* The steps that leave every row and its holder alone. *)
LEMMA Quiet ==
    ASSUME TypeOK, TypeOK', UNCHANGED <<status, keyOf>>, worker'.id = worker.id,
           \A i \in Ids : status[i] = "approved" =>
               ((loop.id = i \/ i \in QueuedIds)' <=> (loop.id = i \/ i \in QueuedIds))
    PROVE  \A i \in Ids : Phase(i)' = Phase(i)
  BY PhaseKept

LEMMA QuietHandlers ==
    ASSUME IInv, IInv', HandlerInv,
           \/ \E k \in Keys : RouteAuto(k) \/ RouteUserAuto(k) \/ ClearPreference(k) \/ WindowSlides(k)
           \/ \E i \in Ids : Ignore(i) \/ AlwaysApprove(i)
           \/ PreflightPasses \/ PreflightRefuses \/ EnqueueSkips \/ EnqueueRetires
           \/ Finish
           \/ UNCHANGED vars
    PROVE  \A i \in Ids : Phase(i)' = Phase(i)
<1> USE DEF IInv, TypeOK, dbVars, loopVars, workerVars, historyVars
<1>1. ASSUME NEW k \in Keys,
             RouteAuto(k) \/ RouteUserAuto(k) \/ ClearPreference(k) \/ WindowSlides(k)
      PROVE  \A i \in Ids : Phase(i)' = Phase(i)
  <2>1. /\ UNCHANGED <<status, keyOf, worker, queue>>
        /\ loop'.id = loop.id
    BY <1>1 DEF RouteAuto, RouteUserAuto, ClearPreference, WindowSlides, Idling, Select, At
  <2>2. QED
    BY <2>1, Quiet DEF QueuedIds
<1>2. ASSUME NEW i \in Ids, Ignore(i) \/ AlwaysApprove(i)
      PROVE  \A j \in Ids : Phase(j)' = Phase(j)
  <2>1. /\ UNCHANGED <<status, keyOf, worker, queue>>
        /\ loop.id = NoId /\ loop'.id = i /\ status[i] = "pending"
    BY <1>2 DEF Ignore, AlwaysApprove, Idling, Select, At, CardsDecidable
  <2>2. QED
    BY <2>1, Quiet DEF QueuedIds
<1>3. CASE PreflightPasses \/ PreflightRefuses \/ EnqueueRetires
  <2>1. UNCHANGED <<status, keyOf, worker, queue>> /\ loop'.id = loop.id
    BY <1>3 DEF PreflightPasses, PreflightRefuses, EnqueueRetires, Loop
  <2>2. QED
    BY <2>1, Quiet DEF QueuedIds
<1>4. CASE EnqueueSkips
  <2>1. UNCHANGED <<status, keyOf, worker, queue>> /\ loop'.id = loop.id
    BY <1>4 DEF EnqueueSkips, LoopInv, Select
  <2>2. QED
    BY <2>1, Quiet DEF QueuedIds
<1>5. CASE Finish
  <2>1. UNCHANGED <<status, keyOf, loop, queue>> /\ worker'.id = worker.id
    BY <1>5 DEF Finish, Worker
  <2>2. QED
    BY <2>1, Quiet DEF QueuedIds
<1>6. CASE UNCHANGED vars
  BY <1>6, Quiet DEF vars, QueuedIds
<1>7. QED
  BY <1>1, <1>2, <1>3, <1>4, <1>5, <1>6

(* A row the loop decides about: shown, approved, rejected, dropped, lost. *)
LEMMA DecideRefines ==
    ASSUME IInv, IInv', HandlerInv, NEW i \in Ids,
           (\E k \in Keys : InsertCard(i, k)) \/ Claim(i) \/ Reject(i),
           loop.id \in {i, NoId}
    PROVE  [Contract!Next]_phases
<1> USE DEF IInv
<1>1. /\ \A j \in Ids \ {i} : status'[j] = status[j] /\ keyOf'[j] = keyOf[j]
      /\ UNCHANGED <<queue, worker>> /\ loop'.id \in {i, NoId}
  BY DEF InsertCard, Claim, Reject, TypeOK, workerVars, At, Idling, Select
<1>2. \A j \in Ids \ {i} : Phase(j)' = Phase(j)
  <2> SUFFICES ASSUME NEW j \in Ids \ {i} PROVE Phase(j)' = Phase(j)
    OBVIOUS
  <2>1. QueuedIds' = QueuedIds /\ loop.id # j /\ loop'.id # j
    BY <1>1 DEF QueuedIds
  <2>2. QED
    BY <1>1, <2>1, PhaseKept
<1>3. CASE \E k \in Keys : InsertCard(i, k)
  <2>1. Phase(i) = "unborn"
    <3>1. keyOf[i] = NoKey /\ status[i] = "absent"
      BY <1>3 DEF InsertCard, TypeOK
    <3>2. QED
      BY <3>1, PhaseOf
  <2>2. Phase(i)' = "open"
    BY <1>3 DEF InsertCard, TypeOK, Phase
  <2>3. QED
    BY <1>2, <2>1, <2>2, OneMoves
<1>4. CASE Claim(i)
  <2>1. Phase(i) = "open" /\ worker.id # i
    BY <1>4, PhaseOf, PendingUnheld DEF Claim, Unheld
  <2>2. status'[i] = "approved" /\ loop'.id = i /\ worker'.id # i
    BY <1>1, <1>4, <2>1 DEF Claim, TypeOK, At
  <2>3. Phase(i)' = "granted"
    BY <2>2 DEF Phase
  <2>4. QED
    BY <1>2, <2>1, <2>3, OneMoves
<1>5. CASE Reject(i)
  <2>1. Phase(i) = "open"
    BY <1>5, PhaseOf DEF Reject
  <2>2. Phase(i)' = "closed"
    BY <1>5 DEF Reject, TypeOK, Phase
  <2>3. QED
    BY <1>2, <2>1, <2>2, OneMoves
<1>6. QED
  BY <1>3, <1>4, <1>5

(* The loop lets go of its row: it closes it, or its call has failed. *)
LEMMA LetGoRefines ==
    ASSUME IInv, IInv', HandlerInv,
           PreflightFails \/ Retire \/ (ClaimAlways /\ loop' = Select /\ UNCHANGED dbVars)
    PROVE  [Contract!Next]_phases
<1>0. PICK i : i = loop.id
  OBVIOUS
<1> USE DEF IInv
<1>1. /\ i \in Ids /\ \A j \in Ids \ {i} : status'[j] = status[j]
      /\ status'[i] \in {status[i], "absent"}
      /\ UNCHANGED <<keyOf, queue, worker>> /\ loop'.id = NoId
  BY <1>0 DEF PreflightFails, Retire, ClaimAlways, Claim, TypeOK, dbVars, workerVars, Select, At
<1>2. \A j \in Ids \ {i} : Phase(j)' = Phase(j)
  <2> SUFFICES ASSUME NEW j \in Ids \ {i} PROVE Phase(j)' = Phase(j)
    OBVIOUS
  <2>1. QueuedIds' = QueuedIds /\ loop.id # j /\ loop'.id # j
    BY <1>0, <1>1 DEF QueuedIds
  <2>2. QED
    BY <1>1, <2>1, PhaseKept
<1>3. status[i] = "approved" => Unheld(i)
  BY <1>0 DEF PreflightFails, Retire, ClaimAlways, HandlerInv, LoopInv
<1>4. (i \notin QueuedIds /\ worker.id # i) \/ status[i] # "approved"
  BY <1>3 DEF Unheld, QueuedIds
<1>5. CASE status'[i] = status[i]
  <2>1. CASE status[i] = "approved"
    <3>1. Phase(i) = "granted"
      BY <1>0, <1>1, <1>4, <2>1, PhaseOf
    <3>2. Phase(i)' = "lost"
      BY <1>1, <1>4, <1>5, <2>1 DEF Phase, QueuedIds
    <3>3. QED
      BY <1>1, <1>2, <3>1, <3>2, OneMoves
  <2>2. CASE status[i] # "approved"
    BY <1>1, <1>2, <1>5, <2>2, PhaseKept, OneMoves
  <2>3. QED
    BY <2>1, <2>2
<1>6. CASE status'[i] = "absent" /\ status[i] # "absent"
  <2>1. Phase(i) \in {"open", "closed", "granted"}
    BY <1>0, <1>1, <1>4, <1>6, PhaseOf DEF Status
  <2>2. Phase(i)' = "closed"
    BY <1>1, <1>6 DEF Phase, TypeOK
  <2>3. QED
    BY <1>1, <1>2, <2>1, <2>2, OneMoves
<1>7. QED
  BY <1>1, <1>5, <1>6

(* A row's approval goes from the loop to the queue, and from the queue to *)
(* the worker.                                                             *)
LEMMA SendRefines ==
    ASSUME IInv, IInv', HandlerInv, EnqueueSends
    PROVE  \A i \in Ids : Phase(i)' = Phase(i)
<1> DEFINE job == [key |-> loop.key, id |-> loop.id]
<1> USE DEF IInv
<1>1. /\ loop.key \in Keys /\ loop.id \in Ids \cup {NoId} /\ queue' = Append(queue, job)
      /\ UNCHANGED <<status, keyOf, worker>> /\ loop'.id = NoId
  BY DEF EnqueueSends, TypeOK, Loop, Select, dbVars
<1>2. job \in Job /\ job.id = loop.id
  BY <1>1 DEF Job
<1> HIDE DEF job
<1>3. /\ DOMAIN queue' = DOMAIN queue \cup {Len(queue) + 1}
      /\ \A n \in DOMAIN queue : queue'[n] = queue[n]
      /\ queue'[Len(queue) + 1] = job
  BY <1>1, <1>2, AppendElements DEF TypeOK
<1>4. \A i \in Ids : i \in QueuedIds' <=> (loop.id = i \/ i \in QueuedIds)
  BY <1>2, <1>3 DEF QueuedIds
<1>5. QED
  BY <1>1, <1>4, Quiet

LEMMA StartRefines ==
    ASSUME IInv, IInv', Start
    PROVE  [Contract!Next]_phases
<1>0. PICK i : i = Head(queue).id
  OBVIOUS
<1> USE DEF IInv
<1>1. /\ queue \in Seq(Job) /\ queue # << >> /\ worker = Idle /\ queue' = Tail(queue)
      /\ UNCHANGED <<status, keyOf, loop>> /\ worker'.id = i /\ Idle.id = NoId
  BY <1>0 DEF Start, TypeOK, WorkerInv, dbVars, loopVars, Idle
<1>2. /\ 1 \in DOMAIN queue /\ i = queue[1].id /\ Head(queue) \in Job
      /\ \A n \in DOMAIN queue' : n + 1 \in DOMAIN queue /\ queue'[n] = queue[n + 1]
      /\ \A n \in DOMAIN queue \ {1} : n - 1 \in DOMAIN queue' /\ queue'[n - 1] = queue[n]
  BY <1>0, <1>1, TailElements
<1>3. i \in Ids \cup {NoId}
  BY <1>0, <1>2 DEF Job
<1>4. \A j \in Ids \ {i} : j \in QueuedIds' <=> j \in QueuedIds
  BY <1>2 DEF QueuedIds
<1>5. \A j \in Ids \ {i} : Phase(j)' = Phase(j)
  BY <1>1, <1>4, PhaseKept
<1>6. CASE i \in Ids
  <2>1. status[i] = "approved" /\ i \in QueuedIds
    BY <1>2, <1>6 DEF QueueInv, Waiting, QueuedIds
  <2>2. Phase(i) = "granted"
    BY <1>1, <1>6, <2>1, PhaseOf
  <2>3. Phase(i)' = "started"
    BY <1>1, <2>1 DEF Phase
  <2>4. QED
    BY <1>5, <1>6, <2>2, <2>3, OneMoves
<1>7. CASE i = NoId
  BY <1>5, <1>7 DEF phases
<1>8. QED
  BY <1>3, <1>6, <1>7

(* The worker is done with its row, or hands nothing back. *)
LEMMA WorkRefines ==
    ASSUME IInv, IInv', HandlerInv, Commit \/ CommitFails \/ RollBack
    PROVE  [Contract!Next]_phases
<1>0. PICK i : i = worker.id
  OBVIOUS
<1> USE DEF IInv
<1>1. /\ i \in Ids \cup {NoId} /\ worker.at # "idle"
      /\ UNCHANGED <<keyOf, loop, queue>>
      /\ worker'.id \in {i, NoId}
      /\ \A j \in Ids \ {i} : status'[j] = status[j]
      /\ i = NoId => status' = status
  <2>1. i \in Ids \cup {NoId} /\ worker.at # "idle" /\ UNCHANGED <<keyOf, loop, queue>>
    BY <1>0 DEF Commit, CommitFails, RollBack, TypeOK, Worker, dbVars, loopVars
  <2>2. Report(FALSE) \/ Report(worker.requeue) => worker'.id = NoId
    BY DEF Report, Idle
  <2>3. worker'.id \in {i, NoId}
    BY ZenonT(30), <1>0, <2>2 DEF Commit, CommitFails, RollBack, TypeOK, Worker
  <2>4. CASE Commit
    BY <1>0, <2>1, <2>3, <2>4 DEF Commit, TypeOK
  <2>5. CASE CommitFails \/ RollBack
    BY <2>1, <2>3, <2>5 DEF CommitFails, RollBack, dbVars
  <2>6. QED
    BY <2>4, <2>5
<1>2. i \in Ids => status[i] = "approved" /\ i \notin QueuedIds
  BY <1>0 DEF WorkerInv, QueueInv, QueuedIds
<1>3. \A j \in Ids \ {i} : Phase(j)' = Phase(j)
  <2> SUFFICES ASSUME NEW j \in Ids \ {i} PROVE Phase(j)' = Phase(j)
    OBVIOUS
  <2>1. QueuedIds' = QueuedIds /\ worker.id # j /\ worker'.id # j
    BY <1>0, <1>1 DEF QueuedIds
  <2>2. QED
    BY <1>1, <2>1, PhaseKept
<1>4. i \in Ids => loop.id # i
  BY <1>0, <1>2 DEF HandlerInv, LoopInv, Unheld, TypeOK, Loop
<1>5. CASE i = NoId
  BY <1>3, <1>5 DEF phases
<1>6. CASE i \in Ids
  <2>1. Phase(i) = "started"
    BY <1>0, <1>2, <1>6, PhaseOf
  <2>2. CASE Commit
    <3>1. status'[i] \in {"pending", "absent"}
      BY <1>0, <1>6, <2>2 DEF Commit, TypeOK
    <3>2. Phase(i)' \in {"open", "closed"}
      BY <1>1, <1>2, <1>6, <3>1 DEF Phase, TypeOK
    <3>3. QED
      BY <1>3, <1>6, <2>1, <3>2, OneMoves
  <2>3. CASE CommitFails \/ RollBack
    <3>1. status'[i] = "approved"
      BY <1>2, <1>6, <2>3 DEF CommitFails, RollBack, dbVars
    <3>2. Phase(i)' \in {"started", "lost"}
      BY <1>1, <1>2, <1>4, <1>6, <3>1 DEF Phase, QueuedIds
    <3>3. QED
      BY <1>3, <1>6, <2>1, <3>2, OneMoves
  <2>4. QED
    BY <2>2, <2>3
<1>7. QED
  BY <1>1, <1>5, <1>6

(* Sweeping rejected rows closes nothing that is not closed. *)
LEMMA SweepRefines ==
    ASSUME IInv, IInv', status' \in {status, Swept(status)},
           UNCHANGED <<keyOf, loop, queue, worker>>
    PROVE  \A i \in Ids : Phase(i)' = Phase(i)
<1> USE DEF IInv
<1> SUFFICES ASSUME NEW i \in Ids PROVE Phase(i)' = Phase(i)
  OBVIOUS
<1>1. CASE status'[i] = status[i]
  BY <1>1, PhaseKept DEF QueuedIds
<1>2. CASE status'[i] # status[i]
  <2>1. status[i] = "rejected" /\ status'[i] = "absent"
    BY <1>2 DEF Swept
  <2>2. QED
    BY <2>1, PhaseOf DEF Phase, TypeOK
<1>3. QED
  BY <1>1, <1>2

(* What a stop, an exit or a crash lets go of is lost. *)
LEMMA StopRefines ==
    ASSUME IInv, IInv', Stop \/ Crash \/ Exit
    PROVE  [Contract!Next]_phases
<1> DEFINE S == {j \in Ids : Phase(j)' # Phase(j)}
<1> USE DEF IInv
<1>1. /\ UNCHANGED <<status, keyOf>> /\ loop'.id = NoId
      /\ worker'.id \in {worker.id, NoId}
      /\ \/ queue' = queue /\ worker' = worker
         \/ queue' = << >> /\ worker'.id = NoId
  BY DEF Stop, Crash, Exit, Ends, Select, Idle, dbVars
<1>2. ASSUME NEW j \in S
      PROVE  Phase(j) \in {"granted", "started"} /\ Phase(j)' = "lost"
  <2>1. status[j] = "approved" /\ status'[j] = "approved"
    BY <1>1, PhaseKept
  <2>2. CASE queue' = queue /\ worker' = worker
    BY <1>1, <2>1, <2>2, PhaseOf DEF Phase, QueuedIds
  <2>3. CASE queue' = << >> /\ worker'.id = NoId
    BY <1>1, <2>1, <2>3, PhaseOf DEF Phase, QueuedIds
  <2>4. QED
    BY <1>1, <2>2, <2>3
<1>3. phases' = [j \in Ids |-> IF j \in S THEN "lost" ELSE phases[j]]
  BY <1>2 DEF phases
<1>4. Contract!Lose
  <2>1. \A j \in S : phases[j] \in {"granted", "started"}
    BY <1>2 DEF phases
  <2>2. S \in SUBSET Ids
    OBVIOUS
  <2> HIDE DEF S
  <2>3. QED
    BY <1>3, <2>1, <2>2 DEF Contract!Lose
<1>5. QED
  BY <1>4 DEF Contract!Next

(* A restart asks again about all that was lost. *)
LEMMA RestartRefines ==
    ASSUME IInv, IInv', Restart
    PROVE  [Contract!Next]_phases
<1> USE DEF IInv
<1>1. /\ UNCHANGED <<keyOf, loop, queue, worker>> /\ loop.id = NoId /\ worker.id = NoId
      /\ queue = << >>
  BY DEF Restart, ModeInv, workerVars, Select, Idle
<1>2. status' \in {status, Swept(status), Requeued, Swept(Requeued)}
  BY DEF Restart
<1>3. CASE status' \in {status, Swept(status)}
  <2>1. phases' = phases
    BY <1>1, <1>3, SweepRefines DEF phases
  <2>2. QED BY <2>1
<1>4. CASE status' \in {Requeued, Swept(Requeued)}
  <2>1. ASSUME NEW j \in Ids
        PROVE  /\ Phase(j) \notin {"granted", "started"}
               /\ Phase(j)' = IF Phase(j) = "lost" THEN "open" ELSE Phase(j)
    <3>1. status[j] = "approved" => Phase(j) = "lost"
      BY <1>1, PhaseOf DEF QueuedIds
    <3>2. CASE status[j] = "approved"
      BY <1>4, <3>1, <3>2 DEF Swept, Requeued, Phase
    <3>3. CASE status[j] = "rejected"
      BY SMTT(20), <1>1, <1>4, <3>3, PhaseOf DEF Swept, Requeued, Phase, TypeOK
    <3>4. CASE status[j] \in {"pending", "absent"}
      BY SMTT(20), <1>1, <1>4, <3>4, PhaseOf DEF Swept, Requeued, Phase, TypeOK
    <3>5. QED
      BY <3>2, <3>3, <3>4 DEF TypeOK, Status
  <2>2. phases' = [j \in Ids |-> IF phases[j] = "lost" THEN "open" ELSE phases[j]]
    BY <2>1 DEF phases
  <2>3. \A j \in Ids : phases[j] \notin {"granted", "started"}
    BY <2>1 DEF phases
  <2>4. Contract!Recover
    BY <2>2, <2>3 DEF Contract!Recover
  <2>5. QED
    BY <2>4 DEF Contract!Next
<1>5. QED
  BY <1>2, <1>3, <1>4

LEMMA StepRefines ==
    ASSUME IInv, IInv', HandlerInv, [Next]_vars
    PROVE  [Contract!Next]_phases
<1>1. (\A i \in Ids : Phase(i)' = Phase(i)) => [Contract!Next]_phases
  <2>1. (\A i \in Ids : Phase(i)' = Phase(i)) => phases' = phases
    BY DEF phases
  <2>2. QED BY <2>1
<1>2. \A i \in Ids : loop = Select => loop.id \in {i, NoId}
  BY DEF Select
<1>3. CASE Route
  BY <1>1, <1>2, <1>3, QuietHandlers, DecideRefines
  DEF Route, RouteCard, RouteUserCard, InsertCard, Idling
<1>4. CASE Decide
  BY <1>1, <1>2, <1>4, QuietHandlers, DecideRefines DEF Decide, Approve, Idling, Reject
<1>5. CASE Handle
  <2>1. CASE ClaimAlways
    <3>1. loop.id \in Ids
      BY <2>1 DEF ClaimAlways, IInv, TypeOK
    <3>2. QED
      BY <2>1, <3>1, DecideRefines, LetGoRefines DEF ClaimAlways
  <2>2. QED
    BY <1>1, <1>5, <2>1, QuietHandlers, LetGoRefines, SendRefines DEF Handle
<1>6. CASE Work
  BY <1>1, <1>6, QuietHandlers, StartRefines, WorkRefines DEF Work
<1>7. CASE FoldOutcome
  BY <1>1, <1>7, SweepRefines DEF FoldOutcome
<1>8. CASE Environment
  BY <1>1, <1>8, QuietHandlers, StopRefines, RestartRefines DEF Environment
<1>9. CASE UNCHANGED vars
  BY <1>1, <1>9, QuietHandlers
<1>10. QED
  BY <1>3, <1>4, <1>5, <1>6, <1>7, <1>8, <1>9 DEF Next

(* What the user is promised of each row (ApprovalContract) is kept by the *)
(* loop, the worker and the database together, whatever fails.             *)
THEOREM ContractIsKept == Spec => ContractKept
<1>1. Init => Contract!Init
  BY DEF Init, Contract!Init, phases, Phase
<1>2. IInv /\ IInv' /\ HandlerInv /\ [Next]_vars => [Contract!Next]_phases
  BY StepRefines
<1>3. Spec => []HandlerInv
  BY HandlerInit, HandlerStep, Inductive, PTL DEF Spec
<1>4. QED
  BY <1>1, <1>2, <1>3, Inductive, PTL DEF Spec, ContractKept, Contract!Spec


(***************************************************************************)
(* While the database works, nothing is stranded.                          *)
(***************************************************************************)

(* Without a failed call the worker never reaches the roll-back of a reset, *)
(* and a running service has lost no row.                                  *)
Held == /\ worker.at # "rollback"
        /\ NothingStranded

(* Only a claim approves a row. *)
LEMMA OnlyClaims ==
    ASSUME TypeOK, [Next]_vars, NEW i \in Ids, status[i] # "approved", status'[i] = "approved"
    PROVE  Claim(i)
<1> USE DEF TypeOK, dbVars
<1>1. ASSUME NEW j \in Ids, NEW k \in Keys, InsertCard(j, k) PROVE FALSE
  BY <1>1 DEF InsertCard
<1>2. ASSUME NEW j \in Ids, Claim(j) PROVE Claim(i)
  BY <1>2 DEF Claim
<1>3. ASSUME NEW j \in Ids, Reject(j) PROVE FALSE
  BY <1>3 DEF Reject
<1>4. ~Retire /\ ~Commit
  BY DEF Retire, Commit
<1>5. ~FoldOutcome /\ ~Restart
  BY DEF FoldOutcome, Restart, Swept, Requeued
<1>6. UNCHANGED status => FALSE
  OBVIOUS
<1>7. QED
  BY <1>1, <1>2, <1>3, <1>4, <1>5, <1>6
  DEF Next, Route, RouteAuto, RouteUserAuto, RouteCard, RouteUserCard, Decide, Approve, Ignore,
      AlwaysApprove, ClearPreference, Handle, ClaimAlways, PreflightPasses, PreflightRefuses,
      PreflightFails, EnqueueSkips, EnqueueRetires, EnqueueSends, Work, Start, Finish,
      CommitFails, RollBack, Environment, Stop, Crash, Exit, Ends, WindowSlides, vars

LEMMA HeldStep ==
    ASSUME ~DbFaults, IInv, IInv', HandlerInv, Held, [Next]_vars
    PROVE  Held'
<1> USE DEF IInv, TypeOK
<1>1. ~CommitFails /\ ~RollBack /\ ~PreflightFails
  BY DEF CommitFails, Committable, WorkerInv, Worker, RollBack, PreflightFails, Held
<1>2. worker'.at # "rollback"
  <2>1. CASE UNCHANGED worker
    BY <2>1 DEF Held
  <2>2. CASE worker' = Idle
    BY <2>2 DEF Idle
  <2>3. CASE Start \/ Finish
    BY <2>3 DEF Start, Finish, Worker, Idle
  <2>4. QED
    BY <1>1, <2>1, <2>2, <2>3
    DEF Next, Route, RouteAuto, RouteUserAuto, RouteCard, RouteUserCard, InsertCard, Decide,
        Approve, Claim, Reject, Ignore, AlwaysApprove, ClearPreference, Handle, ClaimAlways,
        PreflightPasses, PreflightRefuses, EnqueueSkips, EnqueueRetires, EnqueueSends, Retire,
        Work, Commit, Report, FoldOutcome, Environment, Stop, Crash, Exit, Ends, Restart,
        WindowSlides, vars, workerVars
<1>3. NothingStranded'
  <2> SUFFICES ASSUME mode' = "up", NEW i \in Ids, status'[i] = "approved"
               PROVE  (loop.id = i \/ worker.id = i \/ i \in QueuedIds)'
    BY DEF NothingStranded
  <2>1. CASE status[i] # "approved"
    <3>1. Claim(i)
      BY <2>1, OnlyClaims
    <3>2. QED
      BY <3>1 DEF Claim, At
  <2>2. CASE Restart
    <3>1. status' = Swept(Requeued)
      BY <2>2 DEF Restart
    <3>2. QED
      BY <3>1 DEF Swept, Requeued
  <2>3. CASE status[i] = "approved" /\ ~Restart
    <3>1. mode = "up" /\ ~Stop /\ ~Crash /\ ~Exit
      BY <2>3
      DEF Next, Route, RouteAuto, RouteUserAuto, RouteCard, RouteUserCard, InsertCard, Decide,
          Approve, Claim, Reject, Ignore, AlwaysApprove, ClearPreference, Handle, ClaimAlways,
          PreflightPasses, PreflightRefuses, PreflightFails, EnqueueSkips, EnqueueRetires,
          EnqueueSends, Retire, Work, Start, Finish, Commit, CommitFails, RollBack, FoldOutcome,
          Idling, Environment, Stop, Crash, Exit, Ends, WindowSlides, vars
    <3>2. loop.id = i \/ worker.id = i \/ i \in QueuedIds
      BY <2>3, <3>1 DEF Held, NothingStranded
    <3>3. Phase(i)' # "lost" => (loop.id = i \/ worker.id = i \/ i \in QueuedIds)'
      BY DEF Phase
    <3>4. Phase(i) # "lost"
      BY <2>3, <3>2, PhaseOf
    <3>5. CASE Phase(i)' = Phase(i)
      BY <3>3, <3>4, <3>5
    <3>6. ASSUME NEW j \in Ids, (\E k \in Keys : InsertCard(j, k)) \/ Claim(j) \/ Reject(j),
                 loop.id \in {j, NoId}
          PROVE  (loop.id = i \/ worker.id = i \/ i \in QueuedIds)'
      <4>1. UNCHANGED <<queue, worker>> /\ status[j] # "approved"
        BY <3>6 DEF InsertCard, Claim, Reject, workerVars
      <4>2. i # j
        BY <2>3, <4>1
      <4>3. QED
        BY <3>2, <3>6, <4>1, <4>2 DEF QueuedIds
    <3>7. CASE Retire
      BY <2>3, <3>2, <3>7 DEF Retire, QueuedIds, workerVars
    <3>8. CASE ClaimAlways
      BY <3>6, <3>8 DEF ClaimAlways, HandlerInv
    <3>9. CASE Start
      <4>1. /\ 1 \in DOMAIN queue /\ Head(queue) = queue[1] /\ queue' = Tail(queue)
            /\ \A n \in DOMAIN queue \ {1} : n - 1 \in DOMAIN queue' /\ queue'[n - 1] = queue[n]
            /\ worker'.id = Head(queue).id /\ worker.id = NoId /\ loop' = loop
        BY SMTT(20), <3>9, TailElements DEF Start, WorkerInv, Idle, loopVars
      <4>2. CASE i \in QueuedIds
        <5>1. PICK n \in DOMAIN queue : queue[n].id = i
          BY <4>2 DEF QueuedIds
        <5>2. CASE n = 1
          BY <4>1, <5>1, <5>2
        <5>3. CASE n # 1
          <6>1. n - 1 \in DOMAIN queue' /\ queue'[n - 1].id = i
            BY <4>1, <5>1, <5>3
          <6>2. QED
            BY <6>1 DEF QueuedIds
        <5>4. QED
          BY <5>2, <5>3
      <4>3. QED
        BY <3>2, <4>1, <4>2
    <3>10. CASE Commit
      BY <2>3, <3>2, <3>10 DEF Commit, QueuedIds, loopVars
    <3>11. CASE FoldOutcome
      BY <3>5, <3>11, SweepRefines DEF FoldOutcome
    <3>12. CASE Route
      <4>1. CASE \E k \in Keys : RouteAuto(k) \/ RouteUserAuto(k)
        BY <3>5, <4>1, QuietHandlers
      <4>2. ASSUME NEW k \in Keys, NEW j \in Ids, InsertCard(j, k)
            PROVE  (loop.id = i \/ worker.id = i \/ i \in QueuedIds)'
        <5>1. loop.id = NoId
          BY <4>2 DEF InsertCard, Idling, Select
        <5>2. QED
          BY <3>6, <4>2, <5>1
      <4>3. QED
        BY <3>12, <4>1, <4>2 DEF Route, RouteCard, RouteUserCard
    <3>13. CASE Decide
      <4>1. CASE (\E j \in Ids : Ignore(j) \/ AlwaysApprove(j)) \/ \E k \in Keys : ClearPreference(k)
        BY <3>5, <4>1, QuietHandlers
      <4>2. ASSUME NEW j \in Ids, Approve(j) \/ Reject(j)
            PROVE  (loop.id = i \/ worker.id = i \/ i \in QueuedIds)'
        <5>1. loop.id = NoId /\ (Claim(j) \/ Reject(j))
          BY <4>2 DEF Approve, Reject, Idling, Select
        <5>2. QED
          BY <3>6, <5>1
      <4>3. QED
        BY <3>13, <4>1, <4>2 DEF Decide
    <3>14. CASE PreflightPasses \/ PreflightRefuses \/ EnqueueSkips \/ EnqueueRetires \/ Finish
                \/ UNCHANGED vars \/ \E k \in Keys : WindowSlides(k)
      BY <3>5, <3>14, QuietHandlers
    <3>15. CASE EnqueueSends
      BY <3>5, <3>15, SendRefines
    <3>16. QED
      BY <1>1, <2>3, <3>1, <3>7, <3>8, <3>9, <3>10, <3>11, <3>12, <3>13, <3>14, <3>15
      DEF Next, Handle, Work, Environment
  <2>4. QED
    BY <2>1, <2>2, <2>3
<1>4. QED
  BY <1>2, <1>3 DEF Held

(* While the database works, each approved row is with the handler, the    *)
(* queue or the worker of a running service: no decision waits for a       *)
(* restart (the branches of the loop that give a row up are those of a     *)
(* failed call).                                                           *)
THEOREM NothingIsStranded == ~DbFaults => (Spec => []NothingStranded)
<1> SUFFICES ASSUME ~DbFaults PROVE Spec => []NothingStranded
  OBVIOUS
<1>1. Init => Held
  BY DEF Init, Held, NothingStranded, Idle
<1>2. IInv /\ IInv' /\ HandlerInv /\ Held /\ [Next]_vars => Held'
  BY HeldStep
<1>3. Held => NothingStranded
  BY DEF Held
<1>4. QED
  BY <1>1, <1>2, <1>3, HandlerInit, HandlerStep, Inductive, PTL DEF Spec

=============================================================================
