---------------------------- MODULE GameMode_proofs ----------------------------
(***************************************************************************)
(* Proofs about GameMode, for any set of power plans and any capacity of   *)
(* the edge channel.                                                       *)
(***************************************************************************)
EXTENDS GameMode, TLAPS

USE PlansAssumption, EdgesAssumption

-----------------------------------------------------------------------------
(* Type correctness *)

(* Appending an edge, or taking the first, leaves a sequence of edges, and *)
(* the last edge is the one appended or the one that was last.             *)
LEMMA EmptyQueue == << >> \in Seq(Edge) /\ Len(<< >>) = 0
  OBVIOUS

LEMMA Appended ==
    ASSUME NEW q \in Seq(Edge), NEW e \in Edge
    PROVE  /\ Append(q, e) \in Seq(Edge) /\ Append(q, e) # << >>
           /\ Append(q, e)[Len(Append(q, e))] = e
  OBVIOUS

LEMMA Taken ==
    ASSUME NEW q \in Seq(Edge), q # << >>
    PROVE  /\ Tail(q) \in Seq(Edge) /\ Head(q) \in Edge
           /\ Tail(q) # << >> => Tail(q)[Len(Tail(q))] = q[Len(q)]
           /\ Tail(q) = << >> => Head(q) = q[Len(q)]
<1>1. /\ Len(q) \in Nat \ {0} /\ Head(q) = q[1] /\ 1 \in DOMAIN q
      /\ Tail(q) \in Seq(Edge) /\ Len(Tail(q)) = Len(q) - 1
      /\ \A n \in 1 .. Len(q) - 1 : Tail(q)[n] = q[n + 1]
  OBVIOUS
<1>2. ASSUME Tail(q) # << >>
      PROVE  Tail(q)[Len(Tail(q))] = q[Len(q)]
  <2>1. Len(q) - 1 \in 1 .. Len(q) - 1
    BY <1>1, <1>2
  <2> QED
    BY <1>1, <2>1
<1>3. ASSUME Tail(q) = << >>
      PROVE  Len(q) = 1
  <2>1. Len(Tail(q)) = 0
    BY <1>3, EmptyQueue
  <2>2. Len(q) - 1 = 0 /\ Len(q) \in Nat
    BY <1>1, <2>1
  <2> QED
    BY <2>2
<1> QED
  BY <1>1, <1>2, <1>3

(* set_scheme, and a call of it that is cut off, keep the types.           *)
LEMMA ActivateType ==
    ASSUME TypeOK, NEW plan \in Plans, Activate(plan)
    PROVE  scheme' \in Plans /\ boosted' \in BOOLEAN
  BY DEF TypeOK, Activate

LEMMA SetSchemeType ==
    ASSUME TypeOK, NEW plan \in Plans, NEW reported \in BOOLEAN, SetScheme(plan, reported)
    PROVE  scheme' \in Plans /\ boosted' \in BOOLEAN /\ failed' \in BOOLEAN
  BY ActivateType DEF TypeOK, SetScheme, Fails

LEMMA CallLandsType ==
    ASSUME TypeOK, CallLands
    PROVE  scheme' \in Plans /\ boosted' \in BOOLEAN /\ saved' \in Plans \cup {NoPlan}
  BY ActivateType DEF TypeOK, CallLands, Worker

(* What the worker may have in hand after a step. *)
LEMMA WorkerRecord ==
    ASSUME NEW at \in {"idle", "save", "switch", "read", "restore", "forget"},
           NEW plan \in Plans \cup {NoPlan}
    PROVE  /\ [at |-> at, plan |-> plan] \in Worker
           /\ [at |-> at, plan |-> plan].at = at
           /\ [at |-> at, plan |-> plan].plan = plan
  BY DEF Worker

LEMMA IdleOrRead == /\ Idle \in Worker /\ Idle.at = "idle"
                    /\ Read \in Worker /\ Read.at = "read"
  BY DEF Worker, Idle, Read

LEMMA ReturnsType ==
    ASSUME TypeOK, Returns
    PROVE  /\ worker' \in Worker /\ worker'.at = "idle"
           /\ mode' \in {"down", "starting", "up", "stopping", "killed"}
  BY IdleOrRead DEF TypeOK, Returns

LEMMA ContinuesType ==
    ASSUME TypeOK, NEW at \in {"save", "switch", "restore", "forget"},
           NEW plan \in Plans \cup {NoPlan}, Continues(at, plan)
    PROVE  /\ worker' \in Worker /\ worker'.at = at /\ worker'.plan = plan
           /\ mode' = mode
  BY WorkerRecord DEF Continues

LEMMA InitType == Init => TypeOK
  BY IdleOrRead, EmptyQueue DEF Init, TypeOK

LEMMA NextType == TypeOK /\ [Next]_vars => TypeOK'
<1> SUFFICES ASSUME TypeOK, [Next]_vars PROVE TypeOK'
  OBVIOUS
<1> USE DEF loopVars
<1>1. ASSUME NEW on \in BOOLEAN, NEW byUser \in BOOLEAN, NEW boost \in BOOLEAN,
             SetGaming(on, byUser, boost)
      PROVE  TypeOK'
  <2>1. manual' \in BOOLEAN /\ lease' \in BOOLEAN
    BY <1>1 DEF SetGaming, ApplySetGaming, TypeOK
  <2>2. edges' \in Seq(Edge) /\ wasGaming' \in BOOLEAN
    BY ZenonT(30), <1>1, Appended DEF SetGaming, Send, Edge, TypeOK
  <2> QED
    BY <1>1, <2>1, <2>2 DEF SetGaming, TypeOK
<1>2. CASE Tick
  BY <1>2, Appended DEF Tick, Send, Edge, Gaming, TypeOK
<1>3. CASE BoostEdge
  <2>1. edges' \in Seq(Edge)
    BY <1>3, Taken DEF BoostEdge, TypeOK
  <2>2. CASE Returns
    BY <1>3, <2>1, <2>2, ReturnsType DEF BoostEdge, Works, Fails, TypeOK
  <2>3. CASE Continues("save", scheme) /\ Works
    BY <1>3, <2>1, <2>3, ContinuesType DEF BoostEdge, Works, TypeOK
  <2> QED
    BY <1>3, <2>2, <2>3 DEF BoostEdge
<1>4. CASE Save
  <2>1. worker.plan \in Plans
    BY <1>4 DEF Save, TypeOK
  <2>2. CASE saved' = worker.plan /\ Continues("switch", worker.plan) /\ Works
    BY <1>4, <2>1, <2>2, ContinuesType DEF Save, Works, TypeOK
  <2>3. CASE saved' = saved /\ Returns /\ Fails
    BY <1>4, <2>3, ReturnsType DEF Save, Fails, TypeOK
  <2> QED
    BY <1>4, <2>2, <2>3 DEF Save
<1>5. CASE Switch
  BY <1>5, SetSchemeType, ReturnsType DEF Switch, TypeOK
<1>6. CASE RestoreEdge
  BY <1>6, Taken, IdleOrRead DEF RestoreEdge, TypeOK
<1>7. CASE ReadSaved
  <2>1. CASE saved # NoPlan /\ Continues("restore", saved) /\ Works
    BY <1>7, <2>1, ContinuesType DEF ReadSaved, Works, TypeOK
  <2>2. CASE Returns
    BY <1>7, <2>2, ReturnsType DEF ReadSaved, Works, Fails, TypeOK
  <2> QED
    BY <1>7, <2>1, <2>2 DEF ReadSaved
<1>8. CASE RestoreScheme
  <2>1. worker.plan \in Plans
    BY <1>8 DEF RestoreScheme, TypeOK
  <2>2. scheme' \in Plans /\ boosted' \in BOOLEAN /\ failed' \in BOOLEAN
    BY <1>8, <2>1, SetSchemeType DEF RestoreScheme
  <2>3. CASE Returns
    BY <1>8, <2>2, <2>3, ReturnsType DEF RestoreScheme, TypeOK
  <2>4. CASE Continues("forget", NoPlan)
    BY <1>8, <2>2, <2>4, ContinuesType DEF RestoreScheme, TypeOK
  <2> QED
    BY <1>8, <2>3, <2>4 DEF RestoreScheme
<1>9. CASE Forget
  BY <1>9, ReturnsType DEF Forget, Works, Fails, TypeOK
<1>10. CASE LeaseLapses
  BY <1>10 DEF LeaseLapses, TypeOK
<1>11. CASE Start
  BY <1>11, IdleOrRead DEF Start, TypeOK
<1>12. CASE Stop
  <2>1. scheme' \in Plans /\ boosted' \in BOOLEAN /\ saved' \in Plans \cup {NoPlan}
    BY <1>12, CallLandsType DEF Stop
  <2> QED
    BY <1>12, <2>1, IdleOrRead, EmptyQueue DEF Stop, LoopGone, TypeOK
<1>13. CASE Crash
  <2>1. scheme' \in Plans /\ boosted' \in BOOLEAN /\ saved' \in Plans \cup {NoPlan}
    BY <1>13, CallLandsType DEF Crash
  <2> QED
    BY <1>13, <2>1, IdleOrRead, EmptyQueue DEF Crash, LoopGone, TypeOK
<1>14. ASSUME NEW plan \in Plans, UserPicks(plan) PROVE TypeOK'
  BY <1>14 DEF UserPicks, TypeOK
<1>15. CASE UNCHANGED vars
  BY <1>15 DEF vars, TypeOK
<1> QED
  BY <1>1, <1>2, <1>3, <1>4, <1>5, <1>6, <1>7, <1>8, <1>9, <1>10, <1>11, <1>12, <1>13,
     <1>14, <1>15
  DEF Next, Loop, Work, Environment

(* The variables keep their types. *)
THEOREM TypeCorrect == Spec => []TypeOK
  BY InitType, NextType, PTL DEF Spec

-----------------------------------------------------------------------------
(* The way back *)

(* The plan in hand is never High Performance; when the switch is made it  *)
(* has been saved; and a restored plan is not a boost.                     *)
InHand ==
    /\ worker.at \in {"save", "switch", "restore"} => worker.plan # High
    /\ worker.at = "switch" => saved = worker.plan
    /\ worker.at = "forget" => ~boosted

PlanInv == InHand /\ saved # High /\ (boosted => scheme = High) /\ WayBack

LEMMA InitPlan == Init => PlanInv
  BY DEF Init, PlanInv, InHand, WayBack, Idle

(* A plan that is restored is not a boost. *)
LEMMA Activated ==
    ASSUME TypeOK, PlanInv, NEW plan \in Plans, Activate(plan),
           worker.at # "switch", plan # High
    PROVE  ~boosted'
  BY DEF TypeOK, PlanInv, Activate

(* Every step keeps the way back. *)
LEMMA NextPlan == TypeOK /\ TypeOK' /\ PlanInv /\ [Next]_vars => PlanInv'
<1> SUFFICES ASSUME TypeOK, TypeOK', PlanInv, [Next]_vars PROVE PlanInv'
  OBVIOUS
<1> USE DEF loopVars, PlanInv, InHand, WayBack
<1>1. CASE Loop \/ LeaseLapses
  <2>1. UNCHANGED <<worker, saved, scheme, boosted>>
    BY <1>1 DEF Loop, SetGaming, Tick, LeaseLapses
  <2> QED
    BY <2>1
<1>2. CASE BoostEdge
  BY <1>2 DEF BoostEdge, Continues, Returns, Idle, TypeOK
<1>3. CASE Save
  BY <1>3 DEF Save, Continues, Returns, Idle, TypeOK
<1>4. CASE Switch
  <2>1. worker.at = "switch" /\ worker'.at = "idle" /\ saved' = saved
    BY <1>4 DEF Switch, Returns, Idle
  <2>2. saved \in Plans \ {High}
    BY <2>1 DEF TypeOK
  <2>3. CASE Activate(High)
    <3>1. boosted' => scheme' = High
      BY <2>3 DEF Activate
    <3> QED
      BY <2>1, <2>2, <3>1
  <2>4. CASE UNCHANGED <<scheme, boosted>>
    BY <2>1, <2>2, <2>4
  <2> QED
    BY <1>4, <2>3, <2>4 DEF Switch, SetScheme
<1>5. CASE RestoreEdge
  BY <1>5 DEF RestoreEdge, Read
<1>6. CASE ReadSaved
  BY <1>6 DEF ReadSaved, Continues, Returns, Idle
<1>7. CASE RestoreScheme
  <2>1. worker.at = "restore" /\ worker.plan \in Plans \ {High} /\ saved' = saved
    BY <1>7 DEF RestoreScheme, TypeOK
  <2>0. worker'.at \in {"forget", "idle"}
    BY <1>7, ReturnsType, ContinuesType DEF RestoreScheme
  <2>2. CASE Activate(worker.plan)
    <3>1. ~boosted'
      BY <2>1, <2>2, Activated
    <3> QED
      BY <2>0, <2>1, <3>1
  <2>3. CASE worker'.at = "idle" /\ UNCHANGED <<scheme, boosted>>
    BY <2>1, <2>3
  <2> QED
    BY <1>7, <2>2, <2>3 DEF RestoreScheme, SetScheme, Returns, Idle
<1>8. CASE Forget
  BY <1>8 DEF Forget, Returns, Idle
<1>9. CASE Start
  BY <1>9 DEF Start, Read
<1>10. CASE Stop \/ Crash
  <2>1. CallLands /\ worker'.at \in {"idle", "read"}
    BY <1>10 DEF Stop, Crash, Read, Idle
  <2>2. CASE UNCHANGED <<saved, scheme, boosted>>
    BY <2>1, <2>2
  <2>3. CASE worker.at = "save" /\ saved' = worker.plan /\ UNCHANGED <<scheme, boosted>>
    BY <2>1, <2>3 DEF TypeOK
  <2>4. CASE worker.at = "forget" /\ saved' = NoPlan /\ UNCHANGED <<scheme, boosted>>
    BY <2>1, <2>4
  <2>5. CASE worker.at = "switch" /\ Activate(High) /\ UNCHANGED saved
    <3>1. saved \in Plans \ {High}
      BY <2>5 DEF TypeOK
    <3>2. boosted' => scheme' = High
      BY <2>5 DEF Activate
    <3> QED
      BY <2>1, <2>5, <3>1, <3>2
  <2>6. CASE worker.at = "restore" /\ Activate(worker.plan) /\ UNCHANGED saved
    <3>1. worker.plan \in Plans \ {High}
      BY <2>6 DEF TypeOK
    <3> QED
      BY <2>1, <2>6, <3>1, Activated
  <2> QED
    BY <2>1, <2>2, <2>3, <2>4, <2>5, <2>6 DEF CallLands
<1>11. ASSUME NEW plan \in Plans, UserPicks(plan) PROVE PlanInv'
  BY <1>11 DEF UserPicks
<1>12. CASE UNCHANGED vars
  BY <1>12 DEF vars
<1> QED
  BY <1>1, <1>2, <1>3, <1>4, <1>5, <1>6, <1>7, <1>8, <1>9, <1>10, <1>11, <1>12
  DEF Next, Work, Environment

(* Whatever fails or dies, a boost has its predecessor recorded: the plan  *)
(* is saved before the switch and forgotten only after the restore.        *)
THEOREM WayBackKept == Spec => []WayBack
<1>1. Spec => []PlanInv
  BY InitType, NextType, InitPlan, NextPlan, PTL DEF Spec
<1> QED
  BY <1>1, PTL DEF PlanInv

-----------------------------------------------------------------------------
(* Edges, and what is left when a game or the service is over *)

(* Outside the loop nobody is playing and no edge waits; startup and       *)
(* shutdown only restore.                                                  *)
OutsideLoop ==
    /\ mode # "up" => edges = << >> /\ ~wasGaming /\ ~Gaming
    /\ mode \in {"down", "killed"} => worker.at = "idle"
    /\ mode \in {"starting", "stopping"} => worker.at \in {"read", "restore", "forget"}

Clean == saved = NoPlan /\ ~boosted

(* With no edge waiting and no game on, the worker has answered an edge    *)
(* that ended one: it is restoring, or has restored.                       *)
AfterGame ==
    mode = "up" /\ edges = << >> /\ ~wasGaming
        => /\ worker.at \in {"idle", "read", "restore", "forget"}
           /\ worker.at = "idle" /\ ~failed => Clean

EdgeInv == GamingIsTold /\ OutsideLoop /\ AfterGame /\ StopsClean

LEMMA InitEdge == Init => EdgeInv
  BY IdleOrRead, EmptyQueue
  DEF Init, EdgeInv, GamingIsTold, Gaming, OutsideLoop, AfterGame, StopsClean

(* A routine that returns with nothing failed leaves the machine clean,    *)
(* at startup and shutdown as in the loop.                                 *)
LEMMA RestoreReturns ==
    ASSUME TypeOK, EdgeInv, Returns, worker.at \in {"read", "restore", "forget"},
           edges' = edges, UNCHANGED loopVars, ~failed' => Clean'
    PROVE  EdgeInv'
<1>1. worker'.at = "idle"
  BY ReturnsType
<1>2. /\ mode = "starting" => mode' = "up"
      /\ mode = "stopping" => mode' = "down"
      /\ mode \notin {"starting", "stopping"} => mode' = mode
  BY DEF Returns
<1>3. mode \notin {"down", "killed"}
  BY DEF EdgeInv, OutsideLoop
<1>4. GamingIsTold'
  BY DEF EdgeInv, GamingIsTold, Gaming, loopVars
<1>5. OutsideLoop'
  BY <1>1, <1>2, <1>3 DEF EdgeInv, OutsideLoop, Gaming, loopVars
<1>6. AfterGame'
  BY <1>1 DEF AfterGame
<1>7. StopsClean'
  BY DEF StopsClean, Clean
<1> QED
  BY <1>4, <1>5, <1>6, <1>7 DEF EdgeInv

(* A routine of the worker that goes on, or that was boosting.             *)
LEMMA WorkerGoesOn ==
    ASSUME TypeOK, EdgeInv, mode' = mode, edges' = edges, UNCHANGED loopVars,
           worker.at # "idle",
           \/ worker.at \in {"save", "switch"}
           \/ worker'.at \in {"restore", "forget"}
    PROVE  EdgeInv'
<1>1. mode \notin {"down", "killed"}
  BY DEF EdgeInv, OutsideLoop
<1>2. GamingIsTold'
  BY DEF EdgeInv, GamingIsTold, Gaming, loopVars
<1>3. OutsideLoop'
  BY <1>1 DEF EdgeInv, OutsideLoop, Gaming, loopVars
<1>4. AfterGame'
  BY DEF EdgeInv, AfterGame, loopVars
<1>5. StopsClean'
  BY <1>1 DEF StopsClean
<1> QED
  BY <1>2, <1>3, <1>4, <1>5 DEF EdgeInv

LEMMA NextEdge == TypeOK /\ TypeOK' /\ PlanInv /\ PlanInv' /\ EdgeInv /\ [Next]_vars => EdgeInv'
<1> SUFFICES ASSUME TypeOK, TypeOK', PlanInv, PlanInv', EdgeInv, [Next]_vars PROVE EdgeInv'
  OBVIOUS
<1>1. ASSUME NEW on \in BOOLEAN, NEW byUser \in BOOLEAN, NEW boost \in BOOLEAN,
             SetGaming(on, byUser, boost)
      PROVE  EdgeInv'
  <2>1. mode = "up" /\ mode' = "up" /\ UNCHANGED <<worker, saved, boosted, failed>>
    BY <1>1 DEF SetGaming
  <2>2. CASE UNCHANGED <<edges, wasGaming>> /\ (Gaming' = Gaming)
    BY <2>1, <2>2
    DEF EdgeInv, GamingIsTold, OutsideLoop, AfterGame, StopsClean, Clean
  <2>3. ASSUME NEW now \in BOOLEAN, NEW b \in BOOLEAN, Send(now, b), wasGaming' = now,
               Gaming' => now
        PROVE  EdgeInv'
    <3>1. edges' # << >> /\ edges'[Len(edges')].on = now
      BY <2>3, Appended DEF Send, Edge, TypeOK
    <3> QED
      BY <2>1, <2>3, <3>1
      DEF EdgeInv, GamingIsTold, OutsideLoop, AfterGame, StopsClean
  <2> QED
    BY <1>1, <2>2, <2>3 DEF SetGaming
<1>2. CASE Tick
  <2>1. edges' # << >> /\ edges'[Len(edges')].on = FALSE
    BY <1>2, Appended DEF Tick, Send, Edge, TypeOK
  <2>2. /\ mode = "up" /\ mode' = "up" /\ wasGaming' = FALSE /\ ~Gaming'
    BY <1>2 DEF Tick, Gaming, TypeOK
  <2> QED
    BY <2>1, <2>2 DEF EdgeInv, GamingIsTold, OutsideLoop, AfterGame, StopsClean
<1>3. CASE BoostEdge \/ RestoreEdge
  <2>1. /\ edges' = Tail(edges) /\ edges # << >> /\ mode = "up" /\ UNCHANGED loopVars
        /\ UNCHANGED <<saved, boosted>>
    BY <1>3 DEF BoostEdge, RestoreEdge
  <2>2. mode' = "up"
    BY <1>3 DEF BoostEdge, RestoreEdge, Returns, Continues
  <2>3. /\ edges' # << >> => edges'[Len(edges')] = edges[Len(edges)]
        /\ edges' = << >> => Head(edges) = edges[Len(edges)]
    BY <2>1, Taken DEF TypeOK
  <2>4. GamingIsTold'
    BY <2>1, <2>3 DEF EdgeInv, GamingIsTold, Gaming, loopVars
  <2>5. AfterGame'
    <3>1. SUFFICES ASSUME edges' = << >>, ~wasGaming PROVE worker'.at = "read"
      BY <2>1 DEF AfterGame, loopVars
    <3>2. ~Head(edges).on
      BY <2>1, <2>3, <3>1 DEF EdgeInv, GamingIsTold
    <3> QED
      BY <1>3, <3>2, IdleOrRead DEF BoostEdge, RestoreEdge
  <2>6. OutsideLoop' /\ StopsClean'
    BY <2>2 DEF OutsideLoop, StopsClean
  <2> QED
    BY <2>4, <2>5, <2>6 DEF EdgeInv
<1>4. CASE Save \/ Switch
  <2>1. worker.at \in {"save", "switch"} /\ edges' = edges /\ UNCHANGED loopVars
    BY <1>4 DEF Save, Switch
  <2>2. mode' = mode
    BY <1>4, <2>1 DEF Save, Switch, Returns, Continues, EdgeInv, OutsideLoop
  <2> QED
    BY <2>1, <2>2, WorkerGoesOn
<1>5. CASE ReadSaved
  <2>1. worker.at = "read" /\ UNCHANGED <<loopVars, edges, saved, boosted>>
    BY <1>5 DEF ReadSaved
  <2>2. CASE Continues("restore", saved)
    BY <2>1, <2>2, ContinuesType, WorkerGoesOn DEF TypeOK
  <2>3. CASE Returns /\ saved = NoPlan
    BY <2>1, <2>3, RestoreReturns, PlansAssumption DEF Clean, PlanInv, WayBack
  <2>4. CASE Returns /\ Fails
    BY <2>1, <2>4, RestoreReturns DEF Fails
  <2> QED
    BY <1>5, <2>2, <2>3, <2>4 DEF ReadSaved
<1>6. CASE RestoreScheme
  <2>1. worker.at = "restore" /\ edges' = edges /\ UNCHANGED loopVars
    BY <1>6 DEF RestoreScheme
  <2>2. CASE Continues("forget", NoPlan)
    BY <2>1, <2>2, ContinuesType, WorkerGoesOn
  <2>3. CASE SetScheme(worker.plan, FALSE) /\ Returns
    <3>1. failed' = TRUE
      BY <2>3 DEF SetScheme, Fails
    <3> QED
      BY <2>1, <2>3, <3>1, RestoreReturns
  <2> QED
    BY <1>6, <2>2, <2>3 DEF RestoreScheme
<1>7. CASE Forget
  <2>1. /\ worker.at = "forget" /\ edges' = edges /\ UNCHANGED loopVars /\ Returns
        /\ UNCHANGED boosted
    BY <1>7 DEF Forget
  <2>2. ~failed' => Clean'
    BY <1>7, <2>1 DEF Forget, Fails, Clean, PlanInv, InHand
  <2> QED
    BY <2>1, <2>2, RestoreReturns
<1>8. CASE LeaseLapses
  <2>1. /\ mode = "up" /\ UNCHANGED <<mode, wasGaming, edges, worker, saved, boosted, failed>>
        /\ Gaming' => Gaming
    BY <1>8 DEF LeaseLapses, Gaming
  <2> QED
    BY <2>1 DEF EdgeInv, GamingIsTold, OutsideLoop, AfterGame, StopsClean, Clean
<1>9. CASE Start
  <2>1. /\ mode' = "starting" /\ worker'.at = "read" /\ UNCHANGED <<loopVars, edges>>
        /\ mode # "up"
    BY <1>9, IdleOrRead DEF Start
  <2> QED
    BY <2>1 DEF EdgeInv, GamingIsTold, Gaming, OutsideLoop, AfterGame, StopsClean, loopVars
<1>10. CASE Stop \/ Crash
  <2>1. LoopGone
    BY <1>10 DEF Stop, Crash
  <2>2. \/ mode' = "stopping" /\ worker'.at = "read"
        \/ mode' = "killed" /\ worker'.at = "idle"
    BY <1>10, IdleOrRead DEF Stop, Crash
  <2> QED
    BY <2>1, <2>2
    DEF LoopGone, EdgeInv, GamingIsTold, Gaming, OutsideLoop, AfterGame, StopsClean
<1>11. ASSUME NEW plan \in Plans, UserPicks(plan) PROVE EdgeInv'
  <2>1. /\ UNCHANGED <<mode, manual, lease, wasGaming, edges, worker, saved, failed>>
        /\ boosted' => boosted
    BY <1>11 DEF UserPicks, loopVars
  <2> QED
    BY <2>1 DEF EdgeInv, GamingIsTold, Gaming, OutsideLoop, AfterGame, StopsClean, Clean
<1>12. CASE UNCHANGED vars
  BY <1>12
  DEF vars, loopVars, EdgeInv, GamingIsTold, Gaming, OutsideLoop, AfterGame, StopsClean, Clean
<1> QED
  BY <1>1, <1>2, <1>3, <1>4, <1>5, <1>6, <1>7, <1>8, <1>9, <1>10, <1>11, <1>12
  DEF Next, Loop, Work, Environment

LEMMA EdgeInvariant == Spec => []EdgeInv
  BY InitType, NextType, InitPlan, NextPlan, InitEdge, NextEdge, PTL DEF Spec

(* The worker has been sent an edge for every game in progress, and the    *)
(* last edge waiting is what the loop believes.                            *)
THEOREM EdgesAreTold == Spec => []GamingIsTold
  BY EdgeInvariant, PTL DEF EdgeInv

(* A game over and an idle worker mean that the boost and its record are   *)
(* gone, unless a call failed since the service started.                   *)
THEOREM SettledWhenIdle == Spec => []Settled
<1>1. EdgeInv => Settled
  BY DEF EdgeInv, AfterGame, Settled, Clean, Idle
<1> QED
  BY <1>1, EdgeInvariant, PTL

(* A service that has stopped in good order leaves no boost behind.        *)
THEOREM StopLeavesNoBoost == Spec => []StopsClean
  BY EdgeInvariant, PTL DEF EdgeInv

=============================================================================
