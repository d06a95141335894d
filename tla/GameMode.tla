------------------------------- MODULE GameMode -------------------------------
(***************************************************************************)
(* Game Mode and the only system change it makes, the power plan           *)
(* (eir-svc/src/game_mode.rs and the gaming parts of main.rs).             *)
(*                                                                         *)
(* The decision loop keeps two inputs (a manual latch, a lease the tray    *)
(* renews) and sends an edge to a serial worker when their disjunction     *)
(* changes.  The worker saves the active plan in the database, switches to *)
(* High Performance, and later restores.  The user may pick a plan at any  *)
(* moment; every call of powercfg.exe or of the database may fail, and a   *)
(* powercfg that timed out may have worked; the process may be stopped or  *)
(* killed between any two steps.                                           *)
(***************************************************************************)
EXTENDS Naturals, Sequences

CONSTANTS
    Plans,     \* power schemes of the machine
    High,      \* HIGH_PERF_GUID
    NoPlan,    \* app_state has no RESTORE_KEY
    MaxEdges   \* bound of the model: edges waiting in the channel

ASSUME PlansAssumption == High \in Plans /\ NoPlan \notin Plans
ASSUME EdgesAssumption == MaxEdges \in Nat \ {0}

VARIABLES
    mode,       \* "down", "starting", "up", "stopping", or "killed"
    manual,     \* st.gaming_manual
    lease,      \* st.gaming_until > now
    wasGaming,  \* was_gaming
    edges,      \* game_mode_edge_tx -> game_mode_edge_rx
    worker,     \* where on_gaming_edge or restore is, and the plan it holds
    saved,      \* app_state[RESTORE_KEY]
    scheme,     \* the active power scheme
    boosted,    \* history: Eir chose the active scheme, High Performance
    failed      \* history: a call of powercfg or the database failed since start

loopVars == <<manual, lease, wasGaming>>
vars == <<mode, loopVars, edges, worker, saved, scheme, boosted, failed>>

-----------------------------------------------------------------------------
(* Types *)

Edge == [on : BOOLEAN, boost : BOOLEAN]

(* "save", "switch": on_gaming_edge holds the plan to come back to.        *)
(* "read", "restore", "forget": restore, before each of its three calls.   *)
Worker == [at : {"idle", "save", "switch", "read", "restore", "forget"},
           plan : Plans \cup {NoPlan}]

Idle == [at |-> "idle", plan |-> NoPlan]
Read == [at |-> "read", plan |-> NoPlan]

TypeOK ==
    /\ mode \in {"down", "starting", "up", "stopping", "killed"}
    /\ manual \in BOOLEAN /\ lease \in BOOLEAN /\ wasGaming \in BOOLEAN
    /\ edges \in Seq(Edge)
    /\ worker \in Worker
    /\ worker.at \in {"save", "switch", "restore"} => worker.plan \in Plans
    /\ saved \in Plans \cup {NoPlan}
    /\ scheme \in Plans
    /\ boosted \in BOOLEAN /\ failed \in BOOLEAN

Init ==
    /\ mode = "down"
    /\ manual = FALSE /\ lease = FALSE /\ wasGaming = FALSE
    /\ edges = << >>
    /\ worker = Idle
    /\ saved = NoPlan
    /\ scheme \in Plans
    /\ boosted = FALSE /\ failed = FALSE

-----------------------------------------------------------------------------
(* The decision loop *)

(* is_gaming_at *)
Gaming == manual \/ lease

Send(on, boost) == /\ Len(edges) < MaxEdges
                   /\ edges' = Append(edges, [on |-> on, boost |-> boost])

(* The user's click is a latch whose OFF also withdraws the lease; the     *)
(* detector's message renews or withdraws the lease only.                  *)
ApplySetGaming(on, byUser) ==
    /\ manual' = IF byUser THEN on ELSE manual
    /\ lease' = IF byUser THEN lease /\ on ELSE on

(* Mutant: the edge is the flag of the message, not the change of the whole. *)
SetGamingRawFlag(on, byUser, boost) ==
    /\ mode = "up"
    /\ ApplySetGaming(on, byUser)
    /\ Send(on, boost)
    /\ wasGaming' = on
    /\ UNCHANGED <<mode, worker, saved, scheme, boosted, failed>>

(* SetGaming: the edge is the change of the whole, not the flag of the     *)
(* message, and carries the power_boost setting of that moment.            *)
SetGaming(on, byUser, boost) ==
    /\ mode = "up"
    /\ ApplySetGaming(on, byUser)
    /\ \/ /\ ~Gaming /\ Gaming'
          /\ Send(TRUE, boost)
          /\ wasGaming' = TRUE
       \/ /\ Gaming /\ ~Gaming'
          /\ Send(FALSE, FALSE)
          /\ wasGaming' = FALSE
       \/ /\ Gaming' = Gaming
          /\ UNCHANGED <<edges, wasGaming>>
    /\ UNCHANGED <<mode, worker, saved, scheme, boosted, failed>>

(* 90 s without a renewal; nobody is told. *)
LeaseLapses ==
    /\ mode = "up" /\ lease
    /\ lease' = FALSE
    /\ UNCHANGED <<mode, manual, wasGaming, edges, worker, saved, scheme, boosted, failed>>

(* Mutant: the tick records that the game is over and sends no edge. *)
TickForgetsEdge ==
    /\ mode = "up" /\ wasGaming /\ ~Gaming
    /\ wasGaming' = FALSE
    /\ UNCHANGED <<mode, manual, lease, edges, worker, saved, scheme, boosted, failed>>

(* The reconciliation of each tick notices a lapse; without one it leaves  *)
(* was_gaming as it is, which GamingIsTold checks.                         *)
Tick ==
    /\ mode = "up" /\ wasGaming /\ ~Gaming
    /\ Send(FALSE, FALSE)
    /\ wasGaming' = Gaming
    /\ UNCHANGED <<mode, manual, lease, worker, saved, scheme, boosted, failed>>

-----------------------------------------------------------------------------
(* The power-plan worker; restore is also run by startup and by shutdown.  *)

(* The routine returns: the worker waits for the next edge, startup goes   *)
(* on to the loop, shutdown to the end.                                    *)
Returns == /\ worker' = Idle
           /\ mode' = CASE mode = "starting" -> "up"
                        [] mode = "stopping" -> "down"
                        [] OTHER -> mode

Continues(at, plan) == worker' = [at |-> at, plan |-> plan] /\ mode' = mode

Fails == failed' = TRUE
Works == failed' = failed

Activate(plan) ==
    /\ scheme' = plan
    /\ boosted' = IF plan = scheme THEN boosted ELSE worker.at = "switch"

(* set_scheme, reported to have worked or not; a powercfg that is reported *)
(* to have timed out may have worked.                                      *)
SetScheme(plan, reported) ==
    \/ Activate(plan) /\ failed' = (failed \/ ~reported)
    \/ ~reported /\ Fails /\ UNCHANGED <<scheme, boosted>>

(* on_gaming_edge, on: nothing without the setting, or when High is active *)
(* already; otherwise the plan read is the one to save.                    *)
BoostEdge ==
    /\ mode = "up" /\ worker = Idle /\ edges # << >> /\ Head(edges).on
    /\ edges' = Tail(edges)
    /\ \/ /\ Head(edges).boost /\ scheme # High
          /\ Continues("save", scheme) /\ Works
       \/ /\ ~Head(edges).boost \/ scheme = High
          /\ Returns /\ Works
       \/ /\ Head(edges).boost
          /\ Returns /\ Fails
    /\ UNCHANGED <<loopVars, saved, scheme, boosted>>

(* on_gaming_edge, off: restore, whatever the setting is now. *)
RestoreEdge ==
    /\ mode = "up" /\ worker = Idle /\ edges # << >> /\ ~Head(edges).on
    /\ edges' = Tail(edges)
    /\ worker' = Read
    /\ UNCHANGED <<mode, loopVars, saved, scheme, boosted, failed>>

(* Mutant: the plan is switched although the way back was not stored. *)
SaveUnchecked ==
    /\ worker.at = "save"
    /\ \/ saved' = worker.plan /\ Works
       \/ saved' = saved /\ Fails
    /\ Continues("switch", worker.plan)
    /\ UNCHANGED <<loopVars, edges, scheme, boosted>>

(* set_state(RESTORE_KEY): without a recorded way back, no switch. *)
Save ==
    /\ worker.at = "save"
    /\ \/ saved' = worker.plan /\ Continues("switch", worker.plan) /\ Works
       \/ saved' = saved /\ Returns /\ Fails
    /\ UNCHANGED <<loopVars, edges, scheme, boosted>>

Switch ==
    /\ worker.at = "switch"
    /\ \E reported \in BOOLEAN : SetScheme(High, reported)
    /\ Returns
    /\ UNCHANGED <<loopVars, edges, saved>>

(* Mutant: a missing key is read as a plan. *)
ReadUnchecked ==
    /\ worker.at = "read"
    /\ Continues("restore", saved) /\ Works
    /\ UNCHANGED <<loopVars, edges, saved, scheme, boosted>>

(* get_state(RESTORE_KEY) *)
ReadSaved ==
    /\ worker.at = "read"
    /\ \/ saved # NoPlan /\ Continues("restore", saved) /\ Works
       \/ saved = NoPlan /\ Returns /\ Works
       \/ Returns /\ Fails
    /\ UNCHANGED <<loopVars, edges, saved, scheme, boosted>>

(* Mutant: the plan restored stays recorded. *)
RestoreKeepsKey ==
    /\ worker.at = "restore"
    /\ \E reported \in BOOLEAN : SetScheme(worker.plan, reported)
    /\ Returns
    /\ UNCHANGED <<loopVars, edges, saved>>

(* set_scheme(guid): unless it is reported to have worked, the key stays. *)
RestoreScheme ==
    /\ worker.at = "restore"
    /\ \/ SetScheme(worker.plan, TRUE) /\ Continues("forget", NoPlan)
       \/ SetScheme(worker.plan, FALSE) /\ Returns
    /\ UNCHANGED <<loopVars, edges, saved>>

(* delete_state(RESTORE_KEY) *)
Forget ==
    /\ worker.at = "forget"
    /\ \/ saved' = NoPlan /\ Works
       \/ saved' = saved /\ Fails
    /\ Returns
    /\ UNCHANGED <<loopVars, edges, scheme, boosted>>

-----------------------------------------------------------------------------
(* Starting and stopping *)

(* The call the worker was in is cut off: it may have taken effect. *)
CallLands ==
    \/ UNCHANGED <<saved, scheme, boosted>>
    \/ worker.at = "save" /\ saved' = worker.plan /\ UNCHANGED <<scheme, boosted>>
    \/ worker.at = "forget" /\ saved' = NoPlan /\ UNCHANGED <<scheme, boosted>>
    \/ worker.at = "switch" /\ Activate(High) /\ UNCHANGED saved
    \/ worker.at = "restore" /\ Activate(worker.plan) /\ UNCHANGED saved

LoopGone == /\ manual' = FALSE /\ lease' = FALSE /\ wasGaming' = FALSE
            /\ edges' = << >>

(* Startup restores before it spawns the worker or enters the loop. *)
Start ==
    /\ mode \in {"down", "killed"}
    /\ mode' = "starting"
    /\ worker' = Read
    /\ failed' = FALSE
    /\ UNCHANGED <<loopVars, edges, saved, scheme, boosted>>

(* Mutant: a routine the worker is in is left to finish, not aborted. *)
StopDetached ==
    /\ mode = "up"
    /\ mode' = "stopping"
    /\ worker' = IF worker = Idle THEN Read ELSE worker
    /\ LoopGone
    /\ UNCHANGED <<saved, scheme, boosted, failed>>

(* Shutdown closes the channel, aborts the worker and restores. *)
Stop ==
    /\ mode = "up"
    /\ CallLands
    /\ mode' = "stopping"
    /\ worker' = Read
    /\ failed' = failed
    /\ LoopGone

Crash ==
    /\ mode \notin {"down", "killed"}
    /\ CallLands
    /\ mode' = "killed"
    /\ worker' = Idle
    /\ failed' = failed
    /\ LoopGone

(* The user picks a plan, in Windows, whenever they like. *)
UserPicks(plan) ==
    /\ scheme' = plan
    /\ boosted' = (boosted /\ plan = scheme)
    /\ UNCHANGED <<mode, loopVars, edges, worker, saved, failed>>

-----------------------------------------------------------------------------
(* Specification *)

Loop == \/ \E on, byUser, boost \in BOOLEAN : SetGaming(on, byUser, boost)
        \/ Tick

Work == \/ BoostEdge \/ Save \/ Switch
        \/ RestoreEdge \/ ReadSaved \/ RestoreScheme \/ Forget

Environment == \/ LeaseLapses \/ Start \/ Stop \/ Crash
               \/ \E plan \in Plans : UserPicks(plan)

Next == Loop \/ Work \/ Environment

Spec == Init /\ [][Next]_vars

(* The decision tick is periodic (main.rs, decision_tick), the worker is a *)
(* task of its own, and the service is registered to start automatically.  *)
FairSpec == Spec /\ WF_vars(Tick) /\ WF_vars(Work) /\ WF_vars(Start)

-----------------------------------------------------------------------------
(* Properties *)

(* Whatever fails or dies, a High Performance plan that Eir chose has its  *)
(* predecessor recorded in the database ("never change the plan without a  *)
(* recorded way back", on_gaming_edge).                                    *)
WayBack == boosted => saved \in Plans \ {High}

(* The worker is told of every change: a game in progress is one the loop  *)
(* has sent an edge for, and the last edge waiting is the loop's belief    *)
(* (SetGaming and the lease reconciliation of the tick).                   *)
GamingIsTold ==
    /\ Gaming => wasGaming
    /\ edges # << >> => edges[Len(edges)].on = wasGaming

(* When the game is over and the worker has caught up, the boost and its   *)
(* record are gone, unless a call failed since the service started; a      *)
(* restart puts right what failed before it (restore, on both paths).      *)
Settled ==
    mode = "up" /\ worker = Idle /\ edges = << >> /\ ~wasGaming /\ ~failed
        => saved = NoPlan /\ ~boosted

(* A service stopped in good order leaves no boost behind, whatever the    *)
(* worker was doing (shutdown: abort the worker, then restore).            *)
StopsClean == mode = "down" /\ ~failed => ~boosted

(* A boost does not outlast the game: it ends, or a new game begins, or a  *)
(* call failed, provided the service is not killed again and again (lease, *)
(* tick, edge channel, restore at startup).                                *)
BoostEnds ==
    <>[](mode # "killed")
        => ((boosted /\ ~Gaming) ~> (~boosted \/ Gaming \/ failed))

=============================================================================
