----------------------------- MODULE SystemPoll -----------------------------
(***************************************************************************)
(* The system-state collector (signals/wmi): a poll of minutes that probes *)
(* one source after another from a copy of the last snapshot, and a quick  *)
(* rescan of the services alone, asked for by the user, by a fix that      *)
(* worked and on Linux by every pass.  Both write one cache, from which    *)
(* the decision loop copies what it shows.  Of the sources there are the   *)
(* services, the firewall and one that can only fail ("disk").             *)
(***************************************************************************)
EXTENDS Integers, FiniteSets

CONSTANTS
    Services,    \* services that may be in the failed state
    Profiles,    \* firewall profiles
    MaxChanges,  \* bound: changes of the machine
    MaxReads     \* bound: polls and rescans

ASSUME SystemPollAssumption == {MaxChanges, MaxReads} \subseteq Nat

VARIABLES
    failing,   \* services failed now
    localFw, policyFw,  \* [Profiles -> ...]: the setting and the policy over it
    cache,     \* SharedState
    poll,      \* the poll in flight; history: its read of the services worked
    rescan,    \* the rescan in flight
    lastKey,   \* last_fault_key
    pinged,    \* the trigger was sent
    shown,     \* st.failed_services, st.signal_errors
    changes, reads,
    lastSeen,  \* history: the last successful read of the services to complete
    working    \* history: services a rescan saw working, not failed since, when no
               \* poll could overtake it

machineVars == <<failing, localFw, policyFw, changes>>
seenVars == <<lastSeen, working>>
pollVars == <<machineVars, cache, poll, rescan, lastKey, pinged, shown, reads, seenVars>>

Sources  == {"services", "firewall", "disk"}
States   == {"on", "off", "unknown"}

\* current, before the first snapshot
Empty == [some |-> FALSE, failed |-> {}, firewall |-> [p \in Profiles |-> "unknown"],
          errors |-> {"not_collected"}]

Snapshots == [some : BOOLEAN, failed : SUBSET Services, firewall : [Profiles -> States],
              errors : SUBSET (Sources \cup {"not_collected"})]
IdlePoll   == [at |-> "idle", state |-> Empty, saw |-> FALSE]
IdleRescan == [at |-> "idle", failed |-> {}]

PollTypeOK ==
    /\ failing \subseteq Services
    /\ localFw \in [Profiles -> {"on", "off"}] /\ policyFw \in [Profiles -> {"on", "off", "none"}]
    /\ cache \in Snapshots
    /\ poll \in [at : {"idle", "started", "services", "probed"}, state : Snapshots, saw : BOOLEAN]
    /\ rescan \in [at : {"idle", "read", "failed"}, failed : SUBSET Services]
    /\ lastKey \in SUBSET ((Services \cup Profiles) \X {"fault"})
    /\ pinged \in BOOLEAN /\ shown \in [failed : SUBSET Services, errors : SUBSET (Sources \cup {"not_collected"})]
    /\ changes \in 0 .. MaxChanges /\ reads \in 0 .. MaxReads
    /\ lastSeen \subseteq Services /\ working \subseteq Services

PollInit ==
    /\ failing = {} /\ localFw = [p \in Profiles |-> "on"] /\ policyFw = [p \in Profiles |-> "none"]
    /\ cache = Empty /\ poll = IdlePoll /\ rescan = IdleRescan
    /\ lastKey = {} /\ pinged = FALSE /\ shown = [failed |-> {}, errors |-> {}]
    /\ changes = 0 /\ reads = 0 /\ lastSeen = {} /\ working = {}

-----------------------------------------------------------------------------

MachineChanges ==
    /\ changes < MaxChanges /\ changes' = changes + 1
    /\ \/ \E s \in Services :
            /\ failing' = IF s \in failing THEN failing \ {s} ELSE failing \cup {s}
            /\ UNCHANGED <<localFw, policyFw>>
       \/ \E p \in Profiles, on \in {"on", "off"} :
            /\ localFw' = [localFw EXCEPT ![p] = on]
            /\ UNCHANGED <<failing, policyFw>>
       \/ \E on \in {"on", "off", "none"} :
            /\ policyFw' = [p \in Profiles |-> on]
            /\ UNCHANGED <<failing, localFw>>
    /\ working' = working \ failing'
    /\ UNCHANGED <<cache, poll, rescan, lastKey, pinged, shown, reads, lastSeen>>

\* effective_firewall: a policy that holds it off is not a fault.
Effective(p) == CASE policyFw[p] = "on"  -> "on"
                  [] policyFw[p] = "off" -> "unknown"
                  [] OTHER -> localFw[p]

\* fault_parts: the faults of a snapshot.
Faults(s) == {<<f, "fault">> : f \in s.failed \cup {p \in Profiles : s.firewall[p] = "off"}}

\* Mutant: the failure of a probe goes unsaid.
Unsaid(state, source) == state

CanRead == reads < MaxReads /\ reads' = reads + 1

\* The poll starts from the snapshot that is current.
PollStarts ==
    /\ poll.at = "idle" /\ CanRead
    /\ poll' = [at |-> "started", state |-> [cache EXCEPT !.errors = {}, !.some = TRUE], saw |-> FALSE]
    /\ UNCHANGED <<machineVars, cache, rescan, lastKey, pinged, shown, seenVars>>

\* retain_or_report: a probe's value, or the last one and a note of the failure.
Retained(state, source) == [state EXCEPT !.errors = @ \cup {source}]

ProbeServices ==
    /\ poll.at = "started"
    /\ poll' \in {[at |-> "services", state |-> [poll.state EXCEPT !.failed = failing], saw |-> TRUE],
                  [at |-> "services", state |-> Retained(poll.state, "services"), saw |-> FALSE]}
    /\ UNCHANGED <<machineVars, cache, rescan, lastKey, pinged, shown, reads, seenVars>>

FirewallKnown == \E p \in Profiles : Effective(p) # "unknown"

ProbeOthers ==
    /\ poll.at = "services"
    /\ LET fw == IF FirewallKnown
                 THEN [poll.state EXCEPT !.firewall = [p \in Profiles |-> Effective(p)]]
                 ELSE Retained(poll.state, "firewall")
       IN  \E state \in {fw, Retained(fw, "disk")} : poll' = [poll EXCEPT !.at = "probed", !.state = state]
    /\ UNCHANGED <<machineVars, cache, rescan, lastKey, pinged, shown, reads, seenVars>>

\* fault_changed: any change between two polls wakes the loop, none does not.
PollEnds ==
    /\ poll.at = "probed"
    /\ cache' = poll.state /\ poll' = IdlePoll
    /\ lastKey' = Faults(poll.state)
    /\ pinged' = (pinged \/ lastKey # Faults(poll.state))
    /\ lastSeen' = IF poll.saw THEN poll.state.failed ELSE lastSeen
    /\ UNCHANGED <<machineVars, rescan, shown, reads, working>>

\* A snapshot task that panics leaves the cache as it is.
PollPanics ==
    /\ poll.at = "started"
    /\ poll' = IdlePoll
    /\ UNCHANGED <<machineVars, cache, rescan, lastKey, pinged, shown, reads, seenVars>>

-----------------------------------------------------------------------------
(* rescan_failed_services: the decision loop waits for it *)

RescanReads ==
    /\ rescan = IdleRescan /\ CanRead
    /\ rescan' \in {[at |-> "read", failed |-> failing], [at |-> "failed", failed |-> {}]}
    /\ UNCHANGED <<machineVars, cache, poll, lastKey, pinged, shown, seenVars>>

\* Mutant: the rescan is shown, and not cached.
ShownOnly == cache

Rescanned == [cache EXCEPT !.failed = rescan.failed, !.errors = @ \ {"services"}]
RescanFailed == [cache EXCEPT !.errors = @ \cup {"services"}]

\* Corrects the services of the cache, if there is one, and is shown at once.
RescanEnds ==
    /\ rescan.at # "idle"
    /\ cache' = IF ~cache.some THEN cache
                ELSE IF rescan.at = "read" THEN Rescanned ELSE RescanFailed
    /\ shown' = [shown EXCEPT !.failed = IF rescan.at = "read" THEN rescan.failed ELSE cache'.failed]
    /\ lastSeen' = IF rescan.at = "read" THEN rescan.failed ELSE lastSeen
    /\ working' = IF rescan.at = "read" /\ poll.at = "idle"
                  THEN Services \ (rescan.failed \cup failing)
                  ELSE IF poll.at = "idle" THEN working ELSE {}
    /\ rescan' = IdleRescan
    /\ UNCHANGED <<machineVars, poll, lastKey, pinged, reads>>

\* apply_live_metrics: a pass of the loop, woken or scheduled.
LoopPass ==
    /\ rescan = IdleRescan
    /\ shown' = [failed |-> cache.failed, errors |-> cache.errors]
    /\ pinged' = FALSE
    /\ UNCHANGED <<machineVars, cache, poll, rescan, lastKey, reads, seenVars>>

PollNext == \/ MachineChanges
            \/ PollStarts \/ ProbeServices \/ ProbeOthers \/ PollEnds \/ PollPanics
            \/ RescanReads \/ RescanEnds \/ LoopPass

PollSpec == PollInit /\ [][PollNext]_pollVars

-----------------------------------------------------------------------------
(* Properties *)

\* Services are cached without a note of failure only as the last successful
\* read to complete found them, whichever of poll and rescan that was: a
\* failed read of either keeps its note until a read succeeds.
FailuresNoted ==
    cache.some /\ "services" \notin cache.errors => cache.failed = lastSeen

\* "Whatever this reads from the WMI cache becomes the broadcast truth" and a
\* refresh must survive the next tick (apply_live_metrics): after a rescan saw
\* a service work, no pass shows it as failed that has not failed since.  The
\* exception is a rescan that ends while a poll is under way, which may put the
\* services it read before over what the rescan found.
RefreshSurvives == shown.failed \cap working = {}

\* One property for the runs: what is shown of the system is sound.
PollSound == PollTypeOK /\ FailuresNoted /\ RefreshSurvives
=============================================================================
