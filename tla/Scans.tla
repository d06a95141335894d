------------------------------- MODULE Scans -------------------------------
(***************************************************************************)
(* The jobs the decision loop starts off itself, one of a kind at a time:  *)
(* the startup scan, whose cache belongs to one Windows user and must not  *)
(* serve another after fast user switching, the disk scan, the weekly      *)
(* digest and the provider test.  A handler raises the job's flag and      *)
(* spawns a task with a time-out; a fold takes the result and lowers it    *)
(* (main.rs, startup_scan.rs, disk_scan.rs, digest.rs).                    *)
(***************************************************************************)
EXTENDS Integers, FiniteSets

CONSTANTS
    Users, NoUser,     \* interactive users, by SID
    Locations,         \* where startup entries are found
    Places,            \* what the disk scan sizes
    DiskCap,           \* entries of one disk scan
    MaxScans, MaxJobs  \* bounds: startup scans, other jobs

ASSUME ScansAssumption ==
    /\ NoUser \notin Users /\ {DiskCap, MaxScans, MaxJobs} \subseteq Nat \ {0}
    /\ IsFiniteSet(Places) /\ \A p \in Places : p.size \in Nat

VARIABLES
    active,       \* the user of the active session
    owner,        \* startup_owner_sid
    scanFlag,     \* startup_scan_running
    startup,      \* the entries shown: set of [loc, sid], or the scanning view
    targets,      \* startup_targets
    scans,        \* startup scans that run: set of [n, sid]
    made,         \* number of startup scans so far
    toggled,      \* the last toggle routed to the policy: its hive, and by whom
    sent,         \* the status the pipe holds: its list, and the user it is for
    scanPaused,
    diskFlag, diskRuns, disk, diskTargets,   \* disk_scan_running, ..., disk_targets
    digestFlag, digestRuns, digestDue, digest,
    testFlag, testRuns, testTold,            \* provider_test_running
    jobs          \* number of the other jobs so far

startupVars == <<active, owner, scanFlag, startup, targets, scans, made, toggled>>
diskVars == <<diskFlag, diskRuns, disk, diskTargets>>
digestVars == <<digestFlag, digestRuns, digestDue, digest>>
testVars == <<testFlag, testRuns, testTold>>
scanVars == <<startupVars, sent, scanPaused, diskVars, digestVars, testVars, jobs>>

ScansInit ==
    /\ active \in Users \cup {NoUser} /\ owner = NoUser /\ scanFlag = FALSE
    /\ startup = {} /\ targets = {} /\ scans = {} /\ made = 0 /\ toggled = [hive |-> NoUser, by |-> NoUser]
    /\ sent = [list |-> {}, for |-> active] /\ scanPaused = FALSE
    /\ diskFlag = FALSE /\ diskRuns = FALSE /\ disk = {} /\ diskTargets = {}
    /\ digestFlag = FALSE /\ digestRuns = FALSE /\ digestDue = TRUE /\ digest = FALSE
    /\ testFlag = FALSE /\ testRuns = FALSE /\ testTold = TRUE /\ jobs = 0

-----------------------------------------------------------------------------
(* The startup scan *)

\* to_toggle: RunOnce, policy keys, Winlogon and services are only reported.
Toggles == {"hklm_run", "hklm_run32", "hkcu_run", "startup_folder", "common_startup_folder", "scheduled_task"}

\* The hive an entry is changed in: the user's own, or the machine's.
PerUser == {"hkcu_run", "startup_folder", "scheduled_task"}
Entries(found, sid) == [loc : found, sid : {sid}]
TargetsOf(found, sid) == Entries(found \cap Toggles, sid)

\* startup_owner_matches
OwnerMatches(a, b) == a # NoUser /\ a = b

\* Mutant: a click is served from whatever cache there is.
AnyOwner == TRUE

OwnerCurrent == OwnerMatches(owner, active)

\* build_status and broadcast_status: the tray is sent it, and the next tray to
\* connect is sent it at once, whoever is active by then.
ShownStartup == IF OwnerCurrent THEN startup ELSE {}
Status == sent' = [list |-> ShownStartup', for |-> active']

SwitchUser(u) ==
    /\ u # active
    /\ active' = u
    /\ UNCHANGED <<owner, scanFlag, startup, targets, scans, made, toggled, sent, scanPaused,
                   diskVars, digestVars, testVars, jobs>>

\* clear_stale_startup_cache
Stale(sid) == owner # NoUser /\ ~OwnerMatches(owner, sid)
ClearedCache == owner' = NoUser /\ startup' = {} /\ targets' = {} /\ scanFlag' = FALSE
KeptCache == UNCHANGED <<owner, startup, targets, scanFlag>>

\* ScanStartup, rejected: but the cache of another user is gone.
ScanRefused ==
    /\ scanPaused \/ active = NoUser \/ (scanFlag /\ ~Stale(active))
    /\ IF Stale(active) THEN ClearedCache ELSE KeptCache
    /\ UNCHANGED <<active, scans, made, toggled, scanPaused, diskVars, digestVars, testVars,
                   jobs>>
    /\ IF Stale(active) THEN Status ELSE UNCHANGED sent

\* ScanStartup: the entries of the last scan stay while the new one runs.
ScanStartup ==
    /\ ~scanPaused /\ active # NoUser /\ (scanFlag => Stale(active)) /\ made < MaxScans
    /\ owner' = active /\ scanFlag' = TRUE
    /\ startup' = IF Stale(active) THEN {} ELSE startup
    /\ targets' = IF Stale(active) THEN {} ELSE targets
    /\ made' = made + 1
    /\ scans' = scans \cup {[n |-> made', sid |-> active]}
    /\ UNCHANGED <<active, toggled, scanPaused, diskVars, digestVars, testVars, jobs>>
    /\ Status

\* Mutant: any result that arrives is folded in.
AnyResult(sid) == TRUE

Wanted(sid) == OwnerMatches(owner, sid) /\ OwnerMatches(sid, active)

\* startup_done_rx: of the owner and active user, or discarded.
ScanDone(s, found) ==
    /\ s \in scans
    /\ scans' = scans \ {s}
    /\ IF Wanted(s.sid)
       THEN /\ startup' = Entries(found, s.sid)
            /\ targets' = TargetsOf(found, s.sid)
            /\ scanFlag' = FALSE
            /\ UNCHANGED owner
       ELSE IF OwnerMatches(owner, s.sid) /\ Stale(active) THEN ClearedCache ELSE KeptCache
    /\ UNCHANGED <<active, made, toggled, scanPaused, diskVars, digestVars, testVars, jobs>>
    /\ Status

\* Failed, panicked or out of time: what was shown stays.
ScanFails(s) ==
    /\ s \in scans
    /\ scans' = scans \ {s}
    /\ IF Wanted(s.sid)
       THEN scanFlag' = FALSE /\ UNCHANGED <<owner, startup, targets>>
       ELSE IF OwnerMatches(owner, s.sid) /\ Stale(active) THEN ClearedCache ELSE KeptCache
    /\ UNCHANGED <<active, made, toggled, scanPaused, diskVars, digestVars, testVars, jobs>>
    /\ Status

\* SetStartupEntry: from the cache of the active user, to the policy gate; the
\* click may be on a list of an earlier user.
SetStartupEntry(t) ==
    /\ IF OwnerCurrent /\ t \in targets
       THEN /\ toggled' = [hive |-> IF t.loc \in PerUser THEN t.sid ELSE NoUser, by |-> active]
            /\ KeptCache
       ELSE /\ IF Stale(active) THEN ClearedCache ELSE KeptCache
            /\ UNCHANGED toggled
    /\ UNCHANGED <<active, scans, made, scanPaused, diskVars, digestVars, testVars, jobs>>
    /\ IF (OwnerCurrent /\ t \in targets) \/ Stale(active) THEN Status ELSE UNCHANGED sent

-----------------------------------------------------------------------------
(* The disk scan, the digest and the provider test *)

ScanDisk ==
    /\ ~scanPaused /\ ~diskFlag /\ jobs < MaxJobs
    /\ diskFlag' = TRUE /\ diskRuns' = TRUE /\ jobs' = jobs + 1
    /\ UNCHANGED <<startupVars, scanPaused, disk, diskTargets, digestVars, testVars>>
    /\ Status

\* The largest places that pass the minimum; a system place can be cleaned.
Largest(found) ==
    CHOOSE s \in SUBSET found :
        /\ Cardinality(s) = IF Cardinality(found) < DiskCap THEN Cardinality(found) ELSE DiskCap
        /\ \A p \in s, q \in found \ s : p.size >= q.size

ScanDiskDone(found, ok) ==
    /\ diskRuns
    /\ diskRuns' = FALSE /\ diskFlag' = FALSE
    /\ IF ok THEN LET big == Largest({p \in found : p.size > 0})
                  IN  disk' = big /\ diskTargets' = {p \in big : p.system}
       ELSE UNCHANGED <<disk, diskTargets>>
    /\ UNCHANGED <<startupVars, scanPaused, digestVars, testVars, jobs>>
    /\ Status

\* Once a week; a failure waits a week too, and keeps the digest there is.
StartDigest ==
    /\ digestDue /\ ~digestFlag /\ jobs < MaxJobs
    /\ digestFlag' = TRUE /\ digestRuns' = TRUE /\ jobs' = jobs + 1
    /\ UNCHANGED <<startupVars, sent, scanPaused, diskVars, digestDue, digest, testVars>>

DigestDone(ok) ==
    /\ digestRuns
    /\ digestRuns' = FALSE /\ digestFlag' = FALSE /\ digestDue' = FALSE
    /\ digest' = (digest \/ ok)
    /\ UNCHANGED <<startupVars, scanPaused, diskVars, testVars, jobs>>
    /\ IF ok THEN Status ELSE UNCHANGED sent

WeekPasses ==
    /\ ~digestDue
    /\ digestDue' = TRUE
    /\ UNCHANGED <<startupVars, sent, scanPaused, diskVars, digestFlag, digestRuns, digest, testVars,
                   jobs>>

\* TestProvider: the caller is answered by the task; here, if its client
\* cannot be built.
TestProvider(valid) ==
    /\ ~testFlag /\ jobs < MaxJobs
    /\ testFlag' = valid /\ testRuns' = valid /\ testTold' = ~valid /\ jobs' = jobs + 1
    /\ UNCHANGED <<startupVars, sent, scanPaused, diskVars, digestVars>>

\* Answered, or out of time after two minutes.
TestDone ==
    /\ testRuns
    /\ testRuns' = FALSE /\ testFlag' = FALSE /\ testTold' = TRUE
    /\ UNCHANGED <<startupVars, sent, scanPaused, diskVars, digestVars, jobs>>

PauseScans ==
    /\ scanPaused' = ~scanPaused
    /\ UNCHANGED <<startupVars, diskVars, digestVars, testVars, jobs>>
    /\ Status

\* A pass of the loop, as any other handler, sends the status too.
Refresh == UNCHANGED <<startupVars, scanPaused, diskVars, digestVars, testVars, jobs>> /\ Status

ScansNext ==
    \/ \E u \in Users \cup {NoUser} : SwitchUser(u)
    \/ ScanRefused \/ ScanStartup \/ PauseScans \/ Refresh
    \/ \E s \in scans : ScanFails(s) \/ \E found \in SUBSET Locations : ScanDone(s, found)
    \/ \E t \in Entries(Locations, active) \cup targets \cup sent.list : SetStartupEntry(t)
    \/ ScanDisk \/ \E found \in SUBSET Places, ok \in BOOLEAN : ScanDiskDone(found, ok)
    \/ StartDigest \/ WeekPasses \/ \E ok \in BOOLEAN : DigestDone(ok)
    \/ TestDone \/ \E valid \in BOOLEAN : TestProvider(valid)

ScansSpec == ScansInit /\ [][ScansNext]_scanVars

-----------------------------------------------------------------------------
(* Properties *)

ScansTypeOK ==
    /\ active \in Users \cup {NoUser} /\ owner \in Users \cup {NoUser}
    /\ startup \subseteq Entries(Locations, owner) /\ Cardinality(disk) <= DiskCap
    /\ diskTargets \subseteq disk

(* What is cached, and what a click can reach, is of one user, whatever    *)
(* scans of whom still run (main.rs:2109).                                 *)
CacheOfOneUser ==
    /\ \A e \in startup \cup targets : e.sid = owner
    /\ targets \subseteq startup

(* A status lists only what the user who was active when it was built has: *)
(* after a switch nothing more of the earlier user is sent, though the     *)
(* status there is may still be (pipe_server/mod.rs:206).                  *)
ListedToOwner == \A e \in sent.list : e.sid = sent.for

(* No flag outlives its job: a scan, digest or test that ends, however it  *)
(* ends, or is taken over by another user, can be asked for again          *)
(* (startup_scan.rs:373), and the caller of a test is told of its end.     *)
NoFlagLatched ==
    /\ scanFlag => \E s \in scans : s.sid = owner
    /\ diskFlag = diskRuns /\ digestFlag = digestRuns /\ testFlag = testRuns
    /\ testTold = ~testRuns

(* A toggle never reaches the hive of a user who was not the active one.   *)
OwnHiveOnly == toggled.hive \in {NoUser, toggled.by}

(* What the jobs off the loop promise. *)
ScansSound == ScansTypeOK /\ CacheOfOneUser /\ ListedToOwner /\ NoFlagLatched /\ OwnHiveOnly
=============================================================================
