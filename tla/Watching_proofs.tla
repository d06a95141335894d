---------------------------- MODULE Watching_proofs ----------------------------
(***************************************************************************)
(* Proofs about what the service notices: Scans, for any users, locations  *)
(* and places and any number of scans and switches of user; SystemPoll,    *)
(* for any services and firewall profiles and any number of changes, polls *)
(* and rescans; LogWatcher, for any logs, users and sizes of queue, ring   *)
(* and read, and any number of writes, rotations and sets sent;            *)
(* ScreenErrors, for any windows, messages, window of repeats and caps;    *)
(* and EventLogs, for any channels and caps and any number of records,     *)
(* clears, failures and restarts, on Windows and on Linux.                 *)
(***************************************************************************)
EXTENDS Scans, SystemPoll, LogWatcher, ScreenErrors, EventLogs, Sifting_proofs,
        FiniteSetTheorems, SequenceTheorems, WellFoundedInduction, TLAPS

-----------------------------------------------------------------------------
(* Scans *)

(* A scan runs for a user, and a cache without an owner is empty.          *)
Owners ==
    /\ NoUser \notin Users
    /\ active \in Users \cup {NoUser} /\ owner \in Users \cup {NoUser}
    /\ \A s \in scans : s.sid \in Users
    /\ owner = NoUser => startup = {} /\ ~scanFlag

(* The inductive invariant of the scans. *)
ScansInv == Owners /\ CacheOfOneUser /\ NoFlagLatched /\ OwnHiveOnly

USE ScansAssumption

-----------------------------------------------------------------------------
(* The parts of a step *)

(* The jobs other than the startup scan do not touch its state.            *)
LEMMA OtherJobs ==
    ASSUME ScansInv, UNCHANGED startupVars, (diskFlag = diskRuns)', (digestFlag = digestRuns)',
           (testFlag = testRuns)', (testTold = ~testRuns)'
    PROVE  ScansInv'
<1>1. Owners' /\ CacheOfOneUser' /\ OwnHiveOnly'
  BY DEF ScansInv, startupVars, Owners, CacheOfOneUser, ShownStartup, OwnerCurrent, OwnerMatches,
         OwnHiveOnly
<1>2. NoFlagLatched'
  BY DEF ScansInv, startupVars, NoFlagLatched
<1> QED
  BY <1>1, <1>2 DEF ScansInv

(* A step of the startup scan does not touch the flags of the other jobs.  *)
LEMMA OtherFlags ==
    ASSUME NoFlagLatched, UNCHANGED <<diskVars, digestVars, testVars>>
    PROVE  /\ (diskFlag = diskRuns)' /\ (digestFlag = digestRuns)'
           /\ (testFlag = testRuns)' /\ (testTold = ~testRuns)'
  BY DEF NoFlagLatched, diskVars, digestVars, testVars

(* A cache that is kept or given up stays in order.                        *)
LEMMA CacheKept ==
    ASSUME ScansInv, ClearedCache \/ KeptCache, UNCHANGED active
    PROVE  CacheOfOneUser' /\ owner' \in Users \cup {NoUser}
           /\ (owner' = NoUser => startup' = {} /\ ~scanFlag')
  BY DEF ScansInv, ClearedCache, KeptCache, Owners, CacheOfOneUser, ShownStartup, OwnerCurrent,
         OwnerMatches

(* What a scan finds belongs to the user it ran for.                       *)
LEMMA Found ==
    ASSUME NEW got \in SUBSET Locations, NEW sid
    PROVE  /\ \A e \in Entries(got, sid) : e.sid = sid
           /\ TargetsOf(got, sid) \subseteq Entries(got, sid)
  BY DEF Entries, TargetsOf

-----------------------------------------------------------------------------
(* The inductive invariant *)

(* It holds at the start: nothing runs and nothing is cached.              *)
LEMMA ScansInitInv == ScansInit => ScansInv
<1> SUFFICES ASSUME ScansInit PROVE ScansInv
  OBVIOUS
<1>1. Owners /\ CacheOfOneUser /\ OwnHiveOnly
  BY DEF ScansInit, Owners, CacheOfOneUser, ShownStartup, OwnHiveOnly
<1>2. NoFlagLatched
  BY DEF ScansInit, NoFlagLatched
<1> QED
  BY <1>1, <1>2 DEF ScansInv

(* The end of a scan, whatever it found, lowers the flag only for the      *)
(* owner, and never leaves it up for a scan that has ended.                *)
LEMMA ScanEnds ==
    ASSUME ScansInv, NEW s \in scans, scans' = scans \ {s}, UNCHANGED active,
           \/ Wanted(s.sid) /\ ~scanFlag' /\ owner' = owner
           \/ ~Wanted(s.sid) /\ ClearedCache
           \/ ~Wanted(s.sid) /\ ~(OwnerMatches(owner, s.sid) /\ Stale(active)) /\ KeptCache
    PROVE  scanFlag' => \E t \in scans' : t.sid = owner'
<1>1. CASE ~scanFlag'
  BY <1>1
<1>2. CASE ClearedCache
  BY <1>2 DEF ClearedCache
<1>3. CASE ~Wanted(s.sid) /\ ~(OwnerMatches(owner, s.sid) /\ Stale(active)) /\ KeptCache /\ scanFlag
  <2>1. owner # NoUser /\ s.sid # NoUser
    BY <1>3 DEF ScansInv, Owners
  <2>2. s.sid # owner
    BY <1>3, <2>1 DEF Wanted, OwnerMatches, Stale
  <2>3. PICK t \in scans : t.sid = owner
    BY <1>3 DEF ScansInv, NoFlagLatched
  <2> QED
    BY <1>3, <2>2, <2>3 DEF KeptCache
<1> QED
  BY <1>1, <1>2, <1>3 DEF KeptCache

(* Every step of a handler, a task or a fold keeps the invariant.          *)
LEMMA ScansNextInv == ScansInv /\ [ScansNext]_scanVars => ScansInv'
<1> SUFFICES ASSUME ScansInv, [ScansNext]_scanVars PROVE ScansInv'
  OBVIOUS
<1>0. Owners /\ CacheOfOneUser /\ NoFlagLatched /\ OwnHiveOnly
  BY DEF ScansInv
<1>1. ASSUME NEW u \in Users \cup {NoUser}, SwitchUser(u) PROVE ScansInv'
  <2>1. NoFlagLatched'
    BY <1>0, <1>1 DEF SwitchUser, NoFlagLatched, diskVars, digestVars, testVars
  <2> QED
    BY <1>0, <1>1, <2>1
    DEF SwitchUser, ScansInv, Owners, CacheOfOneUser, ShownStartup, OwnerCurrent, OwnerMatches,
        OwnHiveOnly
<1>2. CASE ScanRefused
  <2>1. (ClearedCache \/ KeptCache) /\ UNCHANGED <<active, scans, toggled>>
        /\ UNCHANGED <<diskVars, digestVars, testVars>>
    BY <1>2 DEF ScanRefused
  <2>2. scanFlag' => \E s \in scans' : s.sid = owner'
    BY <1>0, <2>1 DEF ClearedCache, KeptCache, NoFlagLatched
  <2>3. NoFlagLatched'
    BY <1>0, <2>1, <2>2, OtherFlags DEF NoFlagLatched
  <2> QED
    BY <1>0, <2>1, <2>3, CacheKept DEF ScansInv, Owners, OwnHiveOnly
<1>3. CASE ScanStartup
  <2> DEFINE new == [n |-> made', sid |-> active]
  <2>1. /\ active \in Users /\ owner' = active /\ scans' = scans \cup {new}
        /\ startup' = (IF Stale(active) THEN {} ELSE startup)
        /\ targets' = (IF Stale(active) THEN {} ELSE targets)
        /\ UNCHANGED <<active, toggled>> /\ UNCHANGED <<diskVars, digestVars, testVars>>
    BY <1>0, <1>3 DEF ScanStartup, Owners
  <2>2. new.sid = active
    OBVIOUS
  <2> HIDE DEF new
  <2>3. Owners'
    BY <1>0, <2>1, <2>2 DEF Owners
  <2>4. CacheOfOneUser'
    BY <1>0, <2>1
    DEF Owners, CacheOfOneUser, OwnerMatches, Stale
  <2>5. NoFlagLatched'
    BY <1>0, <2>1, <2>2, OtherFlags DEF NoFlagLatched
  <2> QED
    BY <1>0, <2>1, <2>3, <2>4, <2>5 DEF ScansInv, OwnHiveOnly
<1>4. ASSUME NEW s \in scans, NEW got \in SUBSET Locations, ScanDone(s, got) PROVE ScansInv'
  <2>1. /\ scans' = scans \ {s} /\ UNCHANGED <<active, toggled>>
        /\ UNCHANGED <<diskVars, digestVars, testVars>>
    BY <1>4 DEF ScanDone
  <2>2. CASE Wanted(s.sid)
    <3>1. /\ startup' = Entries(got, s.sid) /\ targets' = TargetsOf(got, s.sid)
          /\ ~scanFlag' /\ owner' = owner
      BY <1>4, <2>2 DEF ScanDone
    <3>2. owner = s.sid /\ active = s.sid /\ s.sid # NoUser
      BY <2>2 DEF Wanted, OwnerMatches
    <3>3. CacheOfOneUser' /\ Owners'
      BY <1>0, <2>1, <3>1, <3>2, Found DEF CacheOfOneUser, ShownStartup, Owners
    <3>4. NoFlagLatched'
      BY <1>0, <2>1, <3>1, OtherFlags DEF NoFlagLatched
    <3> QED
      BY <1>0, <2>1, <3>3, <3>4 DEF ScansInv, OwnHiveOnly
  <2>3. CASE ~Wanted(s.sid)
    <3>1. \/ ClearedCache
          \/ ~(OwnerMatches(owner, s.sid) /\ Stale(active)) /\ KeptCache
      BY <1>4, <2>3 DEF ScanDone
    <3>2. scanFlag' => \E t \in scans' : t.sid = owner'
      BY <2>1, <2>3, <3>1, ScanEnds
    <3>3. NoFlagLatched'
      BY <1>0, <2>1, <3>2, OtherFlags DEF NoFlagLatched
    <3> QED
      BY <1>0, <2>1, <3>1, <3>3, CacheKept DEF ScansInv, Owners, OwnHiveOnly
  <2> QED
    BY <2>2, <2>3
<1>5. ASSUME NEW s \in scans, ScanFails(s) PROVE ScansInv'
  <2>1. /\ scans' = scans \ {s} /\ UNCHANGED <<active, toggled>>
        /\ UNCHANGED <<diskVars, digestVars, testVars>>
    BY <1>5 DEF ScanFails
  <2>2. CASE Wanted(s.sid)
    <3>1. ~scanFlag' /\ UNCHANGED <<owner, startup, targets>>
      BY <1>5, <2>2 DEF ScanFails
    <3>2. CacheOfOneUser' /\ Owners'
      BY <1>0, <2>1, <3>1
      DEF CacheOfOneUser, ShownStartup, OwnerCurrent, OwnerMatches, Owners
    <3>3. NoFlagLatched'
      BY <1>0, <2>1, <3>1, OtherFlags DEF NoFlagLatched
    <3> QED
      BY <1>0, <2>1, <3>2, <3>3 DEF ScansInv, OwnHiveOnly
  <2>3. CASE ~Wanted(s.sid)
    <3>1. \/ ClearedCache
          \/ ~(OwnerMatches(owner, s.sid) /\ Stale(active)) /\ KeptCache
      BY <1>5, <2>3 DEF ScanFails
    <3>2. scanFlag' => \E t \in scans' : t.sid = owner'
      BY <2>1, <2>3, <3>1, ScanEnds
    <3>3. NoFlagLatched'
      BY <1>0, <2>1, <3>2, OtherFlags DEF NoFlagLatched
    <3> QED
      BY <1>0, <2>1, <3>1, <3>3, CacheKept DEF ScansInv, Owners, OwnHiveOnly
  <2> QED
    BY <2>2, <2>3
<1>6. ASSUME NEW t \in Entries(Locations, active) \cup targets \cup sent.list, SetStartupEntry(t)
      PROVE  ScansInv'
  <2>1. (ClearedCache \/ KeptCache) /\ UNCHANGED <<active, scans>>
        /\ UNCHANGED <<diskVars, digestVars, testVars>>
    BY <1>6 DEF SetStartupEntry
  <2>2. scanFlag' => \E s \in scans' : s.sid = owner'
    BY <1>0, <2>1 DEF ClearedCache, KeptCache, NoFlagLatched
  <2>3. NoFlagLatched'
    BY <1>0, <2>1, <2>2, OtherFlags DEF NoFlagLatched
  <2>4. OwnHiveOnly'
    <3>1. CASE OwnerCurrent /\ t \in targets
      <4>1. t.sid = active
        BY <1>0, <3>1 DEF OwnerCurrent, OwnerMatches, CacheOfOneUser
      <4>2. toggled' = [hive |-> IF t.loc \in PerUser THEN t.sid ELSE NoUser, by |-> active]
        BY <1>6, <3>1 DEF SetStartupEntry
      <4> QED
        BY <4>1, <4>2 DEF OwnHiveOnly
    <3>2. CASE ~(OwnerCurrent /\ t \in targets)
      <4>1. toggled' = toggled
        BY <1>6, <3>2 DEF SetStartupEntry
      <4> QED
        BY <1>0, <4>1 DEF OwnHiveOnly
    <3> QED
      BY <3>1, <3>2
  <2> QED
    BY <1>0, <2>1, <2>3, <2>4, CacheKept DEF ScansInv, Owners
<1>7. CASE ScanDisk
  BY <1>0, <1>7, OtherJobs DEF ScanDisk, NoFlagLatched, digestVars, testVars
<1>8. ASSUME NEW got \in SUBSET Places, NEW ok \in BOOLEAN, ScanDiskDone(got, ok) PROVE ScansInv'
  BY <1>0, <1>8, OtherJobs DEF ScanDiskDone, NoFlagLatched, digestVars, testVars
<1>9. CASE StartDigest
  BY <1>0, <1>9, OtherJobs DEF StartDigest, NoFlagLatched, diskVars, testVars
<1>10. CASE WeekPasses
  BY <1>0, <1>10, OtherJobs DEF WeekPasses, NoFlagLatched, diskVars, testVars
<1>11. ASSUME NEW ok \in BOOLEAN, DigestDone(ok) PROVE ScansInv'
  BY <1>0, <1>11, OtherJobs DEF DigestDone, NoFlagLatched, diskVars, testVars
<1>12. CASE TestDone
  BY <1>0, <1>12, OtherJobs DEF TestDone, NoFlagLatched, diskVars, digestVars
<1>13. ASSUME NEW valid \in BOOLEAN, TestProvider(valid) PROVE ScansInv'
  BY <1>0, <1>13, OtherJobs DEF TestProvider, NoFlagLatched, diskVars, digestVars
<1>14. CASE PauseScans
  BY <1>0, <1>14, OtherJobs DEF PauseScans, NoFlagLatched, diskVars, digestVars, testVars
<1>16. CASE Refresh
  BY <1>0, <1>16, OtherJobs DEF Refresh, NoFlagLatched, diskVars, digestVars, testVars
<1>15. CASE UNCHANGED scanVars
  BY <1>0, <1>15, OtherJobs DEF scanVars, NoFlagLatched, diskVars, digestVars, testVars
<1> QED
  BY <1>1, <1>2, <1>3, <1>4, <1>5, <1>6, <1>7, <1>8, <1>9, <1>10, <1>11, <1>12, <1>13, <1>14,
     <1>15, <1>16
  DEF ScansNext

(* The inductive invariant holds throughout. *)
THEOREM ScansInvariance == ScansSpec => []ScansInv
  BY ScansInitInv, ScansNextInv, PTL DEF ScansSpec

(* A status is built of the cache there is, for the user active then.      *)
LEMMA ListedKept ==
    ListedToOwner /\ ScansInv' /\ [ScansNext]_scanVars => ListedToOwner'
<1> SUFFICES ASSUME ListedToOwner, ScansInv', [ScansNext]_scanVars PROVE ListedToOwner'
  OBVIOUS
<1>1. UNCHANGED sent \/ Status
  BY DEF ScansNext, SwitchUser, ScanRefused, ScanStartup, PauseScans, Refresh, ScanFails, ScanDone,
         SetStartupEntry, ScanDisk, ScanDiskDone, StartDigest, WeekPasses, DigestDone, TestDone,
         TestProvider, scanVars
<1>2. CASE UNCHANGED sent
  BY <1>2 DEF ListedToOwner
<1>3. CASE Status
  <2>1. sent'.list = ShownStartup' /\ sent'.for = active'
    BY <1>3 DEF Status
  <2>2. \A e \in ShownStartup' : e.sid = active'
    BY DEF ScansInv, CacheOfOneUser, ShownStartup, OwnerCurrent, OwnerMatches
  <2> QED
    BY <2>1, <2>2 DEF ListedToOwner
<1> QED
  BY <1>1, <1>2, <1>3

(* No status lists what another had than the user active when it was built. *)
THEOREM ListsAreToTheirOwner == ScansSpec => []ListedToOwner
<1>1. ScansInit => ListedToOwner
  BY DEF ScansInit, ListedToOwner
<1> QED
  BY <1>1, ListedKept, ScansInvariance, PTL DEF ScansSpec

(* What startup_scan.rs caches is of one user, and a status built of it    *)
(* lists it to that user only, whichever scans of whom end in which order; *)
(* and a toggle changes only the hive of the user who asked for it.        *)
THEOREM CacheIsOfOneUser == ScansSpec => [](CacheOfOneUser /\ ListedToOwner /\ OwnHiveOnly)
<1>1. ScansInv => CacheOfOneUser /\ OwnHiveOnly
  BY DEF ScansInv
<1> QED
  BY <1>1, ScansInvariance, ListsAreToTheirOwner, PTL

(* No *_running flag outlives its job.                                     *)
THEOREM FlagsAreLowered == ScansSpec => []NoFlagLatched
<1>1. ScansInv => NoFlagLatched
  BY DEF ScansInv
<1> QED
  BY <1>1, ScansInvariance, PTL

-----------------------------------------------------------------------------
(* What the disk scan shows *)

(* Of the places found one is largest: in a set of the fewest places of    *)
(* which none is, the others would have one, and it or the one set aside   *)
(* would be the largest of all.                                            *)
LEMMA OneLargest ==
    ASSUME NEW F \in SUBSET Places, F # {} PROVE \E p \in F : \A q \in F : q.size <= p.size
<1> DEFINE Fails(T) == T # {} /\ ~(\E p \in T : \A q \in T : q.size <= p.size)
           Bad == {n \in Nat : \E T \in SUBSET Places : Cardinality(T) = n /\ Fails(T)}
<1>1. \A T \in SUBSET Places : IsFiniteSet(T) /\ Cardinality(T) \in Nat
  BY FS_Subset, FS_CardinalityType
<1>2. ASSUME Bad # {} PROVE FALSE
  <2>1. Bad \in SUBSET Nat
    OBVIOUS
  <2>2. PICK n \in Bad : \A m \in Bad : n <= m
    BY <1>2, <2>1, Least
  <2>3. PICK T \in SUBSET Places : Cardinality(T) = n /\ Fails(T)
    BY <2>2
  <2>4. PICK t \in T : TRUE
    BY <2>3
  <2>5. T \ {t} \in SUBSET Places /\ Cardinality(T \ {t}) = n - 1 /\ Cardinality(T \ {t}) \in Nat
    BY <1>1, <2>3, <2>4, FS_RemoveElement
  <2>6. n \in Nat /\ n - 1 \in Nat
    BY <2>2, <2>5
  <2>7. n - 1 \notin Bad
    BY <2>2, <2>6
  <2>8. ~Fails(T \ {t})
    BY <2>5, <2>6, <2>7
  <2>9. \A p \in T : p.size \in Nat
    OBVIOUS
  <2>10. CASE T \ {t} = {}
    BY <2>3, <2>4, <2>9, <2>10
  <2>11. CASE T \ {t} # {}
    <3>1. PICK p \in T \ {t} : \A q \in T \ {t} : q.size <= p.size
      BY <2>8, <2>11
    <3> QED
      BY SMTT(20), <2>3, <2>4, <2>9, <3>1
  <2> QED
    BY <2>10, <2>11
<1>3. ~Fails(F)
  BY <1>1, <1>2
<1> QED
  BY <1>3

(* So the largest k of them exist, for every k.                            *)
LEMMA LargestExist ==
    ASSUME NEW F \in SUBSET Places, NEW k \in Nat, k <= Cardinality(F)
    PROVE  \E s \in SUBSET F : Cardinality(s) = k /\ \A p \in s, q \in F \ s : p.size >= q.size
<1> DEFINE Exist(n) == \E s \in SUBSET F : Cardinality(s) = n /\ \A p \in s, q \in F \ s : p.size >= q.size
           Bad == {n \in Nat : n <= Cardinality(F) /\ ~Exist(n)}
<1>1. IsFiniteSet(F) /\ Cardinality(F) \in Nat /\ \A s \in SUBSET F : IsFiniteSet(s)
  BY FS_Subset, FS_CardinalityType
<1>2. ASSUME Bad # {} PROVE FALSE
  <2>1. Bad \in SUBSET Nat
    OBVIOUS
  <2>2. PICK n \in Bad : \A m \in Bad : n <= m
    BY <1>2, <2>1, Least
  <2>3. n # 0
    <3>1. Cardinality({}) = 0 /\ {} \in SUBSET F
      BY FS_EmptySet
    <3>2. Exist(0)
      BY <3>1
    <3> QED
      BY <2>2, <3>2
  <2>4. n - 1 \in Nat /\ n - 1 <= Cardinality(F) /\ n - 1 \notin Bad
    BY <1>1, <2>2, <2>3
  <2>5. PICK s \in SUBSET F : Cardinality(s) = n - 1 /\ \A p \in s, q \in F \ s : p.size >= q.size
    BY <2>4
  <2>6. F \ s # {}
    BY <1>1, <2>2, <2>5
  <2>7. PICK q \in F \ s : \A p \in F \ s : p.size <= q.size
    BY <2>6, OneLargest
  <2>8. Cardinality(s \cup {q}) = n
    <3>1. IsFiniteSet(s) /\ q \notin s /\ n \in Nat
      BY <1>1, <2>2, <2>7
    <3>2. Cardinality(s \cup {q}) = Cardinality(s) + 1
      BY <3>1, FS_AddElement
    <3> QED
      BY <2>5, <3>1, <3>2
  <2>9. \A p \in s \cup {q}, r \in F \ (s \cup {q}) : p.size >= r.size
    <3>1. \A p \in F : p.size \in Nat
      OBVIOUS
    <3> QED
      BY <2>5, <2>7, <3>1
  <2>10. Exist(n)
    <3>1. s \cup {q} \in SUBSET F
      BY <2>7
    <3> QED
      BY <2>8, <2>9, <3>1
  <2> QED
    BY <2>2, <2>10
<1>3. Exist(k)
  BY <1>2
<1> QED
  BY <1>3

(* The disk scan shows no more than its cap, whatever it finds.            *)
LEMMA Shows ==
    ASSUME NEW F \in SUBSET Places PROVE Largest(F) \subseteq F /\ Cardinality(Largest(F)) <= DiskCap
<1> DEFINE k == IF Cardinality(F) < DiskCap THEN Cardinality(F) ELSE DiskCap
<1>1. Cardinality(F) \in Nat /\ DiskCap \in Nat
  BY FS_Subset, FS_CardinalityType
<1>2. k \in Nat /\ k <= Cardinality(F) /\ k <= DiskCap
  BY <1>1
<1>3. \E s \in SUBSET F : Cardinality(s) = k /\ \A p \in s, q \in F \ s : p.size >= q.size
  BY <1>2, LargestExist
<1>4. Largest(F) \in SUBSET F /\ Cardinality(Largest(F)) = k
  BY <1>3 DEF Largest
<1> QED
  BY <1>2, <1>4

(* What the type invariant says of the views.                              *)
Views ==
    /\ startup \subseteq Entries(Locations, owner)
    /\ Cardinality(disk) <= DiskCap /\ diskTargets \subseteq disk

(* The views keep it, with the inductive invariant.                        *)
LEMMA ViewsKept == ScansInv /\ Views /\ [ScansNext]_scanVars => Views'
<1> SUFFICES ASSUME ScansInv, Views, [ScansNext]_scanVars PROVE Views'
  OBVIOUS
<1>1. UNCHANGED <<disk, diskTargets>> \/ \E got \in SUBSET Places, ok \in BOOLEAN : ScanDiskDone(got, ok)
  BY DEF ScansNext, SwitchUser, ScanRefused, ScanStartup, PauseScans, Refresh, ScanFails, ScanDone,
         SetStartupEntry, ScanDisk, StartDigest, WeekPasses, DigestDone, TestDone, TestProvider, scanVars, diskVars
<1>2. Cardinality(disk') <= DiskCap /\ diskTargets' \subseteq disk'
  <2>1. ASSUME NEW got \in SUBSET Places, NEW ok \in BOOLEAN, ScanDiskDone(got, ok)
        PROVE  Cardinality(disk') <= DiskCap /\ diskTargets' \subseteq disk'
    <3>1. {p \in got : p.size > 0} \in SUBSET Places
      OBVIOUS
    <3> QED
      BY <2>1, <3>1, Shows DEF ScanDiskDone, Views
  <2> QED
    BY <1>1, <2>1 DEF Views
<1>3. \/ UNCHANGED <<owner, startup>> \/ startup' = {}
      \/ ScanStartup
      \/ \E s \in scans, got \in SUBSET Locations : startup' = Entries(got, s.sid) /\ owner' = s.sid
  BY DEF ScansNext, SwitchUser, ScanRefused, PauseScans, Refresh, ScanFails, ScanDone, SetStartupEntry,
         ScanDisk, ScanDiskDone, StartDigest, WeekPasses, DigestDone, TestDone, TestProvider, scanVars, startupVars,
         ClearedCache, KeptCache, Wanted, OwnerMatches
<1>4. ASSUME ScanStartup PROVE startup' = {} \/ UNCHANGED <<owner, startup>>
  BY <1>4 DEF ScanStartup, Stale, OwnerMatches, ScansInv, Owners
<1>5. startup' \subseteq Entries(Locations, owner')
  <2>1. CASE UNCHANGED <<owner, startup>>
    BY <2>1 DEF Views
  <2>2. ASSUME NEW s \in scans, NEW got \in SUBSET Locations, startup' = Entries(got, s.sid), owner' = s.sid
        PROVE  startup' \subseteq Entries(Locations, owner')
    <3>1. Entries(got, s.sid) \subseteq Entries(Locations, s.sid)
      BY DEF Entries
    <3> QED
      BY <2>2, <3>1
  <2> QED
    BY <1>3, <1>4, <2>1, <2>2
<1> QED
  BY <1>2, <1>5 DEF Views

(* All of what the jobs off the loop promise: the types of the views and   *)
(* the caps on them, whose cache is shown, and the flags.                  *)
THEOREM ScansAreSound == ScansSpec => []ScansSound
<1>1. ScansInit => Views
  BY FS_EmptySet DEF ScansInit, Views
<1>2. ScansInv /\ ListedToOwner /\ Views => ScansSound
  BY DEF ScansInv, Owners, Views, ScansTypeOK, ScansSound
<1> QED
  BY <1>1, <1>2, ScansInvariance, ListsAreToTheirOwner, ViewsKept, PTL DEF ScansSpec

HIDE ScansAssumption

-----------------------------------------------------------------------------
(* SystemPoll *)

(* A poll that could not read the services says so in what it will cache.  *)
PollNoted ==
    poll.at \in {"services", "probed"} /\ ~poll.saw => "services" \in poll.state.errors

(* A service known to work is failed neither now, nor in the cache, nor in *)
(* the copy a poll in flight will cache; before the first snapshot the     *)
(* cache, and between two polls the copy, knows of no failed service.      *)
WorkingEverywhere ==
    /\ working \cap failing = {}
    /\ working \cap cache.failed = {}
    /\ working \cap poll.state.failed = {}
    /\ ~cache.some => cache.failed = {}
    /\ poll.at # "idle" => poll.state.some
    /\ poll.at = "idle" => poll.state.failed = {}

(* The inductive invariant of the poll. *)
PollInv == PollTypeOK /\ PollNoted /\ WorkingEverywhere /\ FailuresNoted /\ RefreshSurvives

Polls   == [at : {"idle", "started", "services", "probed"}, state : Snapshots, saw : BOOLEAN]

(* What a rescan of the services holds. *)
Rescans == [at : {"idle", "read", "failed"}, failed : SUBSET Services]

-----------------------------------------------------------------------------
(* What the parts of a step leave behind *)

(* The copies the code makes of a snapshot are snapshots, and differ only  *)
(* in the field they set.                                                  *)
LEMMA Copies ==
    ASSUME NEW s \in Snapshots, NEW e \in SUBSET (Sources \cup {"not_collected"}),
           NEW f \in SUBSET Services, NEW fw \in [Profiles -> States]
    PROVE  /\ [s EXCEPT !.errors = e] \in Snapshots
           /\ [s EXCEPT !.errors = e].failed = s.failed /\ [s EXCEPT !.errors = e].errors = e
           /\ [s EXCEPT !.errors = e].some = s.some
           /\ [s EXCEPT !.errors = e, !.some = TRUE] \in Snapshots
           /\ [s EXCEPT !.errors = e, !.some = TRUE].failed = s.failed
           /\ [s EXCEPT !.errors = e, !.some = TRUE].some = TRUE
           /\ [s EXCEPT !.failed = f] \in Snapshots
           /\ [s EXCEPT !.failed = f].failed = f /\ [s EXCEPT !.failed = f].errors = s.errors
           /\ [s EXCEPT !.failed = f].some = s.some
           /\ [s EXCEPT !.firewall = fw] \in Snapshots
           /\ [s EXCEPT !.firewall = fw].failed = s.failed
           /\ [s EXCEPT !.firewall = fw].errors = s.errors
           /\ [s EXCEPT !.firewall = fw].some = s.some
           /\ [s EXCEPT !.failed = f, !.errors = e] \in Snapshots
           /\ [s EXCEPT !.failed = f, !.errors = e].failed = f
           /\ [s EXCEPT !.failed = f, !.errors = e].errors = e
           /\ [s EXCEPT !.failed = f, !.errors = e].some = s.some
  BY DEF Snapshots

(* The failure of a probe is noted, and nothing else is changed.           *)
LEMMA RetainedNotes ==
    ASSUME NEW s \in Snapshots, NEW source \in Sources
    PROVE  /\ Retained(s, source) \in Snapshots
           /\ Retained(s, source).failed = s.failed /\ Retained(s, source).some = s.some
           /\ Retained(s, source).errors = s.errors \cup {source}
  BY Copies DEF Retained, Snapshots

(* Before the first poll nothing is known. *)
LEMMA EmptyIs ==
    Empty \in Snapshots /\ Empty.failed = {} /\ Empty.some = FALSE
  BY DEF Empty, Snapshots, States

(* Between two polls there is no copy.                                     *)
LEMMA IdleIs ==
    /\ IdlePoll \in Polls /\ IdlePoll.at = "idle" /\ IdlePoll.state = Empty
    /\ IdleRescan \in Rescans /\ IdleRescan.at = "idle"
  BY EmptyIs DEF IdlePoll, IdleRescan, Polls, Rescans

(* The policy decides what the firewall of a profile is. *)
LEMMA EffectiveState ==
    ASSUME PollTypeOK, NEW p \in Profiles
    PROVE  Effective(p) \in States
  BY DEF PollTypeOK, Effective, States

(* The faults of a snapshot are keys. *)
LEMMA FaultsAreKeys ==
    ASSUME NEW s \in Snapshots
    PROVE  Faults(s) \in SUBSET ((Services \cup Profiles) \X {"fault"})
  BY DEF Snapshots, Faults

-----------------------------------------------------------------------------
(* The inductive invariant *)

(* It holds at the start: nothing has been read, shown or seen to work.    *)
LEMMA PollInitInv == PollInit => PollInv
<1> SUFFICES ASSUME PollInit PROVE PollInv
  OBVIOUS
<1>1. PollTypeOK
  <2>1. /\ poll \in Polls /\ rescan \in Rescans /\ cache \in Snapshots
    BY EmptyIs, IdleIs DEF PollInit
  <2>2. /\ localFw \in [Profiles -> {"on", "off"}] /\ policyFw \in [Profiles -> {"on", "off", "none"}]
    BY DEF PollInit
  <2>3. shown \in [failed : SUBSET Services, errors : SUBSET (Sources \cup {"not_collected"})]
    BY DEF PollInit
  <2>4. changes \in 0 .. MaxChanges /\ reads \in 0 .. MaxReads
    BY SystemPollAssumption DEF PollInit
  <2> QED
    BY <2>1, <2>2, <2>3, <2>4 DEF PollInit, PollTypeOK, Polls, Rescans
<1>2. PollNoted /\ WorkingEverywhere /\ FailuresNoted /\ RefreshSurvives
  BY EmptyIs, IdleIs DEF PollInit, PollNoted, WorkingEverywhere, FailuresNoted, RefreshSurvives
<1> QED
  BY <1>1, <1>2 DEF PollInv

(* Every step of the machine, the poll, the rescan and the loop keeps it.  *)
LEMMA PollNextInv == PollInv /\ [PollNext]_pollVars => PollInv'
<1> SUFFICES ASSUME PollInv, [PollNext]_pollVars PROVE PollInv'
  OBVIOUS
<1>0. /\ PollTypeOK /\ PollNoted /\ WorkingEverywhere /\ FailuresNoted /\ RefreshSurvives
      /\ cache \in Snapshots /\ poll \in Polls /\ rescan \in Rescans
      /\ poll.state \in Snapshots /\ rescan.failed \subseteq Services
  BY DEF PollInv, PollTypeOK, Polls, Rescans
<1>1. CASE MachineChanges
  <2>1. PollTypeOK'
    BY <1>0, <1>1, SystemPollAssumption DEF MachineChanges, PollTypeOK
  <2> QED
    BY <1>0, <1>1, <2>1
    DEF MachineChanges, PollInv, PollNoted, WorkingEverywhere, FailuresNoted, RefreshSurvives
<1>2. CASE PollStarts
  <2> DEFINE s == [cache EXCEPT !.errors = {}, !.some = TRUE]
  <2>1. s \in Snapshots /\ s.failed = cache.failed /\ s.some = TRUE
    BY <1>0, Copies DEF Snapshots
  <2> HIDE DEF s
  <2>2. poll' = [at |-> "started", state |-> s, saw |-> FALSE]
    BY <1>2 DEF PollStarts, s
  <2>3. poll' \in Polls /\ poll'.at = "started" /\ poll'.state = s
    BY <2>1, <2>2 DEF Polls
  <2>4. PollTypeOK'
    BY <1>0, <1>2, <2>3, SystemPollAssumption
    DEF PollStarts, CanRead, PollTypeOK, machineVars, seenVars, Polls
  <2> QED
    BY <1>0, <1>2, <2>1, <2>3, <2>4
    DEF PollStarts, machineVars, seenVars, PollInv, PollNoted, WorkingEverywhere, FailuresNoted,
        RefreshSurvives
<1>3. CASE ProbeServices
  <2>1. PICK s \in Snapshots, w \in BOOLEAN :
          /\ poll' = [at |-> "services", state |-> s, saw |-> w]
          /\ s.some = poll.state.some
          /\ s.failed \in {failing, poll.state.failed}
          /\ ~w => "services" \in s.errors
    <3>1. [poll.state EXCEPT !.failed = failing] \in Snapshots
          /\ [poll.state EXCEPT !.failed = failing].failed = failing
          /\ [poll.state EXCEPT !.failed = failing].some = poll.state.some
      BY <1>0, Copies DEF PollTypeOK, Snapshots
    <3>2. /\ Retained(poll.state, "services") \in Snapshots
          /\ Retained(poll.state, "services").failed = poll.state.failed
          /\ Retained(poll.state, "services").some = poll.state.some
          /\ "services" \in Retained(poll.state, "services").errors
      BY <1>0, RetainedNotes DEF Sources
    <3> QED
      BY <1>3, <3>1, <3>2 DEF ProbeServices
  <2>2. /\ poll' \in Polls /\ poll'.at = "services" /\ poll'.state = s /\ poll'.saw = w
    BY <2>1 DEF Polls
  <2>3. PollTypeOK'
    BY <1>0, <1>3, <2>2 DEF ProbeServices, PollTypeOK, machineVars, seenVars, Polls
  <2>4. s.some
    BY <1>0, <1>3, <2>1 DEF ProbeServices, WorkingEverywhere
  <2> QED
    BY <1>0, <1>3, <2>1, <2>2, <2>3, <2>4
    DEF ProbeServices, machineVars, seenVars, PollInv, PollNoted, WorkingEverywhere, FailuresNoted,
        RefreshSurvives
<1>4. CASE ProbeOthers
  <2>1. PICK s \in Snapshots :
          /\ poll' = [poll EXCEPT !.at = "probed", !.state = s]
          /\ s.some = poll.state.some /\ s.failed = poll.state.failed
          /\ poll.state.errors \subseteq s.errors
    <3> DEFINE fw == IF FirewallKnown
                     THEN [poll.state EXCEPT !.firewall = [p \in Profiles |-> Effective(p)]]
                     ELSE Retained(poll.state, "firewall")
    <3>1. fw \in Snapshots /\ fw.some = poll.state.some /\ fw.failed = poll.state.failed
          /\ poll.state.errors \subseteq fw.errors
      <4>1. [p \in Profiles |-> Effective(p)] \in [Profiles -> States]
        BY <1>0, EffectiveState
      <4>2. CASE FirewallKnown
        BY <1>0, <4>1, <4>2, Copies DEF Snapshots
      <4>3. CASE ~FirewallKnown
        BY <1>0, <4>3, RetainedNotes DEF Sources
      <4> QED
        BY <4>2, <4>3
    <3> HIDE DEF fw
    <3>2. /\ Retained(fw, "disk") \in Snapshots
          /\ Retained(fw, "disk").failed = fw.failed /\ Retained(fw, "disk").some = fw.some
          /\ fw.errors \subseteq Retained(fw, "disk").errors
      BY <3>1, RetainedNotes DEF Sources
    <3>3. \E state \in {fw, Retained(fw, "disk")} :
            poll' = [poll EXCEPT !.at = "probed", !.state = state]
      BY <1>4 DEF ProbeOthers, fw
    <3> QED
      BY <3>1, <3>2, <3>3
  <2>2. poll' \in Polls /\ poll'.at = "probed" /\ poll'.state = s /\ poll'.saw = poll.saw
    BY <1>0, <2>1 DEF Polls
  <2>3. PollTypeOK'
    BY <1>0, <1>4, <2>2 DEF ProbeOthers, PollTypeOK, machineVars, seenVars, Polls
  <2>4. s.some /\ (~poll.saw => "services" \in s.errors)
    BY <1>0, <1>4, <2>1 DEF ProbeOthers, WorkingEverywhere, PollNoted
  <2> QED
    BY <1>0, <1>4, <2>1, <2>2, <2>3, <2>4
    DEF ProbeOthers, machineVars, seenVars, PollInv, PollNoted, WorkingEverywhere, FailuresNoted,
        RefreshSurvives
<1>5. CASE PollEnds
  <2>1. PollTypeOK'
    BY <1>0, <1>5, IdleIs, FaultsAreKeys
    DEF PollEnds, PollTypeOK, machineVars, Polls, Snapshots
  <2>2. poll.state.some /\ (~poll.saw => "services" \in poll.state.errors)
    BY <1>0, <1>5 DEF PollEnds, WorkingEverywhere, PollNoted
  <2> QED
    BY <1>0, <1>5, <2>1, <2>2, IdleIs, EmptyIs
    DEF PollEnds, machineVars, PollInv, PollNoted, WorkingEverywhere, FailuresNoted, RefreshSurvives
<1>6. CASE PollPanics
  <2>1. PollTypeOK'
    BY <1>0, <1>6, IdleIs DEF PollPanics, PollTypeOK, machineVars, seenVars, Polls
  <2> QED
    BY <1>0, <1>6, <2>1, IdleIs, EmptyIs
    DEF PollPanics, machineVars, seenVars, PollInv, PollNoted, WorkingEverywhere, FailuresNoted,
        RefreshSurvives
<1>7. CASE RescanReads
  <2>1. rescan' \in Rescans
    BY <1>0, <1>7 DEF RescanReads, Rescans, PollTypeOK
  <2>2. PollTypeOK'
    BY <1>0, <1>7, <2>1, SystemPollAssumption
    DEF RescanReads, CanRead, PollTypeOK, machineVars, seenVars, Rescans
  <2> QED
    BY <1>0, <1>7, <2>2
    DEF RescanReads, machineVars, seenVars, PollInv, PollNoted, WorkingEverywhere, FailuresNoted,
        RefreshSurvives
<1>8. CASE RescanEnds
  <2>1. /\ cache' \in Snapshots /\ cache'.some = cache.some
        /\ rescan.at = "read" /\ cache.some =>
             cache'.failed = rescan.failed /\ "services" \notin cache'.errors
        /\ rescan.at # "read" => cache'.failed = cache.failed
        /\ rescan.at # "read" /\ cache.some => "services" \in cache'.errors
        /\ ~cache.some => cache' = cache
    <3>1. /\ Rescanned \in Snapshots /\ Rescanned.failed = rescan.failed
          /\ Rescanned.errors = cache.errors \ {"services"} /\ Rescanned.some = cache.some
      BY <1>0, Copies DEF Rescanned, Snapshots
    <3>2. /\ RescanFailed \in Snapshots /\ RescanFailed.failed = cache.failed
          /\ RescanFailed.errors = cache.errors \cup {"services"}
          /\ RescanFailed.some = cache.some
      BY <1>0, Copies DEF RescanFailed, Snapshots, Sources
    <3>3. CASE ~cache.some
      <4>1. cache' = cache
        BY <1>8, <3>3 DEF RescanEnds
      <4> QED
        BY <1>0, <3>3, <4>1
    <3>4. CASE cache.some /\ rescan.at = "read"
      <4>1. cache' = Rescanned
        BY <1>8, <3>4 DEF RescanEnds
      <4> QED
        BY <3>1, <3>4, <4>1
    <3>5. CASE cache.some /\ rescan.at # "read"
      <4>1. cache' = RescanFailed
        BY <1>8, <3>5 DEF RescanEnds
      <4> QED
        BY <3>2, <3>5, <4>1
    <3> QED
      BY <3>3, <3>4, <3>5
  <2>2. /\ shown' \in [failed : SUBSET Services, errors : SUBSET (Sources \cup {"not_collected"})]
        /\ shown'.failed = IF rescan.at = "read" THEN rescan.failed ELSE cache'.failed
    BY <1>0, <1>8, <2>1 DEF RescanEnds, PollTypeOK, Snapshots
  <2>3. PollTypeOK'
    BY <1>0, <1>8, <2>1, <2>2, IdleIs DEF RescanEnds, PollTypeOK, machineVars, Rescans
  <2>4. FailuresNoted'
    BY <1>0, <1>8, <2>1 DEF RescanEnds, FailuresNoted
  <2>5. PollNoted'
    BY <1>0, <1>8 DEF RescanEnds, PollNoted
  <2>6. WorkingEverywhere' /\ RefreshSurvives'
    <3>1. CASE poll.at # "idle" /\ rescan.at # "read"
      BY <1>0, <1>8, <2>1, <2>2, <3>1
      DEF RescanEnds, machineVars, WorkingEverywhere, RefreshSurvives
    <3>2. CASE poll.at # "idle" /\ rescan.at = "read"
      BY <1>0, <1>8, <2>1, <2>2, <3>2
      DEF RescanEnds, machineVars, WorkingEverywhere, RefreshSurvives
    <3>3. CASE poll.at = "idle" /\ rescan.at # "read"
      BY <1>0, <1>8, <2>1, <2>2, <3>3
      DEF RescanEnds, machineVars, WorkingEverywhere, RefreshSurvives
    <3>4. CASE poll.at = "idle" /\ rescan.at = "read"
      <4>1. working' = Services \ (rescan.failed \cup failing)
        BY <1>8, <3>4 DEF RescanEnds
      <4>2. cache'.failed \in {{}, rescan.failed} /\ (~cache'.some => cache'.failed = {})
        BY <1>0, <2>1, <3>4 DEF WorkingEverywhere
      <4>3. failing' = failing /\ poll' = poll /\ poll.state.failed \cap working = {}
        BY <1>0, <1>8 DEF RescanEnds, machineVars, WorkingEverywhere
      <4>4. poll.state.failed = {}
        BY <1>0, <3>4 DEF WorkingEverywhere
      <4> QED
        BY <2>2, <3>4, <4>1, <4>2, <4>3, <4>4 DEF WorkingEverywhere, RefreshSurvives
    <3> QED
      BY <3>1, <3>2, <3>3, <3>4
  <2> QED
    BY <2>3, <2>4, <2>5, <2>6 DEF PollInv
<1>9. CASE LoopPass
  <2>1. PollTypeOK'
    BY <1>0, <1>9 DEF LoopPass, PollTypeOK, machineVars, seenVars, Snapshots
  <2> QED
    BY <1>0, <1>9, <2>1
    DEF LoopPass, machineVars, seenVars, PollInv, PollNoted, WorkingEverywhere, FailuresNoted,
        RefreshSurvives
<1>10. CASE UNCHANGED pollVars
  BY <1>0, <1>10
  DEF pollVars, machineVars, seenVars, PollInv, PollTypeOK, PollNoted, WorkingEverywhere,
      FailuresNoted, RefreshSurvives
<1> QED
  BY <1>1, <1>2, <1>3, <1>4, <1>5, <1>6, <1>7, <1>8, <1>9, <1>10 DEF PollNext

(* The inductive invariant holds throughout. *)
THEOREM PollInvariance == PollSpec => []PollInv
  BY PollInitInv, PollNextInv, PTL DEF PollSpec

(* A failed read of the services, of a poll or of a rescan, keeps its note *)
(* until a read succeeds, and a refresh survives the next pass: what is    *)
(* shown of the system is sound (PollSound), because a service seen to     *)
(* work is failed in no copy that may still be cached.                     *)
THEOREM ShownIsSound == PollSpec => []PollSound
<1>1. PollInv => PollSound
  BY DEF PollInv, PollSound
<1> QED
  BY <1>1, PollInvariance, PTL

-----------------------------------------------------------------------------
(* LogWatcher *)

(* What the ring holds of a file. *)
Changes == [file : Files, rank : 0..2]

(* What the variables hold, beyond WatcherTypeOK: one change per file. *)
WatcherShapes ==
    /\ WatcherTypeOK
    /\ pendingChanges \in Seq(Changes)
    /\ \A i, j \in DOMAIN pendingChanges : pendingChanges[i].file = pendingChanges[j].file => i = j

(* A line that is due is in its file.  As long as it is not read, neither  *)
(* is its first half, and a file that got shorter owes nothing.            *)
DueLines ==
    \A f \in Files :
        /\ readTo[f] >= Unread /\ (readTo[f] > Len(text[f]) => owed[f] = {})
        /\ \A i \in owed[f] :
            /\ i \in 1..Len(text[f]) /\ text[f][i] \in {"error", "warning", "tail"}
            /\ text[f][i] = "tail" => /\ i > 1 /\ text[f][i - 1] = "head"
                                      /\ i > readTo[f] => i - 1 > readTo[f]

(* The inductive invariant of the watcher. *)
WatcherInv == WatcherShapes /\ DueLines /\ NothingMissed

USE LogWatcherAssumption

-----------------------------------------------------------------------------
(* Sequences *)

(* What bounds a set of naturals. *)
Bounds(S) == {m \in Nat : \A y \in S : y <= m}

(* A bounded set of naturals that is not empty has a greatest element. *)
LEMMA Greatest ==
    ASSUME NEW n \in Nat, NEW S \in SUBSET (1..n), S # {} PROVE \E x \in S : \A y \in S : y <= x
<1>1. Bounds(S) \in SUBSET Nat /\ n \in Bounds(S)
  <2>1. \A y \in S : y \in 1..n
    OBVIOUS
  <2>2. \A y \in S : y <= n
    BY <2>1
  <2> QED
    BY <2>2 DEF Bounds
<1>2. PICK k \in Bounds(S) : \A m \in Bounds(S) : k <= m
  BY <1>1, Least
<1>3. k \in Nat /\ \A y \in S : y <= k
  BY <1>2 DEF Bounds
<1>4. k \in S
  <2> SUFFICES ASSUME k \notin S PROVE FALSE
    OBVIOUS
  <2>1. \A y \in S : y \in 1..n /\ y <= k /\ y # k
    BY <1>3
  <2>2. \A y \in S : y <= k - 1
    BY <1>3, <2>1
  <2>3. k - 1 \in Nat
    <3>1. PICK y \in S : TRUE
      OBVIOUS
    <3>2. y \in 1..n /\ y <= k
      BY <2>1
    <3> QED
      BY <1>3, <3>2
  <2>4. k - 1 \in Bounds(S)
    BY <2>2, <2>3 DEF Bounds
  <2>5. k <= k - 1
    BY <1>2, <2>4
  <2> QED
    BY <1>3, <2>5
<1> QED
  BY <1>3, <1>4

(* What was queued stays, less the head. *)
LEMMA Rest ==
    ASSUME NEW R, NEW s \in Seq(R), s # <<>>
    PROVE  /\ Head(s) \in R /\ Tail(s) \in Seq(R) /\ Len(Tail(s)) = Len(s) - 1 /\ Len(s) \in Nat
           /\ \A x \in Range(s) : x # Head(s) => x \in Range(Tail(s))
           /\ \A i \in DOMAIN Tail(s) : i + 1 \in DOMAIN s /\ Tail(s)[i] = s[i + 1]
<1>1. Head(s) \in R /\ Tail(s) \in Seq(R) /\ Len(Tail(s)) = Len(s) - 1 /\ Len(s) \in Nat /\ Head(s) = s[1]
  OBVIOUS
<1>2. \A i \in DOMAIN Tail(s) : i + 1 \in DOMAIN s /\ Tail(s)[i] = s[i + 1]
  BY <1>1
<1>3. ASSUME NEW x \in Range(s), x # Head(s) PROVE x \in Range(Tail(s))
  <2>1. PICK i \in DOMAIN s : x = s[i]
    BY DEF Range
  <2>2. i \in 2..Len(s)
    BY <1>1, <1>3, <2>1
  <2>3. i - 1 \in DOMAIN Tail(s) /\ Tail(s)[i - 1] = s[i]
    BY <1>1, <2>2
  <2> QED
    BY <2>1, <2>3 DEF Range
<1> QED
  BY <1>1, <1>2, <1>3

(* A sequence grows at its end. *)
LEMMA Added ==
    ASSUME NEW R, NEW s \in Seq(R), NEW x \in R
    PROVE  /\ Append(s, x) \in Seq(R) /\ Len(Append(s, x)) = Len(s) + 1 /\ Len(s) \in Nat
           /\ Range(Append(s, x)) = Range(s) \cup {x}
           /\ \A i \in DOMAIN s : i \in DOMAIN Append(s, x) /\ Append(s, x)[i] = s[i]
           /\ \A i \in DOMAIN Append(s, x) : i \in DOMAIN s \/ (i = Len(s) + 1 /\ Append(s, x)[i] = x)
<1>1. /\ Append(s, x) \in Seq(R) /\ Len(Append(s, x)) = Len(s) + 1 /\ Len(s) \in Nat
      /\ \A i \in DOMAIN s : i \in DOMAIN Append(s, x) /\ Append(s, x)[i] = s[i]
      /\ \A i \in DOMAIN Append(s, x) : i \in DOMAIN s \/ (i = Len(s) + 1 /\ Append(s, x)[i] = x)
      /\ Len(s) + 1 \in DOMAIN Append(s, x) /\ Append(s, x)[Len(s) + 1] = x
  OBVIOUS
<1>2. Range(Append(s, x)) = Range(s) \cup {x}
  BY <1>1 DEF Range
<1> QED
  BY <1>1, <1>2

(* Nothing is in an empty sequence. *)
LEMMA NoneYet == \A R : <<>> \in Seq(R) /\ Len(<<>>) = 0 /\ DOMAIN <<>> = {}
  BY EmptySeq

-----------------------------------------------------------------------------
(* The parts of a step *)

(* It holds when the thread starts. *)
LEMMA WatcherInitInv == WatcherInit => WatcherInv
<1> SUFFICES ASSUME WatcherInit PROVE WatcherInv
  OBVIOUS
<1>1. WatcherShapes
  <2>1. \A f \in Files : text[f] = <<>>
    BY DEF WatcherInit
  <2>2. text \in [Files -> Seq(Pieces)] /\ dirs \in Seq(SUBSET Files) /\ events \in Seq(Files) /\ Len(events) <= EventCap
    BY NoneYet DEF WatcherInit
  <2>3. pendingChanges \in Seq(Changes) /\ Len(pendingChanges) <= ChangesCap /\ DOMAIN pendingChanges = {}
    BY NoneYet DEF WatcherInit
  <2> QED
    BY <2>2, <2>3 DEF WatcherInit, WatcherShapes, WatcherTypeOK, NotReconciling, NotFound, Unread
<1>2. DueLines /\ NothingMissed
  <2>1. \A f \in Files : owed[f] = {} /\ readTo[f] = Unread
    BY DEF WatcherInit
  <2> QED
    BY <2>1 DEF DueLines, NothingMissed, Unread
<1> QED
  BY <1>1, <1>2 DEF WatcherInv

(* Steps that send sets of directories or that users take.                 *)
LEMMA NothingRead ==
    ASSUME WatcherInv, WatcherTypeOK', UNCHANGED <<text, readVars, events, owed>> PROVE WatcherInv'
  BY DEF WatcherInv, WatcherShapes, DueLines, NothingMissed, readVars, Line

(* The reconciler and the loop send sets, users come and go: nothing is    *)
(* read.                                                                   *)
LEMMA SendingKeeps ==
    ASSUME WatcherInv,
           UserChanges \/ ReconcileCheck \/ ReconcileFind \/ ReconcileSend \/ LoopFinds \/ LoopSends
    PROVE  WatcherInv'
<1> USE DEF WatcherInv, WatcherShapes, worldVars, taskVars
<1>0. WatcherTypeOK
  OBVIOUS
<1>1. ASSUME NEW set \in SUBSET Files, Send(set) PROVE dirs' \in Seq(SUBSET Files)
  BY <1>0, <1>1 DEF Send, WatcherTypeOK
<1>2. \A u : Discovered(u) \in SUBSET Files
  BY DEF Discovered
<1>3. CASE UserChanges
  <2>1. WatcherTypeOK'
    BY <1>0, <1>3 DEF UserChanges, WatcherTypeOK, readVars
  <2> QED
    BY <1>3, <2>1, NothingRead DEF UserChanges
<1>4. CASE ReconcileCheck
  <2>1. PICK current \in {signedIn, NoOwner} :
            /\ watchOwner # current
            /\ IF watchOwner # NoOwner
               THEN Send({}) /\ watchOwner' = NoOwner
               ELSE UNCHANGED <<dirs, sends, watchOwner>>
            /\ recon' = IF current = NoOwner THEN NotReconciling
                        ELSE [at |-> "find", sid |-> current, set |-> {}]
    BY <1>4 DEF ReconcileCheck
  <2>2. dirs' \in Seq(SUBSET Files) /\ watchOwner' \in People \cup {NoOwner}
    BY <1>0, <1>1, <2>1 DEF WatcherTypeOK
  <2>3. recon' \in [at : {"idle", "find", "send"}, sid : People \cup {NoOwner}, set : SUBSET Files]
    BY <1>0, <2>1 DEF WatcherTypeOK, NotReconciling
  <2>4. UNCHANGED <<worldVars, found, readVars, watched, events, owed>>
    BY <1>4 DEF ReconcileCheck
  <2>5. WatcherTypeOK'
    BY <1>0, <2>2, <2>3, <2>4 DEF WatcherTypeOK, readVars
  <2> QED
    BY <2>4, <2>5, NothingRead
<1>5. CASE ReconcileFind
  <2>1. recon' \in [at : {"idle", "find", "send"}, sid : People \cup {NoOwner}, set : SUBSET Files]
    <3>1. CASE recon' = NotReconciling
      BY <3>1 DEF NotReconciling
    <3>2. CASE recon' = [recon EXCEPT !.at = "send", !.set = Discovered(signedIn)]
      <4>1. /\ recon \in [at : {"idle", "find", "send"}, sid : People \cup {NoOwner}, set : SUBSET Files]
            /\ Discovered(signedIn) \in SUBSET Files
        BY <1>0, <1>2 DEF WatcherTypeOK
      <4> QED
        BY <3>2, <4>1
    <3> QED
      BY <1>5, <3>1, <3>2 DEF ReconcileFind
  <2>2. WatcherTypeOK'
    BY <1>0, <1>5, <2>1 DEF ReconcileFind, WatcherTypeOK, readVars
  <2> QED
    BY <1>5, <2>2, NothingRead DEF ReconcileFind
<1>6. CASE ReconcileSend
  <2>1. recon.set \in SUBSET Files /\ recon.sid \in People \cup {NoOwner}
    BY <1>0 DEF WatcherTypeOK
  <2>2. dirs' \in Seq(SUBSET Files)
    BY <1>1, <1>6, <2>1 DEF ReconcileSend
  <2>3. recon' \in [at : {"idle", "find", "send"}, sid : People \cup {NoOwner}, set : SUBSET Files]
    BY <1>6 DEF ReconcileSend, NotReconciling
  <2>4. WatcherTypeOK'
    BY <1>0, <1>6, <2>1, <2>2, <2>3 DEF ReconcileSend, WatcherTypeOK, readVars
  <2> QED
    BY <1>6, <2>4, NothingRead DEF ReconcileSend
<1>7. CASE LoopFinds
  <2>1. found' \in [some : BOOLEAN, set : SUBSET Files]
    BY <1>2, <1>7 DEF LoopFinds
  <2>2. WatcherTypeOK'
    BY <1>0, <1>7, <2>1 DEF LoopFinds, WatcherTypeOK, readVars
  <2> QED
    BY <1>7, <2>2, NothingRead DEF LoopFinds
<1>8. CASE LoopSends
  <2>1. dirs' \in Seq(SUBSET Files) /\ found' \in [some : BOOLEAN, set : SUBSET Files]
    BY <1>0, <1>1, <1>8 DEF LoopSends, WatcherTypeOK, NotFound
  <2>2. WatcherTypeOK'
    BY <1>0, <1>8, <2>1 DEF LoopSends, WatcherTypeOK, readVars
  <2> QED
    BY <1>8, <2>2, NothingRead DEF LoopSends
<1> QED
  BY <1>3, <1>4, <1>5, <1>6, <1>7, <1>8

(* A piece is written: what its file holds unread is due when an event of  *)
(* the file is queued.                                                     *)
LEMMA WritesKeep == ASSUME WatcherInv, NEW f \in Files, NEW p \in Pieces, AppWrites(f, p) PROVE WatcherInv'
<1> USE DEF WatcherInv, WatcherShapes, worldVars, taskVars, readVars
<1>0. WatcherTypeOK
  OBVIOUS
<1>1. /\ text' = [text EXCEPT ![f] = Append(@, p)]
      /\ UNCHANGED <<signedIn, switches, taskVars, readVars, watched, dirs, sends>>
  BY DEF AppWrites
<1>told. PICK told \in BOOLEAN :
        /\ events' = Queued(f, told)
        /\ owed' = [owed EXCEPT ![f] = DueRead(f) \cup IF f \in Range(Queued(f, told))
                                                     THEN UnreadLines(f, Append(text[f], p)) ELSE {}]
  BY DEF AppWrites
<1>2. text[f] \in Seq(Pieces) /\ events \in Seq(Files) /\ Len(text[f]) \in Nat
  BY <1>0 DEF WatcherTypeOK
<1>n. PICK n \in Nat : n = Len(text[f])
  BY <1>2
<1>3. /\ \A g \in Files : g # f => text'[g] = text[g] /\ owed'[g] = owed[g]
      /\ text'[f] = Append(text[f], p) /\ text' \in [Files -> Seq(Pieces)]
  BY <1>0, <1>1, <1>told, <1>n, <1>2, Added DEF WatcherTypeOK
<1>4. /\ Len(text'[f]) = n + 1 /\ DOMAIN text'[f] = 1..(n + 1)
      /\ \A i \in 1..n : text'[f][i] = text[f][i]
  BY <1>n, <1>2, <1>3
<1>t. PICK t \in Seq(Pieces) : t = text'[f]
  BY <1>1, <1>2, <1>3, Added
<1>5. \A i \in UnreadLines(f, t) :
        /\ i \in 1..(n + 1) /\ i > readTo[f] /\ t[i] \in {"error", "warning", "tail"}
        /\ t[i] = "tail" => i > 1 /\ t[i - 1] = "head" /\ i - 1 > readTo[f]
  BY <1>4, <1>t DEF UnreadLines
<1>6. /\ \A i \in owed'[f] : (i \in owed[f] /\ i <= readTo[f]) \/ (i \in UnreadLines(f, t) /\ f \in Range(events'))
      /\ owed' \in [Files -> SUBSET Nat]
  <2>1. DueRead(f) \in SUBSET Nat /\ UnreadLines(f, t) \in SUBSET Nat
    BY <1>0, <1>5 DEF WatcherTypeOK, DueRead
  <2>2. owed'[f] = DueRead(f) \cup IF f \in Range(events') THEN UnreadLines(f, t) ELSE {}
    BY <1>0, <1>3, <1>t, <1>told DEF WatcherTypeOK
  <2>3. owed' \in [Files -> SUBSET Nat]
    BY <1>0, <1>3, <1>t, <1>told, <2>1 DEF WatcherTypeOK
  <2> QED
    BY <2>2, <2>3 DEF DueRead
<1>7. events' \in Seq(Files) /\ Len(events') <= EventCap /\ Range(events) \subseteq Range(events')
  BY <1>0, <1>told, <1>2, Added DEF Queued, WatcherTypeOK
<1>8. WatcherShapes'
  <2>1. WatcherTypeOK'
    BY <1>0, <1>1, <1>3, <1>6, <1>7 DEF WatcherTypeOK
  <2> QED
    BY <1>1, <2>1
<1>9. ASSUME NEW i \in owed[f]
      PROVE  /\ i \in 1..n /\ text'[f][i] = text[f][i] /\ text'[f][i] \in {"error", "warning", "tail"}
             /\ text'[f][i] = "tail" => /\ i > 1 /\ text'[f][i - 1] = "head"
                                        /\ i > readTo[f] => i - 1 > readTo[f]
  <2>1. /\ i \in 1..n /\ text[f][i] \in {"error", "warning", "tail"}
        /\ text[f][i] = "tail" => /\ i > 1 /\ text[f][i - 1] = "head"
                                  /\ i > readTo[f] => i - 1 > readTo[f]
    BY <1>n DEF DueLines
  <2>2. i > 1 => i - 1 \in 1..n
    BY <1>n, <2>1
  <2>3. i > 1 => text'[f][i - 1] = text[f][i - 1]
    BY <1>4, <2>2
  <2> QED
    BY <1>4, <2>1, <2>3
<1>10. DueLines'
  <2> SUFFICES ASSUME NEW g \in Files
               PROVE  /\ readTo'[g] >= Unread /\ (readTo'[g] > Len(text'[g]) => owed'[g] = {})
                      /\ \A i \in owed'[g] :
                            /\ i \in 1..Len(text'[g]) /\ text'[g][i] \in {"error", "warning", "tail"}
                            /\ text'[g][i] = "tail" => /\ i > 1 /\ text'[g][i - 1] = "head"
                                                       /\ i > readTo'[g] => i - 1 > readTo'[g]
    BY DEF DueLines
  <2>1. CASE g # f
    BY <1>1, <1>3, <2>1 DEF DueLines
  <2>2. CASE g = f
    <3>1. readTo'[f] = readTo[f] /\ readTo[f] \in Int /\ readTo[f] >= Unread
      BY <1>0, <1>1 DEF DueLines, WatcherTypeOK
    <3>2. readTo[f] > n + 1 => owed'[f] = {}
      <4>1. readTo[f] > n + 1 => owed[f] = {}
        BY <1>n, <3>1 DEF DueLines
      <4>2. readTo[f] > n + 1 => UnreadLines(f, t) = {}
        BY <1>5, <3>1
      <4> QED
        BY <1>6, <4>1, <4>2
    <3>3. ASSUME NEW i \in owed'[f]
          PROVE  /\ i \in 1..(n + 1) /\ text'[f][i] \in {"error", "warning", "tail"}
                 /\ text'[f][i] = "tail" => /\ i > 1 /\ text'[f][i - 1] = "head"
                                            /\ i > readTo[f] => i - 1 > readTo[f]
      <4>1. CASE i \in owed[f]
        BY <1>9, <4>1
      <4>2. CASE i \in UnreadLines(f, t)
        BY <1>5, <1>t, <4>2
      <4> QED
        BY <1>6, <4>1, <4>2
    <3> QED
      BY <1>4, <2>2, <3>1, <3>2, <3>3
  <2> QED
    BY <2>1, <2>2
<1>11. NothingMissed'
  <2> SUFFICES ASSUME NEW g \in Files, NEW i \in owed'[g]
               PROVE  IF i > readTo'[g] THEN g \in Range(events')
                      ELSE \E k \in DOMAIN pendingChanges' :
                             /\ pendingChanges'[k].file = g
                             /\ pendingChanges'[k].rank >= RankOf(Line(g, i)')
    BY DEF NothingMissed
  <2>1. readTo' = readTo /\ pendingChanges' = pendingChanges
    BY <1>1
  <2>2. CASE g # f
    <3>1. Line(g, i)' = Line(g, i) /\ i \in owed[g]
      BY <1>3, <2>2 DEF Line
    <3> QED
      BY <1>7, <2>1, <3>1 DEF NothingMissed
  <2>3. CASE g = f /\ i \in owed[f] /\ i <= readTo[f]
    <3>1. Line(f, i)' = Line(f, i)
      BY <1>9, <2>3 DEF Line
    <3>2. ~(i > readTo[f])
      BY <1>0, <1>9, <2>3 DEF WatcherTypeOK
    <3> QED
      BY <2>1, <2>3, <3>1, <3>2 DEF NothingMissed
  <2>4. CASE g = f /\ i \in UnreadLines(f, t) /\ f \in Range(events')
    BY <1>5, <2>1, <2>4
  <2> QED
    BY <1>6, <2>2, <2>3, <2>4
<1> QED
  BY <1>8, <1>10, <1>11

(* A rotated file owes nothing. *)
LEMMA RotateKeeps == ASSUME WatcherInv, NEW f \in Files, Rotate(f) PROVE WatcherInv'
<1> USE DEF WatcherInv, WatcherShapes, worldVars, taskVars, readVars
<1>0. WatcherTypeOK
  OBVIOUS
<1>1. /\ text' = [text EXCEPT ![f] = <<>>] /\ owed' = [owed EXCEPT ![f] = {}]
      /\ UNCHANGED <<signedIn, switches, taskVars, readVars, watched, dirs, sends>>
  BY DEF Rotate
<1>told. PICK told \in BOOLEAN : events' = Queued(f, told)
  BY DEF Rotate
<1>2. events \in Seq(Files) /\ <<>> \in Seq(Pieces)
  BY <1>0, NoneYet DEF WatcherTypeOK
<1>3. /\ \A g \in Files : g # f => text'[g] = text[g] /\ owed'[g] = owed[g]
      /\ owed'[f] = {} /\ text' \in [Files -> Seq(Pieces)] /\ owed' \in [Files -> SUBSET Nat]
  BY <1>0, <1>1, <1>2 DEF WatcherTypeOK
<1>4. events' \in Seq(Files) /\ Len(events') <= EventCap /\ Range(events) \subseteq Range(events')
  BY <1>0, <1>told, <1>2, Added DEF Queued, WatcherTypeOK
<1>5. WatcherShapes'
  <2>1. WatcherTypeOK'
    BY <1>0, <1>1, <1>3, <1>4 DEF WatcherTypeOK
  <2> QED
    BY <1>1, <2>1
<1>6. DueLines'
  <2>1. \A g \in Files : readTo'[g] >= Unread
    BY <1>1 DEF DueLines
  <2>2. \A g \in Files : g # f =>
            /\ readTo'[g] > Len(text'[g]) => owed'[g] = {}
            /\ \A i \in owed'[g] :
                /\ i \in 1..Len(text'[g]) /\ text'[g][i] \in {"error", "warning", "tail"}
                /\ text'[g][i] = "tail" => /\ i > 1 /\ text'[g][i - 1] = "head"
                                           /\ i > readTo'[g] => i - 1 > readTo'[g]
    BY <1>1, <1>3 DEF DueLines
  <2> QED
    BY <1>3, <2>1, <2>2 DEF DueLines
<1>7. NothingMissed'
  <2>1. \A g \in Files : \A i : g # f => Line(g, i)' = Line(g, i)
    BY <1>3 DEF Line
  <2> QED
    BY <1>1, <1>3, <1>4, <2>1 DEF NothingMissed
<1> QED
  BY <1>5, <1>6, <1>7

(* A set that changes the roots clears all there is; the same set, nothing. *)
LEMMA ReplaceKeeps == ASSUME WatcherInv, Replace PROVE WatcherInv'
<1> USE DEF WatcherInv, WatcherShapes, worldVars, taskVars, readVars
<1>0. WatcherTypeOK
  OBVIOUS
<1>1. PICK armed \in SUBSET Armed(Head(dirs)) :
        /\ watched' = armed
        /\ IF RootsChanged(armed)
           THEN /\ events' = <<>> /\ pendingChanges' = <<>>
                /\ readTo' = [f \in Files |-> Unread] /\ seenLines' = {}
           ELSE UNCHANGED <<events, readVars>>
        /\ owed' = IF watched = armed THEN owed ELSE [f \in Files |-> {}]
  BY DEF Replace
<1>2. dirs # <<>> /\ dirs' = Tail(dirs) /\ UNCHANGED <<worldVars, taskVars, sends>>
  BY DEF Replace
<1>3. dirs' \in Seq(SUBSET Files) /\ watched' \subseteq Files
  BY <1>0, <1>1, <1>2, Rest DEF WatcherTypeOK, Armed
<1>4. CASE watched = armed
  <2>1. UNCHANGED <<text, readVars, events, owed>>
    BY <1>1, <1>2, <1>4 DEF RootsChanged
  <2>2. WatcherTypeOK'
    BY <1>0, <1>2, <1>3, <2>1 DEF WatcherTypeOK
  <2> QED
    BY <2>1, <2>2, NothingRead
<1>5. CASE watched # armed
  <2>1. /\ events' = <<>> /\ pendingChanges' = <<>> /\ readTo' = [f \in Files |-> Unread] /\ seenLines' = {}
        /\ owed' = [f \in Files |-> {}]
    BY <1>1, <1>5 DEF RootsChanged
  <2>2. events' \in Seq(Files) /\ Len(events') <= EventCap
    BY <2>1, NoneYet
  <2>3. pendingChanges' \in Seq(Changes) /\ Len(pendingChanges') <= ChangesCap /\ DOMAIN pendingChanges' = {}
    BY <2>1, NoneYet
  <2>4. \A f \in Files : readTo'[f] = Unread /\ owed'[f] = {}
    BY <2>1
  <2>5. readTo' \in [Files -> Int] /\ owed' \in [Files -> SUBSET Nat] /\ seenLines' \subseteq Files \X Pieces
    BY <2>1 DEF Unread
  <2>6. WatcherTypeOK'
    BY <1>0, <1>2, <1>3, <2>2, <2>3, <2>5 DEF WatcherTypeOK
  <2>7. DueLines' /\ NothingMissed'
    BY <2>4 DEF DueLines, NothingMissed, Unread
  <2> QED
    BY <2>3, <2>6, <2>7
<1> QED
  BY <1>4, <1>5

(* A reported line may be reported again. *)
LEMMA ExpiryKeeps == ASSUME WatcherInv, SeenExpires PROVE WatcherInv'
<1> USE DEF WatcherInv, WatcherShapes, worldVars, taskVars
<1>1. UNCHANGED <<text, readTo, pendingChanges, events, owed>> /\ WatcherTypeOK'
  BY DEF SeenExpires, WatcherTypeOK
<1> QED
  BY <1>1 DEF DueLines, NothingMissed, Line

(* The analysis takes every change, and what was read with it. *)
LEMMA DrainKeeps == ASSUME WatcherInv, DrainChanges PROVE WatcherInv'
<1> USE DEF WatcherInv, WatcherShapes, worldVars, taskVars
<1>0. WatcherTypeOK
  OBVIOUS
<1>1. /\ pendingChanges' = <<>> /\ owed' = [f \in Files |-> owed[f] \ DueRead(f)]
      /\ UNCHANGED <<worldVars, taskVars, readTo, seenLines, watched, dirs, events, sends>>
  BY DEF DrainChanges
<1>2. pendingChanges' \in Seq(Changes) /\ Len(pendingChanges') <= ChangesCap /\ DOMAIN pendingChanges' = {}
  BY <1>1, NoneYet
<1>3. \A f \in Files : owed'[f] = {i \in owed[f] : ~(i <= readTo[f])}
  BY <1>1 DEF DueRead
<1>4. owed' \in [Files -> SUBSET Nat]
  BY <1>0, <1>1 DEF WatcherTypeOK
<1>5. WatcherTypeOK'
  BY <1>0, <1>1, <1>2, <1>4 DEF WatcherTypeOK
<1>6. DueLines'
  BY <1>1, <1>3 DEF DueLines
<1>7. \A f \in Files : \A i \in owed'[f] : i > readTo'[f]
  BY <1>0, <1>1, <1>3 DEF WatcherTypeOK
<1>8. NothingMissed'
  <2>1. \A f \in Files : \A i \in owed'[f] : f \in Range(events')
    BY <1>1, <1>3, <1>7 DEF NothingMissed
  <2> QED
    BY <1>7, <2>1 DEF NothingMissed
<1> QED
  BY <1>2, <1>5, <1>6, <1>8

(* Error and warning lines have their ranks, any other line has none. *)
LEMMA Ranks ==
    /\ RankOf("error") = 2 /\ RankOf("warning") = 1
    /\ \A line : RankOf(line) \in 0..2 /\ (RankOf(line) > 0 => line \in {"error", "warning"})
  BY DEF RankOf

(* The severity of a part read is that of its worst line.                  *)
LEMMA Severity == \A lines : TopRank(lines) \in 1..2 /\ \A line \in lines : TopRank(lines) >= RankOf(line)
<1> SUFFICES ASSUME NEW lines PROVE TopRank(lines) \in 1..2 /\ \A line \in lines : TopRank(lines) >= RankOf(line)
  OBVIOUS
<1>1. CASE \E line \in lines : RankOf(line) = 2
  BY <1>1, Ranks DEF TopRank
<1>2. CASE ~\E line \in lines : RankOf(line) = 2
  <2>1. \A line \in lines : RankOf(line) \in 0..2 /\ RankOf(line) # 2
    BY <1>2, Ranks
  <2> QED
    BY <1>2, <2>1 DEF TopRank
<1> QED
  BY <1>1, <1>2

(* Where a read begins and ends: past what was read, and past every line   *)
(* that ends after its start.                                              *)
LEMMA Reading ==
    ASSUME WatcherInv, NEW f \in Files, NEW start, start = ReadStart(f), start # Unread
    PROVE  /\ ReadEnd(f, start) \in 1..Len(text[f]) /\ start < ReadEnd(f, start)
           /\ start \in Nat
           /\ \A i \in owed[f] : i > start => i <= ReadEnd(f, start)
           /\ \A i \in owed[f] : i <= readTo[f] => i <= ReadEnd(f, start)
           /\ ~TailOnly(f) => start \in {readTo[f], 0} /\ Begin(f, start) = start
<1>0. WatcherTypeOK /\ DueLines
  BY DEF WatcherInv, WatcherShapes
<1>1. PICK n \in Nat : n = Len(text[f])
  BY <1>0 DEF WatcherTypeOK
<1>2. readTo[f] \in Int /\ readTo[f] >= -1 /\ ReadCap \in Nat /\ ReadCap > 0
  BY <1>0 DEF WatcherTypeOK, DueLines, Unread
<1>3. n # 0 /\ readTo[f] # n
  BY <1>1 DEF ReadStart
<1>4. start \in Nat /\ start < n /\ (~FromTail(f) => start = readTo[f])
      /\ (readTo[f] <= n => readTo[f] <= start)
  BY SMTT(20), <1>1, <1>2, <1>3 DEF ReadStart, FromTail, Unread
<1>5. PICK ends \in SUBSET (1..n) : ends = {i \in start + 1 .. Len(text[f]) : EndsLine(text[f][i])}
  <2>1. {i \in start + 1 .. Len(text[f]) : EndsLine(text[f][i])} \in SUBSET (1..n)
    BY <1>1, <1>4
  <2> QED
    BY <2>1
<1>6. /\ ReadEnd(f, start) = IF ends = {} THEN n ELSE CHOOSE i \in ends : \A j \in ends : j <= i
      /\ \A i \in ends : i > start
  BY <1>1, <1>4, <1>5 DEF ReadEnd
<1>7. ReadEnd(f, start) \in 1..n /\ start < ReadEnd(f, start) /\ \A i \in ends : i <= ReadEnd(f, start)
  <2>1. CASE ends = {}
    BY <1>3, <1>4, <1>6, <2>1
  <2>2. CASE ends # {}
    <3>1. \E i \in ends : \A j \in ends : j <= i
      BY <2>2, Greatest
    <3>2. ReadEnd(f, start) \in ends /\ \A j \in ends : j <= ReadEnd(f, start)
      BY <1>6, <2>2, <3>1
    <3> QED
      BY <1>6, <3>2
  <2> QED
    BY <2>1, <2>2
<1>8. ASSUME NEW i \in owed[f], i > start PROVE i \in ends
  <2>1. i \in 1..n /\ text[f][i] \in {"error", "warning", "tail"}
    BY <1>0, <1>1 DEF DueLines
  <2>2. EndsLine(text[f][i])
    BY <2>1 DEF EndsLine
  <2> QED
    BY <1>1, <1>4, <1>5, <1>8, <2>1, <2>2
<1>9. ASSUME NEW i \in owed[f], i <= readTo[f] PROVE i <= ReadEnd(f, start)
  <2>1. i \in 1..n /\ ~(readTo[f] > n)
    BY <1>0, <1>1 DEF DueLines
  <2> QED
    BY <1>2, <1>4, <1>7, <1>9, <2>1
<1>10. FromTail(f) /\ ~TailOnly(f) => start = 0
  BY <1>1, <1>2, <1>3 DEF ReadStart, TailOnly, Unread
<1>11. ~TailOnly(f) => Begin(f, start) = start
  <2>1. CASE ~FromTail(f)
    BY <2>1 DEF Begin
  <2>2. CASE FromTail(f) /\ ~TailOnly(f)
    <3>1. ~(start > 0)
      BY <1>10, <2>2
    <3> QED
      BY <3>1 DEF Begin
  <2> QED
    BY <2>1, <2>2
<1> QED
  BY <1>1, <1>4, <1>7, <1>8, <1>9, <1>10, <1>11

(* Every file pending is pending in `next` at least as severely, or was    *)
(* dropped from it.                                                        *)
Covered(next, f) ==
    \A i \in DOMAIN pendingChanges :
        \/ \E k \in DOMAIN next :
              next[k].file = pendingChanges[i].file /\ next[k].rank >= pendingChanges[i].rank
        \/ /\ pendingChanges[i].file # f
           /\ \A k \in DOMAIN next : next[k].file # pendingChanges[i].file

(* A change is merged into that of its file or takes the last place; what  *)
(* was pending stays at least as severe unless the ring dropped it.        *)
LEMMA PendingKeeps ==
    ASSUME WatcherShapes, NEW f \in Files, NEW rank \in 0..2, NEW next, next = Pending(f, rank)
    PROVE  /\ next \in Seq(Changes) /\ Len(next) <= ChangesCap
           /\ \A i, j \in DOMAIN next : next[i].file = next[j].file => i = j
           /\ \E k \in DOMAIN next : next[k].file = f /\ next[k].rank >= rank
           /\ Covered(next, f)
<1>0. PICK s \in Seq(Changes) : s = pendingChanges
  BY DEF WatcherShapes
<1>1. /\ Len(s) \in Nat /\ Len(s) <= ChangesCap /\ ChangesCap \in Nat /\ ChangesCap > 0
      /\ \A i, j \in DOMAIN s : s[i].file = s[j].file => i = j
      /\ DOMAIN s = 1..Len(s)
      /\ \A i \in DOMAIN s : s[i] \in Changes
  BY <1>0 DEF WatcherShapes, WatcherTypeOK
<1>2. \A c \in Changes : c.file \in Files /\ c.rank \in 0..2
  BY DEF Changes
<1>3. PICK at : at = {i \in DOMAIN s : s[i].file = f}
  OBVIOUS
<1>4. CASE at # {}
  <2>1. next = [i \in DOMAIN s |-> IF i \in at /\ rank > s[i].rank
                                   THEN [s[i] EXCEPT !.rank = rank] ELSE s[i]]
    BY <1>0, <1>3, <1>4 DEF Pending
  <2>2. ASSUME NEW i \in DOMAIN s
        PROVE  /\ next[i] \in Changes /\ next[i].file = s[i].file /\ next[i].rank >= s[i].rank
               /\ i \in at => next[i].rank >= rank
    <3>1. s[i] \in Changes /\ s[i].rank \in 0..2
      BY <1>1, <1>2
    <3>2. CASE i \in at /\ rank > s[i].rank
      <4>1. next[i] = [s[i] EXCEPT !.rank = rank]
        BY <2>1, <3>2
      <4>2. next[i] \in Changes /\ next[i].file = s[i].file /\ next[i].rank = rank
        BY <3>1, <4>1 DEF Changes
      <4> QED
        BY <3>1, <3>2, <4>2
    <3>3. CASE ~(i \in at /\ rank > s[i].rank)
      <4>1. next[i] = s[i]
        BY <2>1, <3>3
      <4> QED
        BY <3>1, <3>3, <4>1
    <3> QED
      BY <3>2, <3>3
  <2>3. DOMAIN next = 1..Len(s) /\ next \in [1..Len(s) -> Changes]
    BY <1>1, <2>1, <2>2
  <2>4. next \in Seq(Changes) /\ Len(next) = Len(s)
    BY <1>1, <2>3
  <2>5. PICK i \in DOMAIN s : i \in at /\ s[i].file = f
    BY <1>3, <1>4
  <2>6. Covered(next, f)
    BY <1>0, <1>1, <2>2, <2>3 DEF Covered
  <2> QED
    BY SMTT(20), <1>0, <1>1, <2>2, <2>3, <2>4, <2>5, <2>6
<1>5. CASE at = {}
  <2>1. PICK c \in Changes : c = [file |-> f, rank |-> rank]
    BY DEF Changes
  <2>2. PICK t : t = IF Len(s) >= ChangesCap THEN Tail(s) ELSE s
    OBVIOUS
  <2>3. next = Append(t, c) /\ c.file = f /\ c.rank = rank
    BY <1>0, <1>3, <1>5, <2>1, <2>2 DEF Pending
  <2>4. /\ t \in Seq(Changes) /\ Len(t) \in Nat /\ Len(t) < ChangesCap
        /\ \A i \in DOMAIN t : \E j \in DOMAIN s : t[i] = s[j]
        /\ \A i, j \in DOMAIN t : t[i].file = t[j].file => i = j
    <3>1. CASE Len(s) >= ChangesCap
      <4>0. s # <<>> /\ t = Tail(s)
        BY <1>1, <2>2, <3>1, NoneYet
      <4>1. /\ Tail(s) \in Seq(Changes) /\ Len(Tail(s)) = Len(s) - 1
            /\ \A i \in DOMAIN Tail(s) : i + 1 \in DOMAIN s /\ Tail(s)[i] = s[i + 1] /\ i \in Nat
        BY <4>0, Rest
      <4>2. ASSUME NEW i \in DOMAIN t, NEW j \in DOMAIN t, t[i].file = t[j].file PROVE i = j
        <5>1. i + 1 = j + 1 /\ i \in Nat /\ j \in Nat
          BY <1>1, <4>0, <4>1, <4>2
        <5> QED
          BY <5>1
      <4> QED
        BY <1>1, <3>1, <4>0, <4>1, <4>2
    <3>2. CASE ~(Len(s) >= ChangesCap)
      BY <1>1, <2>2, <3>2
    <3> QED
      BY <3>1, <3>2
  <2>5. \A i \in DOMAIN t : t[i].file # f
    BY <1>3, <1>5, <2>4
  <2>6. /\ next \in Seq(Changes) /\ Len(next) = Len(t) + 1
        /\ \A i \in DOMAIN t : i \in DOMAIN next /\ next[i] = t[i]
        /\ \A i \in DOMAIN next : i \in DOMAIN t \/ (i = Len(t) + 1 /\ next[i] = c)
        /\ Len(t) + 1 \in DOMAIN next /\ next[Len(t) + 1] = c
    BY <2>1, <2>3, <2>4, Added
  <2>7. \A i, j \in DOMAIN next : next[i].file = next[j].file => i = j
    BY <2>3, <2>4, <2>5, <2>6
  <2>8. \E k \in DOMAIN next : next[k].file = f /\ next[k].rank >= rank
    BY <2>3, <2>6
  <2>9. \A k \in DOMAIN next : next[k].file = f \/ \E j \in DOMAIN s : next[k] = s[j]
    BY <2>3, <2>4, <2>6
  <2>10. ASSUME NEW i \in DOMAIN s, NEW k \in DOMAIN next, next[k].file = s[i].file
         PROVE  next[k].rank >= s[i].rank
    <3>1. s[i].file # f /\ s[i].rank \in 0..2
      BY <1>1, <1>2, <1>3, <1>5
    <3>2. PICK j \in DOMAIN s : next[k] = s[j]
      BY <2>9, <2>10, <3>1
    <3>3. j = i
      BY <1>1, <2>10, <3>2
    <3> QED
      BY <3>1, <3>2, <3>3
  <2>11. \A i \in DOMAIN s : s[i].file # f
    BY <1>3, <1>5
  <2>12. Covered(next, f)
    BY <1>0, <2>10, <2>11 DEF Covered
  <2> QED
    BY <1>1, <2>4, <2>6, <2>7, <2>8, <2>12
<1> QED
  BY <1>4, <1>5

(* What is pending is of a file and has a rank. *)
LEMMA AChange ==
    ASSUME NEW s \in Seq(Changes), NEW i \in DOMAIN s PROVE s[i].file \in Files /\ s[i].rank \in 0..2
<1>1. s[i] \in Changes
  OBVIOUS
<1> QED
  BY <1>1 DEF Changes

(* An event is taken from the queue: its file was read to the end, or what *)
(* of it is due was read before.                                           *)
LEMMA EventKeeps == ASSUME WatcherInv, HandleEvent PROVE WatcherInv'
<1>0. WatcherShapes /\ WatcherTypeOK /\ DueLines /\ NothingMissed
  BY DEF WatcherInv, WatcherShapes
<1>1. PICK f, start, end, lines, next, gone :
        /\ f = Head(events) /\ start = ReadStart(f) /\ end = ReadEnd(f, start) /\ lines = NewLines(f, start)
        /\ next = Pending(f, TopRank(lines))
        /\ gone = {pendingChanges[i].file : i \in DOMAIN pendingChanges} \ {next[i].file : i \in DOMAIN next}
  OBVIOUS
<1>2. \/ PassedOver(f) /\ UNCHANGED readVars
      \/ /\ readTo' = IF readTo[f] > Len(text[f]) THEN [readTo EXCEPT ![f] = 0] ELSE readTo
         /\ IF start = Unread THEN UNCHANGED owed ELSE PassedOver(f)
         /\ UNCHANGED <<seenLines, pendingChanges>>
      \/ /\ start # Unread
         /\ readTo' = [readTo EXCEPT ![f] = end]
         /\ seenLines' = seenLines \cup ({f} \X lines)
         /\ pendingChanges' = IF lines = {} THEN pendingChanges ELSE next
         /\ owed' = StillDue(f, end, IF lines = {} THEN {} ELSE gone)
  BY <1>1 DEF HandleEvent
<1>3. events # <<>> /\ events' = Tail(events) /\ UNCHANGED <<worldVars, taskVars, watched, dirs, sends>>
  BY DEF HandleEvent
<1>4. /\ f \in Files /\ events' \in Seq(Files) /\ Len(events') <= EventCap
      /\ \A g \in Range(events) : g # f => g \in Range(events')
  <2>1. events \in Seq(Files) /\ Len(events) <= EventCap /\ EventCap \in Nat
    BY <1>0 DEF WatcherTypeOK
  <2>2. Head(events) \in Files /\ Tail(events) \in Seq(Files) /\ Len(Tail(events)) = Len(events) - 1 /\ Len(events) \in Nat
        /\ \A g \in Range(events) : g # Head(events) => g \in Range(Tail(events))
    BY <1>3, <2>1, Rest
  <2> QED
    BY <1>1, <1>3, <2>1, <2>2
<1>5. text' = text /\ \A g, i : Line(g, i)' = Line(g, i)
  BY <1>3 DEF worldVars, Line
<1>6. \A g \in Files : readTo[g] \in Int /\ owed[g] \in SUBSET Nat
  BY <1>0 DEF WatcherTypeOK
<1>7. ASSUME PassedOver(f)
      PROVE  /\ owed' \in [Files -> SUBSET Nat] /\ \A g \in Files : owed'[g] \subseteq owed[g]
             /\ \A g \in Files : \A i \in owed'[g] : i > readTo[g] => g \in Range(events) /\ g \in Range(events')
  <2>1. owed' = [owed EXCEPT ![f] = IF f \in Range(events') THEN owed[f] ELSE DueRead(f)]
    BY <1>3, <1>7 DEF PassedOver
  <2>2. \A g \in Files : owed'[g] = IF g = f /\ f \notin Range(events') THEN DueRead(f) ELSE owed[g]
    BY <1>0, <2>1 DEF WatcherTypeOK
  <2>3. \A g \in Files : owed'[g] \subseteq owed[g]
    BY <2>2 DEF DueRead
  <2>4. owed' \in [Files -> SUBSET Nat]
    BY <1>0, <1>4, <1>6, <2>1 DEF WatcherTypeOK, DueRead
  <2>5. ASSUME NEW g \in Files, NEW i \in owed'[g], i > readTo[g] PROVE g \in Range(events) /\ g \in Range(events')
    <3>1. i \in owed[g] /\ i \in Int /\ readTo[g] \in Int /\ ~(i <= readTo[g])
      BY <1>6, <2>3, <2>5
    <3>2. g \in Range(events)
      BY <1>0, <2>5, <3>1 DEF NothingMissed
    <3>3. g = f => f \in Range(events')
      BY <2>2, <2>5, <3>1 DEF DueRead
    <3> QED
      BY <1>4, <3>2, <3>3
  <2> QED
    BY <2>3, <2>4, <2>5
<1>8. CASE PassedOver(f) /\ UNCHANGED readVars
  <2>1. WatcherShapes'
    BY <1>0, <1>3, <1>4, <1>7, <1>8 DEF WatcherShapes, WatcherTypeOK, worldVars, taskVars, readVars
  <2>2. DueLines'
    BY <1>0, <1>5, <1>7, <1>8 DEF DueLines, readVars
  <2>3. NothingMissed'
    BY <1>0, <1>5, <1>7, <1>8 DEF NothingMissed, readVars
  <2> QED
    BY <2>1, <2>2, <2>3 DEF WatcherInv
<1>10. CASE /\ readTo' = IF readTo[f] > Len(text[f]) THEN [readTo EXCEPT ![f] = 0] ELSE readTo
            /\ IF start = Unread THEN UNCHANGED owed ELSE PassedOver(f)
            /\ UNCHANGED <<seenLines, pendingChanges>>
  <2>1. /\ readTo' \in [Files -> Int] /\ \A g \in Files : g # f => readTo'[g] = readTo[g]
        /\ readTo'[f] = IF readTo[f] > Len(text[f]) THEN 0 ELSE readTo[f]
    BY <1>0, <1>4, <1>10 DEF WatcherTypeOK
  <2>2. owed' \in [Files -> SUBSET Nat] /\ \A g \in Files : owed'[g] \subseteq owed[g]
    BY <1>0, <1>7, <1>10 DEF WatcherTypeOK
  <2>3. WatcherShapes'
    BY <1>0, <1>3, <1>4, <1>10, <2>1, <2>2 DEF WatcherShapes, WatcherTypeOK, worldVars, taskVars
  <2>4. PICK n \in Nat : n = Len(text[f])
    <3>1. text[f] \in Seq(Pieces)
      BY <1>0, <1>4 DEF WatcherTypeOK
    <3>2. Len(text[f]) \in Nat
      BY <3>1
    <3> QED
      BY <3>2
  <2>5. readTo[f] > n => owed[f] = {}
    BY <1>0, <1>4, <2>4 DEF DueLines
  <2>6. \A i \in owed[f] : i \in 1..n /\ readTo'[f] = readTo[f]
    BY <1>0, <1>4, <2>1, <2>4, <2>5 DEF DueLines
  <2>7. readTo'[f] >= Unread /\ (readTo'[f] > n => owed[f] = {})
    BY <1>0, <1>4, <2>1, <2>4, <2>5 DEF DueLines, Unread
  <2>8. \A g \in Files : \A i \in owed'[g] : readTo'[g] = readTo[g]
    BY <2>1, <2>2, <2>6
  <2>9. DueLines'
    <3>1. UNCHANGED text
      BY <1>5
    <3> SUFFICES ASSUME NEW g \in Files
                 PROVE  /\ readTo'[g] >= Unread /\ (readTo'[g] > Len(text[g]) => owed'[g] = {})
                        /\ \A i \in owed'[g] :
                            /\ i \in 1..Len(text[g]) /\ text[g][i] \in {"error", "warning", "tail"}
                            /\ text[g][i] = "tail" => /\ i > 1 /\ text[g][i - 1] = "head"
                                                      /\ i > readTo'[g] => i - 1 > readTo'[g]
      BY <3>1 DEF DueLines
    <3>2. /\ readTo[g] >= Unread /\ (readTo[g] > Len(text[g]) => owed[g] = {})
          /\ \A i \in owed[g] :
              /\ i \in 1..Len(text[g]) /\ text[g][i] \in {"error", "warning", "tail"}
              /\ text[g][i] = "tail" => /\ i > 1 /\ text[g][i - 1] = "head"
                                        /\ i > readTo[g] => i - 1 > readTo[g]
      BY <1>0 DEF DueLines
    <3>3. owed'[g] \subseteq owed[g]
      BY <2>2
    <3>4. \A i \in owed'[g] : readTo'[g] = readTo[g]
      BY <2>8
    <3>5. readTo'[g] >= Unread /\ (readTo'[g] > Len(text[g]) => owed[g] = {})
      <4>1. CASE g = f
        BY <2>4, <2>7, <4>1
      <4>2. CASE g # f
        BY <2>1, <3>2, <4>2
      <4> QED
        BY <4>1, <4>2
    <3> QED
      BY <3>2, <3>3, <3>4, <3>5
  <2>10. \A g \in Files : \A i \in owed'[g] : i > readTo[g] => g \in Range(events')
    <3>1. CASE start = Unread
      <4>1. readTo[f] > n \/ readTo[f] = n \/ n = 0
        BY SMTT(40), <1>0, <1>1, <1>4, <1>6, <2>4, <3>1 DEF ReadStart, FromTail, Unread, DueLines
      <4>2. \A i \in owed[f] : ~(i > readTo[f])
        BY <1>4, <1>6, <2>4, <2>5, <2>6, <4>1
      <4> QED
        BY <1>0, <1>4, <1>10, <3>1, <4>2 DEF NothingMissed
    <3>2. CASE start # Unread
      BY <1>7, <1>10, <3>2
    <3> QED
      BY <3>1, <3>2
  <2>11. NothingMissed'
    BY <1>0, <1>5, <1>10, <2>2, <2>8, <2>10 DEF NothingMissed
  <2> QED
    BY <2>3, <2>9, <2>11 DEF WatcherInv
<1>9. CASE /\ start # Unread
           /\ readTo' = [readTo EXCEPT ![f] = end]
           /\ seenLines' = seenLines \cup ({f} \X lines)
           /\ pendingChanges' = IF lines = {} THEN pendingChanges ELSE next
           /\ owed' = StillDue(f, end, IF lines = {} THEN {} ELSE gone)
  <2>1. /\ end \in 1..Len(text[f]) /\ start < end /\ start \in Nat
        /\ \A i \in owed[f] : (i > start => i <= end) /\ (i <= readTo[f] => i <= end)
        /\ ~TailOnly(f) => start \in {readTo[f], 0} /\ Begin(f, start) = start
    BY <1>1, <1>4, <1>9, Reading
  <2>2. TopRank(lines) \in 1..2 /\ \A line \in lines : TopRank(lines) >= RankOf(line)
    BY Severity
  <2>3. /\ next \in Seq(Changes) /\ Len(next) <= ChangesCap
        /\ \A i, j \in DOMAIN next : next[i].file = next[j].file => i = j
        /\ \E k \in DOMAIN next : next[k].file = f /\ next[k].rank >= TopRank(lines)
        /\ \A i \in DOMAIN pendingChanges :
                \/ \E k \in DOMAIN next :
                      next[k].file = pendingChanges[i].file /\ next[k].rank >= pendingChanges[i].rank
                \/ pendingChanges[i].file # f
                   /\ \A k \in DOMAIN next : next[k].file # pendingChanges[i].file
    <3>1. PICK rank \in 0..2 : rank = TopRank(lines)
      BY <2>2
    <3>2. next = Pending(f, rank)
      BY <1>1, <3>1
    <3>3. /\ next \in Seq(Changes) /\ Len(next) <= ChangesCap
          /\ \A i, j \in DOMAIN next : next[i].file = next[j].file => i = j
      BY SMTT(20), <1>0, <1>4, <3>2, PendingKeeps
    <3>4. \E k \in DOMAIN next : next[k].file = f /\ next[k].rank >= rank
      BY <1>0, <1>4, <3>2, PendingKeeps
    <3>5. Covered(next, f)
      BY <1>0, <1>4, <3>2, PendingKeeps
    <3> QED
      BY <3>1, <3>3, <3>4, <3>5 DEF Covered
  <2>4. /\ readTo' \in [Files -> Int] /\ readTo'[f] = end
        /\ \A g \in Files : g # f => readTo'[g] = readTo[g]
    BY <1>0, <1>4, <1>9, <2>1 DEF WatcherTypeOK
  <2>5. PICK dropped : dropped = IF lines = {} THEN {} ELSE gone
    OBVIOUS
  <2>6. \A g \in Files : owed'[g] = IF g \in dropped THEN owed[g] \ DueRead(g)
                                    ELSE IF g # f THEN owed[g]
                                    ELSE {i \in owed[f] : i <= readTo[f] \/ i > end \/ (~TailOnly(f) /\ <<f, Line(f, i)>> \notin seenLines)}
    BY <1>9, <2>5 DEF StillDue
  <2>7. f \notin dropped
    BY <1>1, <2>3, <2>5
  <2>8. owed' \in [Files -> SUBSET Nat] /\ \A g \in Files : owed'[g] \subseteq owed[g]
    <3>1. \A g \in Files : owed'[g] \subseteq owed[g]
      BY <2>6
    <3>2. owed' = [g \in Files |-> owed'[g]]
      BY <1>9 DEF StillDue
    <3> QED
      BY <1>6, <3>1, <3>2
  <2>9. lines \subseteq {"error", "warning"}
    BY <1>1, Ranks DEF NewLines
  <2>10. WatcherShapes'
    <3>1. seenLines' \subseteq Files \X Pieces
      BY ZenonT(30), <1>0, <1>4, <1>9, <2>9 DEF WatcherTypeOK, Pieces
    <3>2. /\ pendingChanges' \in Seq(Changes) /\ Len(pendingChanges') <= ChangesCap
          /\ \A i, j \in DOMAIN pendingChanges' : pendingChanges'[i].file = pendingChanges'[j].file => i = j
      BY <1>0, <1>9, <2>3 DEF WatcherShapes, WatcherTypeOK
    <3>3. \A i \in DOMAIN pendingChanges' : pendingChanges'[i].file \in Files /\ pendingChanges'[i].rank \in 0 .. 2
      BY <3>2, AChange
    <3>4. WatcherTypeOK'
      BY <1>0, <1>3, <1>4, <2>4, <2>8, <3>1, <3>2, <3>3 DEF WatcherTypeOK, worldVars, taskVars
    <3> QED
      BY <3>2, <3>4 DEF WatcherShapes
  <2>11. \A i \in owed'[f] : i \in owed[f] /\ i <= end /\ ~(i > end)
    <3> SUFFICES ASSUME NEW i \in owed'[f] PROVE i \in owed[f] /\ i <= end /\ ~(i > end)
      OBVIOUS
    <3>1. i \in owed[f] /\ i \in Nat /\ readTo[f] \in Int
      BY <1>4, <1>6, <2>8
    <3>2. i <= end
      <4>1. CASE i > start
        BY <2>1, <3>1, <4>1
      <4>2. CASE i <= start
        BY <2>1, <3>1, <4>2
      <4> QED
        BY <2>1, <3>1, <4>1, <4>2
    <3> QED
      BY <2>1, <3>1, <3>2
  <2>12. DueLines'
    <3>1. end >= Unread /\ ~(end > Len(text[f]))
      BY <2>1 DEF Unread
    <3>2. \A g \in Files : g # f =>
            /\ readTo'[g] >= Unread /\ (readTo'[g] > Len(text'[g]) => owed'[g] = {})
            /\ \A i \in owed'[g] :
                /\ i \in 1..Len(text'[g]) /\ text'[g][i] \in {"error", "warning", "tail"}
                /\ text'[g][i] = "tail" => /\ i > 1 /\ text'[g][i - 1] = "head"
                                           /\ i > readTo'[g] => i - 1 > readTo'[g]
      BY SMTT(20), <1>0, <1>5, <2>4, <2>8 DEF DueLines
    <3>3. \A i \in owed'[f] : /\ i \in 1..Len(text'[f]) /\ text'[f][i] \in {"error", "warning", "tail"}
                              /\ text'[f][i] = "tail" => i > 1 /\ text'[f][i - 1] = "head"
      BY <1>0, <1>4, <1>5, <2>11 DEF DueLines
    <3> QED
      BY SMTT(20), <1>5, <2>4, <2>11, <3>1, <3>2, <3>3 DEF DueLines
  <2>13. ASSUME NEW g \in Files, NEW i \in owed[g], ~(i > readTo[g]), g \notin dropped
         PROVE  \E k \in DOMAIN pendingChanges' :
                    pendingChanges'[k].file = g /\ pendingChanges'[k].rank >= RankOf(Line(g, i))
    <3>1. PICK k \in DOMAIN pendingChanges : pendingChanges[k].file = g /\ pendingChanges[k].rank >= RankOf(Line(g, i))
      BY <1>0, <2>13 DEF NothingMissed
    <3>2. CASE lines = {}
      BY <1>9, <3>1, <3>2
    <3>3. CASE lines # {}
      <4>1. pendingChanges' = next /\ g \notin gone
        BY <1>9, <2>5, <2>13, <3>3
      <4>2. PICK j \in DOMAIN next : next[j].file = g /\ next[j].rank >= pendingChanges[k].rank
        <5>1. \E j \in DOMAIN next : next[j].file = g
          BY <1>1, <3>1, <4>1
        <5> QED
          BY <2>3, <3>1, <5>1
      <4>3. next[j].rank \in 0..2 /\ pendingChanges[k].rank \in 0..2 /\ RankOf(Line(g, i)) \in 0..2
        BY <1>0, <2>3, Ranks, AChange DEF WatcherShapes
      <4> QED
        BY <3>1, <4>1, <4>2, <4>3
    <3> QED
      BY <3>2, <3>3
  <2>14. ASSUME NEW i \in owed'[f], i > readTo[f]
         PROVE  \E k \in DOMAIN pendingChanges' :
                    pendingChanges'[k].file = f /\ pendingChanges'[k].rank >= RankOf(Line(f, i))
    <3>1. i \in owed[f] /\ i <= end /\ i \in Nat
      BY <1>4, <1>6, <2>11
    <3>2. ~TailOnly(f) /\ <<f, Line(f, i)>> \notin seenLines
      <4>1. i <= readTo[f] \/ i > end \/ (~TailOnly(f) /\ <<f, Line(f, i)>> \notin seenLines)
        BY <1>4, <2>6, <2>7
      <4>2. ~(i <= readTo[f]) /\ ~(i > end)
        BY <1>4, <1>6, <2>11, <2>14, <3>1
      <4> QED
        BY <4>1, <4>2
    <3>3. /\ text[f][i] \in {"error", "warning", "tail"}
          /\ text[f][i] = "tail" => text[f][i - 1] = "head" /\ i - 1 > start
          /\ i > start
      <4>1. /\ text[f][i] \in {"error", "warning", "tail"} /\ i \in 1..Len(text[f])
            /\ text[f][i] = "tail" => text[f][i - 1] = "head" /\ i > 1 /\ i - 1 > readTo[f]
        BY <1>0, <1>4, <2>14, <3>1 DEF DueLines
      <4>2. CASE start = readTo[f]
        BY <2>14, <4>1, <4>2
      <4>3. CASE start = 0
        BY <3>1, <4>1, <4>3
      <4> QED
        BY <2>1, <3>2, <4>2, <4>3
    <3>4. LineAt(f, start, i) = Line(f, i) /\ RankOf(Line(f, i)) > 0
      <4>1. Line(f, i) \in {"error", "warning"}
        BY <3>3 DEF Line
      <4>2. LineAt(f, start, i) = Line(f, i)
        BY <3>3 DEF Line, LineAt
      <4> QED
        BY <4>1, <4>2, Ranks
    <3>5. Line(f, i) \in lines
      <4>1. Begin(f, start) = start /\ i \in start + 1 .. end
        BY <2>1, <3>1, <3>2, <3>3
      <4> QED
        BY <1>1, <3>2, <3>4, <4>1 DEF NewLines, IsNew
    <3>6. PICK k \in DOMAIN next : next[k].file = f /\ next[k].rank >= TopRank(lines)
      BY <2>3
    <3>7. next[k].rank \in 0..2 /\ TopRank(lines) \in 1..2 /\ RankOf(Line(f, i)) \in 0..2
          /\ TopRank(lines) >= RankOf(Line(f, i))
      BY <2>2, <2>3, <3>5, Ranks, AChange
    <3>8. pendingChanges' = next
      BY <1>9, <3>5
    <3> QED
      BY <3>6, <3>7, <3>8
  <2>15. NothingMissed'
    <3> SUFFICES ASSUME NEW g \in Files, NEW i \in owed'[g]
                 PROVE  IF i > readTo'[g] THEN g \in Range(events')
                        ELSE \E k \in DOMAIN pendingChanges' :
                               pendingChanges'[k].file = g /\ pendingChanges'[k].rank >= RankOf(Line(g, i))
      BY <1>5 DEF NothingMissed
    <3>1. i \in owed[g] /\ i \in Nat /\ readTo[g] \in Int
      BY <1>6, <2>8
    <3>2. CASE g = f
      BY <2>4, <2>7, <2>11, <2>13, <2>14, <3>1, <3>2
    <3>3. CASE g # f /\ i > readTo[g]
      BY <1>0, <1>4, <2>4, <3>1, <3>3 DEF NothingMissed
    <3>4. CASE g # f /\ ~(i > readTo[g])
      <4>1. g \notin dropped
        <5>1. g \in dropped => i \notin DueRead(g)
          BY <2>6
        <5>2. i \in DueRead(g)
          BY <3>1, <3>4 DEF DueRead
        <5> QED
          BY <5>1, <5>2
      <4> QED
        BY <2>4, <2>13, <3>1, <3>4, <4>1
    <3> QED
      BY <3>2, <3>3, <3>4
  <2> QED
    BY <2>10, <2>12, <2>15 DEF WatcherInv
<1> QED
  BY <1>2, <1>8, <1>9, <1>10

-----------------------------------------------------------------------------

(* The watcher keeps its invariant, for any logs, queue, ring and read. *)
THEOREM WatcherInvariance == WatcherSpec => []WatcherInv
<1>1. WatcherInit => WatcherInv
  BY WatcherInitInv
<1>2. WatcherInv /\ [WatcherNext]_watcherVars => WatcherInv'
  <2> SUFFICES ASSUME WatcherInv, [WatcherNext]_watcherVars PROVE WatcherInv'
    OBVIOUS
  <2>1. CASE UNCHANGED watcherVars
    <3>1. UNCHANGED <<text, readVars, events, owed>> /\ WatcherTypeOK'
      BY <2>1 DEF watcherVars, worldVars, taskVars, readVars, WatcherInv, WatcherShapes, WatcherTypeOK
    <3> QED
      BY <3>1, NothingRead
  <2>2. CASE WatcherNext
    BY <2>2, SendingKeeps, WritesKeep, RotateKeeps, ReplaceKeeps, EventKeeps, ExpiryKeeps, DrainKeeps DEF WatcherNext
  <2> QED
    BY <2>1, <2>2
<1> QED
  BY <1>1, <1>2, PTL DEF WatcherSpec

(* A new error or warning line of a watched log reaches the next analysis: *)
(* an event says the file is to be read, or its pending change is at least *)
(* that severe (handle_event, read_chunk, merge_change).                   *)
THEOREM WatcherIsSound == WatcherSpec => []WatcherSound
<1>1. WatcherInv => WatcherSound
  BY DEF WatcherInv, WatcherShapes, WatcherSound
<1> QED
  BY <1>1, WatcherInvariance, PTL

-----------------------------------------------------------------------------
(* ScreenErrors: the caps of the memories *)

HIDE LogWatcherAssumption

LEMMA JoinedIs ==
    ASSUME NEW T, NEW s \in Seq(T), NEW t \in Seq(T), NEW u, u = s \o t
    PROVE  /\ u \in Seq(T) /\ Len(u) = Len(s) + Len(t) /\ Len(s) \in Nat /\ Len(t) \in Nat
           /\ \A i \in 1 .. Len(u) : \/ i \in 1 .. Len(s) /\ u[i] = s[i]
                                     \/ i - Len(s) \in 1 .. Len(t) /\ u[i] = t[i - Len(s)]
<1>1. PICK m, n : m = Len(s) /\ n = Len(t)
  OBVIOUS
<1>2. m \in Nat /\ n \in Nat /\ u \in Seq(T) /\ Len(u) = m + n
  BY <1>1, ConcatProperties
<1>3. \A i \in 1 .. m + n : u[i] = IF i <= m THEN s[i] ELSE t[i - m]
  BY <1>1, ConcatProperties
<1>4. \A i \in 1 .. m + n : i \in 1 .. m \/ (~(i <= m) /\ i - m \in 1 .. n)
  BY <1>2
<1>5. \A i \in 1 .. m : i <= m
  OBVIOUS
<1>6. \A i \in 1 .. m + n : (i \in 1 .. m /\ u[i] = s[i]) \/ (i - m \in 1 .. n /\ u[i] = t[i - m])
  BY ONLY <1>3, <1>4, <1>5
<1>7. ASSUME NEW i \in 1 .. Len(u)
      PROVE  \/ i \in 1 .. Len(s) /\ u[i] = s[i]
             \/ i - Len(s) \in 1 .. Len(t) /\ u[i] = t[i - Len(s)]
  <2>1. i \in 1 .. m + n
    BY ONLY <1>2, <1>7
  <2>2. (i \in 1 .. m /\ u[i] = s[i]) \/ (i - m \in 1 .. n /\ u[i] = t[i - m])
    BY ONLY <1>6, <2>1
  <2> QED
    BY ONLY <1>1, <2>2
<1>8. u \in Seq(T) /\ Len(u) = Len(s) + Len(t) /\ Len(s) \in Nat /\ Len(t) \in Nat
  BY ONLY <1>1, <1>2
<1> QED
  BY <1>7, <1>8

LEMMA FrontIs ==
    ASSUME NEW T, NEW s \in Seq(T), NEW cap \in Nat
    PROVE  /\ Front2(s, cap) \in Seq(T) /\ Len(Front2(s, cap)) <= cap /\ Len(Front2(s, cap)) <= Len(s)
           /\ \A i \in 1 .. Len(Front2(s, cap)) : Front2(s, cap)[i] = s[i]
<1>1. PICK n : n = IF Len(s) <= cap THEN Len(s) ELSE cap
  OBVIOUS
<1>2. n \in Nat /\ n <= cap /\ n <= Len(s) /\ Len(s) \in Nat
  BY <1>1
<1>3. PICK r : r = SubSeq(s, 1, n)
  OBVIOUS
<1>4. r = [i \in 1 .. n |-> s[i]]
  BY <1>2, <1>3
<1>5. \A i \in 1 .. n : s[i] \in T
  BY <1>2
<1>6. r \in Seq(T) /\ Len(r) = n
  BY <1>2, <1>4, <1>5, IsASeq, LenProperties
<1>7. Front2(s, cap) = r
  BY <1>1, <1>3 DEF Front2
<1> QED
  BY <1>2, <1>4, <1>6, <1>7

LEMMA NewestIs ==
    ASSUME NEW T, NEW s \in Seq(T), NEW cap \in Nat \ {0}
    PROVE  /\ KeepNewest(s, cap) \in Seq(T) /\ Len(KeepNewest(s, cap)) <= cap
           /\ \A i \in 1 .. Len(KeepNewest(s, cap)) : \E k \in 1 .. Len(s) : KeepNewest(s, cap)[i] = s[k]
           /\ Len(s) # 0 => \E i \in 1 .. Len(KeepNewest(s, cap)) : KeepNewest(s, cap)[i] = s[Len(s)]
<1>1. CASE Len(s) <= cap
  BY <1>1 DEF KeepNewest
<1>2. CASE ~(Len(s) <= cap)
  <2>1. PICK r, d : r = KeepNewest(s, cap) /\ d = Len(s) - cap
    OBVIOUS
  <2>2. Len(s) \in Nat /\ d \in Nat /\ d + cap = Len(s)
    BY <1>2, <2>1
  <2>3. r = SubSeq(s, d + 1, Len(s))
    BY <1>2, <2>1 DEF KeepNewest
  <2>4. r = [i \in 1 .. cap |-> s[i + d]]
    BY <2>2, <2>3
  <2>5. \A i \in 1 .. cap : i + d \in 1 .. Len(s) /\ s[i + d] \in T
    BY <2>2
  <2>6. r \in Seq(T) /\ Len(r) = cap
    BY <2>4, <2>5, IsASeq, LenProperties
  <2>7. cap \in 1 .. Len(r) /\ r[cap] = s[Len(s)]
    BY <2>2, <2>4, <2>6
  <2> QED
    BY <2>1, <2>4, <2>5, <2>6, <2>7
<1> QED
  BY <1>1, <1>2

LEMMA ReversedIs ==
    ASSUME NEW T, NEW s \in Seq(T)
    PROVE  /\ Reverse(s) \in Seq(T) /\ Len(Reverse(s)) = Len(s)
           /\ \A i \in 1 .. Len(s) : Len(s) - i + 1 \in 1 .. Len(s) /\ Reverse(s)[i] = s[Len(s) - i + 1]
<1>1. PICK r : r = Reverse(s)
  OBVIOUS
<1>2. r = [i \in 1 .. Len(s) |-> s[(Len(s) - i) + 1]] /\ Len(s) \in Nat
  BY <1>1 DEF Reverse
<1>3. \A i \in 1 .. Len(s) : (Len(s) - i) + 1 \in 1 .. Len(s) /\ s[(Len(s) - i) + 1] \in T
  BY <1>2
<1>4. r \in Seq(T) /\ Len(r) = Len(s)
  BY <1>2, <1>3, IsASeq, LenProperties
<1> QED
  BY <1>1, <1>2, <1>3, <1>4

-----------------------------------------------------------------------------
(* ScreenErrors: no two of a list repeat each other *)

Apart(s) == \A i, k \in 1 .. Len(s) : i # k => ~Repeats(s[i], s[k])
Cross(s, t) == \A i \in 1 .. Len(s), k \in 1 .. Len(t) : ~Repeats(s[i], t[k])

LEMMA RepeatsBoth == \A a, b \in Item : Repeats(a, b) <=> Repeats(b, a)
  BY DEF Repeats

LEMMA ApartParts ==
    ASSUME NEW s \in Seq(Item), NEW t \in Seq(Item)
    PROVE  Apart(s \o t) <=> Apart(s) /\ Apart(t) /\ Cross(s, t)
<1>1. PICK u, m, n : u = s \o t /\ m = Len(s) /\ n = Len(t)
  OBVIOUS
<1>2. /\ m \in Nat /\ n \in Nat /\ u \in Seq(Item) /\ Len(u) = m + n
      /\ \A i \in 1 .. m : i \in 1 .. Len(u) /\ u[i] = s[i] /\ s[i] \in Item
      /\ \A k \in 1 .. n : m + k \in 1 .. Len(u) /\ u[m + k] = t[k] /\ t[k] \in Item
  BY <1>1
<1>3. ASSUME Apart(u) PROVE Apart(s) /\ Apart(t) /\ Cross(s, t)
  <2>1. Apart(s)
    BY <1>1, <1>2, <1>3 DEF Apart
  <2>2. Apart(t)
    <3> SUFFICES ASSUME NEW i \in 1 .. n, NEW k \in 1 .. n, i # k PROVE ~Repeats(t[i], t[k])
      BY <1>1 DEF Apart
    <3>1. m + i # m + k
      BY <1>2
    <3> QED
      BY <1>2, <1>3, <3>1 DEF Apart
  <2>3. Cross(s, t)
    <3> SUFFICES ASSUME NEW i \in 1 .. m, NEW k \in 1 .. n PROVE ~Repeats(s[i], t[k])
      BY <1>1 DEF Cross
    <3>1. i # m + k
      BY <1>2
    <3> QED
      BY <1>2, <1>3, <3>1 DEF Apart
  <2> QED
    BY <2>1, <2>2, <2>3
<1>4. ASSUME Apart(s), Apart(t), Cross(s, t) PROVE Apart(u)
  <2> SUFFICES ASSUME NEW i \in 1 .. m + n, NEW k \in 1 .. m + n, i # k PROVE ~Repeats(u[i], u[k])
    BY <1>2 DEF Apart
  <2>1. \A j \in 1 .. m + n : j \notin 1 .. m => j - m \in 1 .. n /\ m + (j - m) = j
    BY <1>2
  <2>2. CASE i \in 1 .. m /\ k \in 1 .. m
    BY <1>1, <1>2, <1>4, <2>2 DEF Apart
  <2>3. CASE i \in 1 .. m /\ k \notin 1 .. m
    BY <1>1, <1>2, <1>4, <2>1, <2>3 DEF Cross
  <2>4. CASE i \notin 1 .. m /\ k \in 1 .. m
    <3>1. ~Repeats(u[k], u[i])
      BY <1>1, <1>2, <1>4, <2>1, <2>4 DEF Cross
    <3>2. u[k] \in Item /\ u[i] \in Item
      BY <1>2
    <3> QED
      BY <3>1, <3>2, RepeatsBoth
  <2>5. CASE i \notin 1 .. m /\ k \notin 1 .. m
    <3>1. i - m \in 1 .. n /\ k - m \in 1 .. n /\ u[i] = t[i - m] /\ u[k] = t[k - m]
      BY <1>2, <2>1, <2>5
    <3>2. i - m # k - m
      BY <1>2
    <3> QED
      BY <1>1, <1>4, <3>1, <3>2 DEF Apart
  <2> QED
    BY <2>2, <2>3, <2>4, <2>5
<1> QED
  BY <1>1, <1>3, <1>4

(* What a cap keeps of such a list.                                        *)
LEMMA ApartFront ==
    ASSUME NEW s \in Seq(Item), NEW cap \in Nat, Apart(s)
    PROVE  /\ Apart(Front2(s, cap))
           /\ \A t \in Seq(Item) : Cross(s, t) => Cross(Front2(s, cap), t)
           /\ \A t \in Seq(Item) : Cross(t, s) => Cross(t, Front2(s, cap))
<1>1. /\ Front2(s, cap) \in Seq(Item) /\ Len(Front2(s, cap)) <= Len(s)
      /\ \A i \in 1 .. Len(Front2(s, cap)) : Front2(s, cap)[i] = s[i]
  BY FrontIs
<1>2. PICK r : r = Front2(s, cap)
  OBVIOUS
<1>3. Len(r) \in Nat /\ Len(s) \in Nat /\ Len(r) <= Len(s) /\ \A i \in 1 .. Len(r) : i \in 1 .. Len(s) /\ r[i] = s[i]
  BY <1>1, <1>2
<1>4. Apart(r) /\ (\A t \in Seq(Item) : Cross(s, t) => Cross(r, t)) /\ (\A t \in Seq(Item) : Cross(t, s) => Cross(t, r))
  BY <1>3 DEF Apart, Cross
<1> QED
  BY <1>2, <1>4

-----------------------------------------------------------------------------
(* ScreenErrors: its inductive invariant *)

(* A message that is not forgotten is in the memory with its moment, or    *)
(* its window has passed.                                                  *)
Remembered ==
    \A x \in Whats : lastQueued[x] # Never =>
        \/ feedTime - lastQueued[x] >= RepeatWindow
        \/ \E i \in 1 .. Len(seenErrors) : seenErrors[i] = [what |-> x, at |-> lastQueued[x]]

NoticedInv == NoticedTypeOK /\ ListedOnce /\ Remembered

USE ScreenErrorsAssumption

LEMMA ListedApart ==
    ASSUME items \in Seq(Item), dismissed \in Seq(Item)
    PROVE  ListedOnce <=> Apart(items) /\ Apart(dismissed) /\ Cross(items, dismissed)
<1>1. ListedOnce <=> Apart(items \o dismissed)
  <2>1. PICK u : u = items \o dismissed
    OBVIOUS
  <2>2. DOMAIN u = 1 .. Len(u)
    BY <2>1
  <2> QED
    BY <2>1, <2>2 DEF ListedOnce, Apart
<1> QED
  BY <1>1, ApartParts

LEMMA NoticedBegins == NoticedInit => NoticedInv
<1> SUFFICES ASSUME NoticedInit PROVE NoticedInv
  OBVIOUS
<1>1. /\ items = <<>> /\ dismissed = <<>> /\ queue = <<>> /\ seenErrors = <<>> /\ pending = <<>>
      /\ feedTime = 0 /\ lastQueued = [x \in Whats |-> Never]
  BY DEF NoticedInit
<1>2. NoticedTypeOK
  BY <1>1 DEF NoticedInit, NoticedTypeOK
<1>3. Remembered
  BY <1>1 DEF Remembered
<1>4. ListedOnce
  BY <1>1 DEF ListedOnce
<1> QED
  BY <1>2, <1>3, <1>4 DEF NoticedInv

LEMMA WithinTypes == NoticedTypeOK =>
    /\ feedTime \in Nat /\ RepeatWindow \in Nat /\ FeedCap \in Nat /\ 2 * FeedCap \in Nat
    /\ items \in Seq(Item) /\ dismissed \in Seq(Item) /\ seenErrors \in Seq(Item) /\ pending \in Seq(Item)
    /\ queue \in Seq(Whats)
  BY DEF NoticedTypeOK

(* What the feed lists with a new item.                                    *)
LEMMA FeedIs ==
    ASSUME NoticedTypeOK, ListedOnce, NEW item \in Item
    PROVE  /\ FeedWith(items, item) \in Seq(Item) /\ Len(FeedWith(items, item)) <= FeedCap
           /\ Apart(FeedWith(items, item)) /\ Cross(FeedWith(items, item), dismissed)
<1>1. /\ items \in Seq(Item) /\ dismissed \in Seq(Item) /\ FeedCap \in Nat
      /\ Apart(items) /\ Apart(dismissed) /\ Cross(items, dismissed)
  BY WithinTypes, ListedApart
<1>2. CASE Listed(item, items, dismissed)
  BY <1>1, <1>2 DEF FeedWith, NoticedTypeOK
<1>3. CASE ~Listed(item, items, dismissed)
  <2>1. PICK u : u = items \o dismissed
    OBVIOUS
  <2>2. \A i \in 1 .. Len(u) : ~Repeats(u[i], item)
    <3>1. DOMAIN u = 1 .. Len(u)
      BY <1>1, <2>1
    <3> QED
      BY <1>3, <2>1, <3>1 DEF Listed
  <2>3. /\ \A i \in 1 .. Len(items) : i \in 1 .. Len(u) /\ u[i] = items[i] /\ items[i] \in Item
        /\ \A k \in 1 .. Len(dismissed) :
              Len(items) + k \in 1 .. Len(u) /\ u[Len(items) + k] = dismissed[k] /\ dismissed[k] \in Item
    BY <1>1, <2>1
  <2>4. /\ \A i \in 1 .. Len(items) : ~Repeats(item, items[i])
        /\ \A k \in 1 .. Len(dismissed) : ~Repeats(item, dismissed[k])
    <3>1. /\ \A i \in 1 .. Len(items) : ~Repeats(items[i], item)
          /\ \A k \in 1 .. Len(dismissed) : ~Repeats(dismissed[k], item)
      BY <2>2, <2>3
    <3> QED
      BY <2>3, <3>1, RepeatsBoth
  <2>5. PICK one : one = <<item>>
    OBVIOUS
  <2>6. one \in Seq(Item) /\ Len(one) = 1 /\ one[1] = item
    BY <2>5
  <2>7. Apart(one) /\ Cross(one, items) /\ Cross(one, dismissed)
    BY <2>4, <2>6 DEF Apart, Cross
  <2>8. PICK more : more = one \o items
    OBVIOUS
  <2>9. more \in Seq(Item) /\ Apart(more)
    BY <1>1, <2>6, <2>7, <2>8, ApartParts
  <2>10. Cross(more, dismissed)
    <3>1. \A i \in 1 .. Len(more) : more[i] = item \/ \E k \in 1 .. Len(items) : more[i] = items[k]
      <4> TAKE i \in 1 .. Len(more)
      <4>1. \/ i \in 1 .. Len(one) /\ more[i] = one[i]
            \/ i - Len(one) \in 1 .. Len(items) /\ more[i] = items[i - Len(one)]
        <5>1. items \in Seq(Item)
          BY <1>1
        <5>2. \A j \in 1 .. Len(more) : \/ j \in 1 .. Len(one) /\ more[j] = one[j]
                                        \/ j - Len(one) \in 1 .. Len(items) /\ more[j] = items[j - Len(one)]
          <6>1. one \in Seq(Item)
            BY <2>6
          <6> QED
            BY ONLY <5>1, <6>1, <2>8, JoinedIs
        <5> QED
          BY ONLY <5>2, i \in 1 .. Len(more)
      <4> QED
        BY <2>6, <4>1
    <3> QED
      BY <1>1, <2>4, <3>1 DEF Cross
  <2>11. FeedWith(items, item) = Front2(more, FeedCap)
    BY <1>3, <2>5, <2>8 DEF FeedWith
  <2>12. /\ Front2(more, FeedCap) \in Seq(Item) /\ Len(Front2(more, FeedCap)) <= FeedCap
    BY <1>1, <2>9, FrontIs
  <2>13. Apart(Front2(more, FeedCap)) /\ Cross(Front2(more, FeedCap), dismissed)
    BY <1>1, <2>9, <2>10, ApartFront
  <2> QED
    BY <2>11, <2>12, <2>13
<1> QED
  BY <1>2, <1>3

(* What is dismissed stays apart from what is left.                        *)
LEMMA ForgottenIs ==
    ASSUME NoticedTypeOK, ListedOnce, NEW gone \in Seq(Item), Apart(gone), Cross(gone, dismissed),
           NEW rest \in Seq(Item), Apart(rest), Cross(rest, dismissed), Cross(rest, gone)
    PROVE  /\ Forgotten(gone) \in Seq(Item) /\ Len(Forgotten(gone)) <= 2 * FeedCap
           /\ Apart(Forgotten(gone)) /\ Cross(rest, Forgotten(gone))
<1>1. dismissed \in Seq(Item) /\ 2 * FeedCap \in Nat /\ Apart(dismissed)
  BY WithinTypes, ListedApart
<1>2. PICK r : r = Reverse(gone)
  OBVIOUS
<1>3. /\ r \in Seq(Item) /\ Len(r) = Len(gone) /\ Len(gone) \in Nat
      /\ \A i \in 1 .. Len(gone) : Len(gone) - i + 1 \in 1 .. Len(gone) /\ r[i] = gone[Len(gone) - i + 1]
  BY <1>2, ReversedIs
<1>4. Apart(r)
  <2> SUFFICES ASSUME NEW i \in 1 .. Len(r), NEW k \in 1 .. Len(r), i # k PROVE ~Repeats(r[i], r[k])
    BY DEF Apart
  <2>1. Len(gone) - i + 1 # Len(gone) - k + 1
    BY <1>3
  <2> QED
    BY <1>3, <2>1 DEF Apart
<1>5. Cross(r, dismissed) /\ Cross(rest, r)
  BY <1>3 DEF Cross
<1>6. PICK u : u = r \o dismissed
  OBVIOUS
<1>7. u \in Seq(Item) /\ Apart(u)
  BY <1>1, <1>3, <1>4, <1>5, <1>6, ApartParts
<1>8. Cross(rest, u)
  <2>1. \A i \in 1 .. Len(u) : (\E k \in 1 .. Len(r) : u[i] = r[k]) \/ (\E k \in 1 .. Len(dismissed) : u[i] = dismissed[k])
    <3>1. dismissed \in Seq(Item) /\ r \in Seq(Item)
      BY <1>1, <1>3
    <3>2. \A i \in 1 .. Len(u) : \/ i \in 1 .. Len(r) /\ u[i] = r[i]
                                 \/ i - Len(r) \in 1 .. Len(dismissed) /\ u[i] = dismissed[i - Len(r)]
      BY ONLY <1>6, <3>1, JoinedIs
    <3> QED
      BY ONLY <3>2
  <2> QED
    BY <1>5, <2>1 DEF Cross
<1>9. Forgotten(gone) = Front2(u, 2 * FeedCap)
  BY <1>2, <1>6 DEF Forgotten
<1>10. Front2(u, 2 * FeedCap) \in Seq(Item) /\ Len(Front2(u, 2 * FeedCap)) <= 2 * FeedCap
  BY <1>1, <1>7, FrontIs
<1>11. Apart(Front2(u, 2 * FeedCap)) /\ Cross(rest, Front2(u, 2 * FeedCap))
  BY <1>1, <1>7, <1>8, ApartFront
<1> QED
  BY <1>9, <1>10, <1>11

(* The parts of the invariant that a step can disturb.                     *)
LEMMA NoticedParts ==
    ASSUME NoticedTypeOK', Apart(items'), Apart(dismissed'), Cross(items', dismissed'), Remembered'
    PROVE  NoticedInv'
<1>1. items' \in Seq(Item) /\ dismissed' \in Seq(Item)
  BY DEF NoticedTypeOK
<1>2. PICK u : u = items' \o dismissed'
  OBVIOUS
<1>3. Apart(u) /\ DOMAIN u = 1 .. Len(u)
  BY <1>1, <1>2, ApartParts
<1>4. ListedOnce'
  BY <1>2, <1>3 DEF ListedOnce, Apart
<1> QED
  BY <1>4 DEF NoticedInv

-----------------------------------------------------------------------------
(* ScreenErrors: the steps *)

LEMMA MemoryIs ==
    ASSUME NoticedTypeOK
    PROVE  /\ Kept \in Seq(Item) /\ Len(Kept) <= SeenCap
           /\ \A i \in 1 .. Len(Kept) : \E k \in 1 .. Len(seenErrors) : Kept[i] = seenErrors[k]
           /\ \A k \in 1 .. Len(seenErrors) :
                 feedTime - seenErrors[k].at < RepeatWindow => \E i \in 1 .. Len(Kept) : Kept[i] = seenErrors[k]
<1>1. PICK I : I = {i \in DOMAIN seenErrors : feedTime - seenErrors[i].at < RepeatWindow}
  OBVIOUS
<1>2. I \in SUBSET DOMAIN seenErrors /\ seenErrors \in Seq(Item) /\ Len(seenErrors) \in Nat
      /\ DOMAIN seenErrors = 1 .. Len(seenErrors)
  BY <1>1 DEF NoticedTypeOK
<1>3. PICK r : r = Sifted(seenErrors, I)
  OBVIOUS
<1>4. /\ r \in Seq(Item) /\ Len(r) \in 0 .. Len(seenErrors)
      /\ \A n \in 1 .. Len(r) : \E i \in I : r[n] = seenErrors[i]
  <2>1. /\ Sifted(seenErrors, I) \in Seq(Item) /\ Len(Sifted(seenErrors, I)) \in 0 .. Len(seenErrors)
        /\ \A n \in 1 .. Len(Sifted(seenErrors, I)) : \E i \in I : Sifted(seenErrors, I)[n] = seenErrors[i]
    BY ONLY <1>2, SiftedIs
  <2> QED
    BY ONLY <1>3, <2>1
<1>5. \A k \in I : \E n \in 1 .. Len(r) : r[n] = seenErrors[k]
  BY ONLY <1>2, <1>3, SiftedHas
<1>6. Len(r) <= SeenCap
  BY <1>2, <1>4 DEF NoticedTypeOK
<1> QED
  BY <1>1, <1>2, <1>3, <1>4, <1>5, <1>6 DEF Kept

(* A step that leaves the memories alone.                                  *)
LEMMA TrayKeeps ==
    ASSUME NoticedInv, NoticedTypeOK', UNCHANGED <<items, dismissed, seenErrors, lastQueued>>,
           feedTime' \in {feedTime, feedTime + 1}
    PROVE  NoticedInv'
<1>1. Apart(items') /\ Apart(dismissed') /\ Cross(items', dismissed')
  BY WithinTypes, ListedApart DEF NoticedInv
<1>2. Remembered'
  <2> SUFFICES ASSUME NEW x \in Whats, lastQueued[x] # Never,
                      ~(feedTime' - lastQueued[x] >= RepeatWindow)
               PROVE  \E i \in 1 .. Len(seenErrors) : seenErrors[i] = [what |-> x, at |-> lastQueued[x]]
    BY DEF Remembered
  <2>1. lastQueued[x] \in Nat /\ feedTime \in Nat /\ RepeatWindow \in Nat
    BY DEF NoticedInv, NoticedTypeOK, Never
  <2>2. ~(feedTime - lastQueued[x] >= RepeatWindow)
    BY <2>1
  <2> QED
    BY <2>2 DEF NoticedInv, Remembered
<1> QED
  BY <1>1, <1>2, NoticedParts

LEMMA TrayPollKeeps == NoticedInv /\ TrayPoll => NoticedInv'
<1> SUFFICES ASSUME NoticedInv, TrayPoll PROVE NoticedInv'
  OBVIOUS
<1>1. PICK order \in SetToSeqs(ToReport) :
        queue' = Front2(queue \o [i \in DOMAIN order |-> Says(order[i])], TrayQueueCap)
  BY DEF TrayPoll
<1>2. ToReport \subseteq Windows /\ IsFiniteSet(ToReport) /\ Cardinality(ToReport) \in Nat
  BY FS_Subset, FS_CardinalityType DEF ToReport, Present
<1>3. order \in [1 .. Cardinality(ToReport) -> ToReport]
  BY <1>1 DEF SetToSeqs
<1>4. PICK more : more = [i \in DOMAIN order |-> Says(order[i])]
  OBVIOUS
<1>5. more \in Seq(Whats)
  <2>1. \A w \in ToReport : Says(w) \in Whats
    <3> TAKE w \in ToReport
    <3>1. w \in Windows /\ screen[w] # "nothing" /\ screen[w] \in {"nothing", "hung"} \cup Boxes
      BY <1>2 DEF ToReport, Present, NoticedInv, NoticedTypeOK
    <3> QED
      BY <3>1 DEF Says, Whats, Hangs
  <2>2. more = [i \in 1 .. Cardinality(ToReport) |-> more[i]]
        /\ \A i \in 1 .. Cardinality(ToReport) : more[i] \in Whats
    BY <1>3, <1>4, <2>1
  <2> QED
    BY <1>2, <2>2, IsASeq
<1>6. queue' \in Seq(Whats) /\ Len(queue') <= TrayQueueCap
  <2>1. queue \o more \in Seq(Whats) /\ TrayQueueCap \in Nat
    BY <1>5 DEF NoticedInv, NoticedTypeOK
  <2> QED
    BY <1>1, <1>4, <2>1, FrontIs
<1>7. UNCHANGED <<screen, enabled, feedTime, seenErrors, pending, lastQueued, items, dismissed>>
      /\ reported' \subseteq Windows /\ candidates' \subseteq Windows
  BY DEF TrayPoll, bufferVars, feedVars, Present, HungNow
<1>8. NoticedTypeOK'
  BY <1>6, <1>7 DEF NoticedInv, NoticedTypeOK
<1> QED
  BY <1>7, <1>8, TrayKeeps

LEMMA TailOfQueue == NoticedInv /\ queue # <<>> =>
    /\ Tail(queue) \in Seq(Whats) /\ Len(Tail(queue)) <= TrayQueueCap /\ Head(queue) \in Whats
<1> SUFFICES ASSUME NoticedInv, queue # <<>>
             PROVE  Tail(queue) \in Seq(Whats) /\ Len(Tail(queue)) <= TrayQueueCap /\ Head(queue) \in Whats
  OBVIOUS
<1>1. queue \in Seq(Whats) /\ Len(queue) <= TrayQueueCap /\ Len(queue) \in Nat /\ TrayQueueCap \in Nat
  BY DEF NoticedInv, NoticedTypeOK
<1>2. Len(Tail(queue)) = Len(queue) - 1 /\ Tail(queue) \in Seq(Whats) /\ Head(queue) \in Whats
  BY <1>1
<1> QED
  BY <1>1, <1>2

LEMMA OtherKeeps ==
    NoticedInv /\ (ScreenChanges \/ Switches \/ TimePasses \/ ServiceRefuses) => NoticedInv'
<1> SUFFICES ASSUME NoticedInv, ScreenChanges \/ Switches \/ TimePasses \/ ServiceRefuses PROVE NoticedInv'
  OBVIOUS
<1>1. UNCHANGED <<items, dismissed, seenErrors, pending, lastQueued, reported, candidates>>
  BY DEF ScreenChanges, Switches, TimePasses, ServiceRefuses, bufferVars, feedVars, screenVars
<1>2. feedTime' \in {feedTime, feedTime + 1} /\ feedTime' \in 0 .. MaxFeedTime
  BY SMTT(20) DEF ScreenChanges, Switches, TimePasses, ServiceRefuses, NoticedInv, NoticedTypeOK
<1>3. queue' \in Seq(Whats) /\ Len(queue') <= TrayQueueCap
  <2>1. CASE ServiceRefuses
    BY <2>1, TailOfQueue DEF ServiceRefuses
  <2>2. CASE ScreenChanges \/ Switches \/ TimePasses
    BY <2>2 DEF ScreenChanges, Switches, TimePasses, NoticedInv, NoticedTypeOK
  <2> QED
    BY <2>1, <2>2
<1>4. screen' \in [Windows -> {"nothing", "hung"} \cup Boxes] /\ enabled' \in BOOLEAN
  BY DEF ScreenChanges, Switches, TimePasses, ServiceRefuses, screenVars, NoticedInv, NoticedTypeOK
<1>5. NoticedTypeOK'
  BY <1>1, <1>2, <1>3, <1>4 DEF NoticedInv, NoticedTypeOK
<1> QED
  BY <1>1, <1>2, <1>5, TrayKeeps

LEMMA ServiceDropsKeeps == NoticedInv /\ ServiceDrops => NoticedInv'
<1> SUFFICES ASSUME NoticedInv, ServiceDrops PROVE NoticedInv'
  OBVIOUS
<1>1. /\ UNCHANGED <<items, dismissed, pending, lastQueued, reported, candidates, screen, enabled, feedTime>>
      /\ seenErrors' = Kept /\ queue' = Tail(queue) /\ queue # <<>>
  BY DEF ServiceDrops, feedVars, screenVars
<1>2. /\ Kept \in Seq(Item) /\ Len(Kept) <= SeenCap
      /\ \A k \in 1 .. Len(seenErrors) :
            feedTime - seenErrors[k].at < RepeatWindow => \E i \in 1 .. Len(Kept) : Kept[i] = seenErrors[k]
  BY MemoryIs DEF NoticedInv
<1>3. NoticedTypeOK'
  <2>1. queue' \in Seq(Whats) /\ Len(queue') <= TrayQueueCap
    BY <1>1, TailOfQueue
  <2> QED
    BY <1>1, <1>2, <2>1 DEF NoticedInv, NoticedTypeOK
<1>4. Remembered'
  <2> SUFFICES ASSUME NEW x \in Whats, lastQueued[x] # Never,
                      ~(feedTime - lastQueued[x] >= RepeatWindow)
               PROVE  \E i \in 1 .. Len(Kept) : Kept[i] = [what |-> x, at |-> lastQueued[x]]
    BY <1>1 DEF Remembered
  <2>1. lastQueued[x] \in Nat /\ feedTime \in Nat /\ RepeatWindow \in Nat
    BY DEF NoticedInv, NoticedTypeOK, Never
  <2>2. PICK k \in 1 .. Len(seenErrors) : seenErrors[k] = [what |-> x, at |-> lastQueued[x]]
    BY DEF NoticedInv, Remembered
  <2>3. feedTime - seenErrors[k].at < RepeatWindow
    BY <2>1, <2>2
  <2> QED
    BY <1>2, <2>2, <2>3
<1>5. Apart(items') /\ Apart(dismissed') /\ Cross(items', dismissed')
  BY <1>1, WithinTypes, ListedApart DEF NoticedInv
<1> QED
  BY <1>3, <1>4, <1>5, NoticedParts

(* A message that is taken was not recent: what is remembered of it is of  *)
(* an earlier window.                                                      *)
LEMMA TakesLater ==
    ASSUME NoticedInv, ServiceTakes
    PROVE  /\ \A x \in Whats : lastQueued[x] # Never /\ lastQueued'[x] # lastQueued[x]
                => lastQueued'[x] = Never \/ lastQueued'[x] >= lastQueued[x] + RepeatWindow
           /\ Remembered' /\ seenErrors' \in Seq(Item) /\ Len(seenErrors') <= SeenCap
           /\ lastQueued' \in [Whats -> Nat \cup {Never}]
<1>1. PICK x : x = Head(queue)
  OBVIOUS
<1>2. PICK item : item = [what |-> x, at |-> feedTime]
  OBVIOUS
<1>3. PICK kept : kept = Kept
  OBVIOUS
<1>4. PICK next : next = KeepNewest(Append(kept, item), SeenCap)
  OBVIOUS
<1>5. /\ seenErrors' = next /\ ~Recent(x, feedTime) /\ queue # <<>> /\ feedTime' = feedTime
      /\ lastQueued' = [y \in Whats |-> IF y = x THEN feedTime
                          ELSE IF \E i \in DOMAIN kept : kept[i].what = y
                                  /\ \A k \in DOMAIN next : next[k] # kept[i]
                          THEN Never ELSE lastQueued[y]]
  BY <1>1, <1>2, <1>3, <1>4 DEF ServiceTakes
<1>6. x \in Whats /\ feedTime \in Nat /\ RepeatWindow \in Nat /\ item \in Item
  BY <1>1, <1>2, <1>5, TailOfQueue, WithinTypes DEF NoticedInv, Item
<1>7. /\ kept \in Seq(Item)
      /\ \A k \in 1 .. Len(seenErrors) :
            feedTime - seenErrors[k].at < RepeatWindow => \E i \in 1 .. Len(kept) : kept[i] = seenErrors[k]
  BY <1>3, MemoryIs DEF NoticedInv
<1>8. PICK all : all = Append(kept, item)
  OBVIOUS
<1>9. all \in Seq(Item) /\ Len(all) = Len(kept) + 1 /\ all[Len(all)] = item /\ Len(all) # 0 /\ Len(kept) \in Nat
  BY <1>6, <1>7, <1>8
<1>10. /\ next \in Seq(Item) /\ Len(next) <= SeenCap
       /\ \E i \in 1 .. Len(next) : next[i] = item
  <2>1. SeenCap \in Nat \ {0}
    OBVIOUS
  <2>2. /\ KeepNewest(all, SeenCap) \in Seq(Item) /\ Len(KeepNewest(all, SeenCap)) <= SeenCap
        /\ \E i \in 1 .. Len(KeepNewest(all, SeenCap)) : KeepNewest(all, SeenCap)[i] = all[Len(all)]
    BY ONLY <1>9, <2>1, NewestIs
  <2> QED
    BY <1>4, <1>8, <1>9, <2>2
<1>11. \A y \in Whats : lastQueued[y] \in Nat \cup {Never}
  BY DEF NoticedInv, NoticedTypeOK
<1>12. \A y \in Whats : lastQueued[y] # Never /\ ~(feedTime - lastQueued[y] >= RepeatWindow) =>
          \E i \in 1 .. Len(kept) : kept[i] = [what |-> y, at |-> lastQueued[y]]
  <2> SUFFICES ASSUME NEW y \in Whats, lastQueued[y] # Never, ~(feedTime - lastQueued[y] >= RepeatWindow)
               PROVE  \E i \in 1 .. Len(kept) : kept[i] = [what |-> y, at |-> lastQueued[y]]
    OBVIOUS
  <2>1. PICK k \in 1 .. Len(seenErrors) : seenErrors[k] = [what |-> y, at |-> lastQueued[y]]
    BY DEF NoticedInv, Remembered
  <2>2. lastQueued[y] \in Nat /\ feedTime - seenErrors[k].at < RepeatWindow
    BY <1>6, <1>11, <2>1
  <2> QED
    BY <1>7, <2>1, <2>2
<1>13. lastQueued[x] # Never => feedTime - lastQueued[x] >= RepeatWindow
  <2> SUFFICES ASSUME lastQueued[x] # Never, ~(feedTime - lastQueued[x] >= RepeatWindow) PROVE FALSE
    OBVIOUS
  <2>1. PICK k \in 1 .. Len(seenErrors) : seenErrors[k] = [what |-> x, at |-> lastQueued[x]]
    BY <1>6 DEF NoticedInv, Remembered
  <2>2. lastQueued[x] \in Nat /\ k \in DOMAIN seenErrors
    BY <1>6, <1>11, <2>1, WithinTypes DEF NoticedInv
  <2>3. feedTime - seenErrors[k].at < RepeatWindow /\ seenErrors[k].what = x
    BY <1>6, <2>1, <2>2
  <2> QED
    BY <1>5, <2>2, <2>3 DEF Recent
<1>14. ASSUME NEW y \in Whats, lastQueued[y] # Never, lastQueued'[y] # lastQueued[y]
       PROVE  lastQueued'[y] = Never \/ lastQueued'[y] >= lastQueued[y] + RepeatWindow
  <2>1. y = x \/ lastQueued'[y] = Never
    BY <1>5, <1>14
  <2>2. y = x => lastQueued'[y] >= lastQueued[y] + RepeatWindow
    BY <1>5, <1>6, <1>11, <1>13, <1>14
  <2> QED
    BY <2>1, <2>2
<1>15. Remembered'
  <2> SUFFICES ASSUME NEW y \in Whats, lastQueued'[y] # Never, ~(feedTime - lastQueued'[y] >= RepeatWindow)
               PROVE  \E i \in 1 .. Len(next) : next[i] = [what |-> y, at |-> lastQueued'[y]]
    BY <1>5 DEF Remembered
  <2>1. CASE y = x
    BY <1>2, <1>5, <1>10, <2>1
  <2>2. CASE y # x
    <3>1. /\ lastQueued'[y] = lastQueued[y]
          /\ \A i \in DOMAIN kept : kept[i].what = y => \E k \in DOMAIN next : next[k] = kept[i]
      BY <1>5, <2>2
    <3>2. PICK i \in 1 .. Len(kept) : kept[i] = [what |-> y, at |-> lastQueued[y]]
      BY <1>12, <3>1
    <3>3. DOMAIN kept = 1 .. Len(kept) /\ DOMAIN next = 1 .. Len(next)
      BY <1>7, <1>10
    <3> QED
      BY <3>1, <3>2, <3>3
  <2> QED
    BY <2>1, <2>2
<1>16. lastQueued' \in [Whats -> Nat \cup {Never}]
  BY <1>5, <1>6, <1>11
<1> QED
  BY <1>5, <1>10, <1>14, <1>15, <1>16

LEMMA ServiceTakesKeeps == NoticedInv /\ ServiceTakes => NoticedInv'
<1> SUFFICES ASSUME NoticedInv, ServiceTakes PROVE NoticedInv'
  OBVIOUS
<1>1. PICK item : item = [what |-> Head(queue), at |-> feedTime]
  OBVIOUS
<1>2. /\ pending' = KeepNewest(Append(pending, item), PendingCap) /\ items' = FeedWith(items, item)
      /\ queue' = Tail(queue) /\ queue # <<>>
      /\ UNCHANGED <<screen, enabled, reported, candidates, feedTime, dismissed>>
  BY <1>1 DEF ServiceTakes, screenVars
<1>3. item \in Item
  BY <1>1, <1>2, TailOfQueue, WithinTypes DEF NoticedInv, Item
<1>4. /\ items' \in Seq(Item) /\ Len(items') <= FeedCap /\ Apart(items') /\ Cross(items', dismissed)
  BY <1>2, <1>3, FeedIs DEF NoticedInv
<1>5. pending' \in Seq(Item) /\ Len(pending') <= PendingCap
  <2>1. Append(pending, item) \in Seq(Item) /\ PendingCap \in Nat \ {0}
    BY <1>3, WithinTypes DEF NoticedInv
  <2> QED
    BY <1>2, <2>1, NewestIs
<1>6. Remembered' /\ seenErrors' \in Seq(Item) /\ Len(seenErrors') <= SeenCap
      /\ lastQueued' \in [Whats -> Nat \cup {Never}]
  BY TakesLater
<1>7. queue' \in Seq(Whats) /\ Len(queue') <= TrayQueueCap
  BY <1>2, TailOfQueue
<1>8. NoticedTypeOK'
  BY <1>2, <1>4, <1>5, <1>6, <1>7 DEF NoticedInv, NoticedTypeOK
<1>9. Apart(dismissed')
  BY <1>2, WithinTypes, ListedApart DEF NoticedInv
<1> QED
  BY <1>2, <1>4, <1>6, <1>8, <1>9, NoticedParts

LEMMA AnalyseKeeps == NoticedInv /\ Analyse => NoticedInv'
<1> SUFFICES ASSUME NoticedInv, Analyse PROVE NoticedInv'
  OBVIOUS
<1>1. PICK x \in Events \cup {"none"}, age \in 0 .. 1 :
        /\ age <= feedTime
        /\ items' = IF x = "none" THEN items ELSE FeedWith(items, [what |-> x, at |-> feedTime - age])
  BY DEF Analyse
<1>2. /\ pending' = <<>>
      /\ UNCHANGED <<screen, enabled, reported, candidates, queue, feedTime, seenErrors, lastQueued, dismissed>>
  BY DEF Analyse, screenVars
<1>3. /\ items \in Seq(Item) /\ Len(items) <= FeedCap
      /\ Apart(items) /\ Apart(dismissed) /\ Cross(items, dismissed)
  BY WithinTypes, ListedApart DEF NoticedInv, NoticedTypeOK
<1>4. items' \in Seq(Item) /\ Len(items') <= FeedCap /\ Apart(items') /\ Cross(items', dismissed)
  <2>1. CASE x = "none"
    BY <1>1, <1>3, <2>1
  <2>2. CASE x # "none"
    <3>1. PICK item : item = [what |-> x, at |-> feedTime - age]
      OBVIOUS
    <3>2. feedTime - age \in Nat
      BY SMTT(20), <1>1, WithinTypes DEF NoticedInv
    <3>3. item \in Item
      BY <2>2, <3>1, <3>2 DEF Item, Whats
    <3> QED
      BY <1>1, <2>2, <3>1, <3>3, FeedIs DEF NoticedInv
  <2> QED
    BY <2>1, <2>2
<1>5. NoticedTypeOK'
  BY <1>2, <1>4 DEF NoticedInv, NoticedTypeOK
<1>6. Remembered'
  BY <1>2 DEF NoticedInv, Remembered
<1> QED
  BY <1>2, <1>3, <1>4, <1>5, <1>6, NoticedParts

(* A step that moves items out of the feed.                                *)
LEMMA ForgettingKeeps ==
    ASSUME NoticedInv, NEW gone \in Seq(Item), Apart(gone), Cross(gone, dismissed),
           NEW rest \in Seq(Item), Apart(rest), Cross(rest, dismissed), Cross(rest, gone),
           Len(rest) <= FeedCap,
           items' = rest, dismissed' = Forgotten(gone),
           UNCHANGED <<screenVars, queue, feedTime, bufferVars>>
    PROVE  NoticedInv'
<1>1. /\ Forgotten(gone) \in Seq(Item) /\ Len(Forgotten(gone)) <= 2 * FeedCap
      /\ Apart(Forgotten(gone)) /\ Cross(rest, Forgotten(gone))
  BY ForgottenIs DEF NoticedInv
<1>2. NoticedTypeOK'
  BY <1>1 DEF NoticedInv, NoticedTypeOK, screenVars, bufferVars
<1>3. Remembered'
  BY DEF NoticedInv, Remembered, bufferVars
<1>4. Apart(items') /\ Apart(dismissed') /\ Cross(items', dismissed')
  BY <1>1
<1> QED
  BY <1>2, <1>3, <1>4, NoticedParts

LEMMA ClearFeedKeeps == NoticedInv /\ ClearFeed => NoticedInv'
<1> SUFFICES ASSUME NoticedInv, ClearFeed PROVE NoticedInv'
  OBVIOUS
<1>1. /\ items \in Seq(Item) /\ Apart(items) /\ Cross(items, dismissed)
  BY WithinTypes, ListedApart DEF NoticedInv
<1>2. PICK rest : rest = <<>>
  OBVIOUS
<1>3. /\ rest \in Seq(Item) /\ Len(rest) <= FeedCap
      /\ Apart(rest) /\ Cross(rest, dismissed) /\ Cross(rest, items)
  BY <1>2, WithinTypes DEF NoticedInv, Apart, Cross
<1>4. items' = rest /\ dismissed' = Forgotten(items) /\ UNCHANGED <<screenVars, queue, feedTime, bufferVars>>
  BY <1>2 DEF ClearFeed
<1> QED
  BY <1>1, <1>3, <1>4, ForgettingKeeps

LEMMA DismissKeeps == NoticedInv /\ Dismiss => NoticedInv'
<1> SUFFICES ASSUME NoticedInv, Dismiss PROVE NoticedInv'
  OBVIOUS
<1>1. PICK i \in DOMAIN items :
        /\ items' = Sifted(items, DOMAIN items \ {i}) /\ dismissed' = Forgotten(<<items[i]>>)
        /\ UNCHANGED <<screenVars, queue, feedTime, bufferVars>>
  BY DEF Dismiss
<1>2. /\ items \in Seq(Item) /\ Len(items) <= FeedCap /\ Len(items) \in Nat /\ FeedCap \in Nat
      /\ DOMAIN items = 1 .. Len(items) /\ Apart(items) /\ Cross(items, dismissed)
  BY WithinTypes, ListedApart DEF NoticedInv, NoticedTypeOK
<1>3. PICK I : I = DOMAIN items \ {i}
  OBVIOUS
<1>4. PICK gone, rest : gone = <<items[i]>> /\ rest = Sifted(items, I)
  OBVIOUS
<1>5. I \in SUBSET DOMAIN items
  BY <1>3
<1>6. /\ rest \in Seq(Item) /\ Len(rest) \in 0 .. Len(items)
      /\ \A n \in 1 .. Len(rest) : \E j \in I : rest[n] = items[j]
      /\ \A m, n \in 1 .. Len(rest) :
            m < n => \E j, k \in I : j < k /\ rest[m] = items[j] /\ rest[n] = items[k]
  <2>1. items \in Seq(Item)
    BY <1>2
  <2>2. /\ Sifted(items, I) \in Seq(Item) /\ Len(Sifted(items, I)) \in 0 .. Len(items)
        /\ \A n \in 1 .. Len(Sifted(items, I)) : \E j \in I : Sifted(items, I)[n] = items[j]
        /\ \A m, n \in 1 .. Len(Sifted(items, I)) :
              m < n => \E j, k \in I : j < k /\ Sifted(items, I)[m] = items[j] /\ Sifted(items, I)[n] = items[k]
    BY ONLY <1>5, <2>1, SiftedIs
  <2> QED
    BY ONLY <1>4, <2>2
<1>7. gone \in Seq(Item) /\ Len(gone) = 1 /\ gone[1] = items[i]
  BY <1>1, <1>2, <1>4
<1>8. Apart(gone) /\ Cross(gone, dismissed)
  BY <1>1, <1>2, <1>7 DEF Apart, Cross
<1>9. Apart(rest)
  <2>1. \A m, n \in 1 .. Len(rest) : m < n => ~Repeats(rest[m], rest[n])
    <3> SUFFICES ASSUME NEW m \in 1 .. Len(rest), NEW n \in 1 .. Len(rest), m < n
                 PROVE  ~Repeats(rest[m], rest[n])
      OBVIOUS
    <3>1. PICK j, k \in I : j < k /\ rest[m] = items[j] /\ rest[n] = items[k]
      BY <1>6
    <3>2. j \in 1 .. Len(items) /\ k \in 1 .. Len(items) /\ j # k
      BY <1>2, <1>5, <3>1
    <3> QED
      BY <1>2, <3>1, <3>2 DEF Apart
  <2>2. \A m \in 1 .. Len(rest) : rest[m] \in Item /\ m \in Nat
    BY <1>6
  <2> SUFFICES ASSUME NEW m \in 1 .. Len(rest), NEW n \in 1 .. Len(rest), m # n
               PROVE  ~Repeats(rest[m], rest[n])
    BY DEF Apart
  <2>3. m < n \/ n < m
    BY <2>2
  <2> QED
    BY <2>1, <2>2, <2>3, RepeatsBoth
<1>10. Cross(rest, dismissed) /\ Cross(rest, gone)
  <2>1. \A n \in 1 .. Len(rest) : \E j \in 1 .. Len(items) : j # i /\ rest[n] = items[j]
    BY <1>2, <1>3, <1>6
  <2>2. Cross(rest, dismissed)
    BY <1>2, <2>1 DEF Cross
  <2>3. Cross(rest, gone)
    BY <1>1, <1>2, <1>7, <2>1 DEF Cross, Apart
  <2> QED
    BY <2>2, <2>3
<1>11. Len(rest) <= FeedCap
  BY <1>2, <1>6
<1>12. items' = rest /\ dismissed' = Forgotten(gone) /\ UNCHANGED <<screenVars, queue, feedTime, bufferVars>>
  BY <1>1, <1>3, <1>4
<1> QED
  BY ONLY NoticedInv, <1>6, <1>7, <1>8, <1>9, <1>10, <1>11, <1>12, ForgettingKeeps

-----------------------------------------------------------------------------
(* ScreenErrors: the invariant *)

LEMMA NoticedStep == NoticedInv /\ [NoticedNext]_noticedVars => NoticedInv'
<1> SUFFICES ASSUME NoticedInv, [NoticedNext]_noticedVars PROVE NoticedInv'
  OBVIOUS
<1>1. CASE ScreenChanges \/ Switches \/ TimePasses \/ ServiceRefuses
  BY <1>1, OtherKeeps
<1>2. CASE TrayPoll
  BY <1>2, TrayPollKeeps
<1>3. CASE ServiceDrops
  BY <1>3, ServiceDropsKeeps
<1>4. CASE ServiceTakes
  BY <1>4, ServiceTakesKeeps
<1>5. CASE Analyse
  BY <1>5, AnalyseKeeps
<1>6. CASE ClearFeed
  BY <1>6, ClearFeedKeeps
<1>7. CASE Dismiss
  BY <1>7, DismissKeeps
<1>8. CASE UNCHANGED noticedVars
  <2>1. UNCHANGED <<screen, enabled, reported, candidates, queue, feedTime, seenErrors, pending,
                    lastQueued, items, dismissed>>
    BY <1>8 DEF noticedVars, screenVars, bufferVars, feedVars
  <2> QED
    BY <2>1 DEF NoticedInv, NoticedTypeOK, ListedOnce, Remembered
<1> QED
  BY <1>1, <1>2, <1>3, <1>4, <1>5, <1>6, <1>7, <1>8 DEF NoticedNext

(* What is queued once more is of a later window.                          *)
LEMMA QueuedLater ==
    NoticedInv /\ [NoticedNext]_noticedVars =>
        [\A x \in Whats : lastQueued[x] # Never /\ lastQueued'[x] # lastQueued[x]
            => lastQueued'[x] = Never \/ lastQueued'[x] >= lastQueued[x] + RepeatWindow]_noticedVars
<1> SUFFICES ASSUME NoticedInv, NoticedNext
             PROVE  \A x \in Whats : lastQueued[x] # Never /\ lastQueued'[x] # lastQueued[x]
                      => lastQueued'[x] = Never \/ lastQueued'[x] >= lastQueued[x] + RepeatWindow
  OBVIOUS
<1>1. CASE ServiceTakes
  BY <1>1, TakesLater
<1>2. CASE ~ServiceTakes
  <2>1. UNCHANGED lastQueued
    BY <1>2 DEF NoticedNext, ScreenChanges, Switches, TimePasses, TrayPoll, ServiceRefuses, ServiceDrops,
                Analyse, ClearFeed, Dismiss, bufferVars
  <2> QED
    BY <2>1
<1> QED
  BY <1>1, <1>2

THEOREM NoticedInvariance == NoticedSpec => []NoticedInv
<1>1. NoticedInit => NoticedInv
  BY NoticedBegins
<1>2. NoticedInv /\ [NoticedNext]_noticedVars => NoticedInv'
  BY NoticedStep
<1> QED
  BY <1>1, <1>2, PTL DEF NoticedSpec

(* What is noticed is listed once, whatever the order of the reports and   *)
(* their times, after a clearing or a dismissal too (Feed::push,           *)
(* Feed::clear, Feed::dismiss), and the same message is queued for an      *)
(* analysis once per window (ScreenErrorBuffer::push).                     *)
THEOREM NoticedIsSound == NoticedSpec => NoticedSound
<1>1. NoticedInv => NoticedTypeOK /\ ListedOnce
  BY DEF NoticedInv
<1>2. NoticedInv /\ [NoticedNext]_noticedVars =>
        [\A x \in Whats : lastQueued[x] # Never /\ lastQueued'[x] # lastQueued[x]
            => lastQueued'[x] = Never \/ lastQueued'[x] >= lastQueued[x] + RepeatWindow]_noticedVars
  BY QueuedLater
<1> QED
  BY <1>1, <1>2, NoticedInvariance, PTL DEF NoticedSpec, NoticedSound, QueuedOnce

HIDE ScreenErrorsAssumption

-----------------------------------------------------------------------------
(* EventLogs: lists of records *)

USE EventLogsAssumption

(* A list names each record once.                                          *)
Single(s) == \A i, k \in 1 .. Len(s) : s[i].at = s[k].at => i = k

LEMMA MomentsAre ==
    ASSUME NEW s \in Seq(Records)
    PROVE  /\ Moments(s) = {s[i].at : i \in 1 .. Len(s)} /\ Moments(s) \subseteq Nat
           /\ \A a : a \in Moments(s) <=> \E i \in 1 .. Len(s) : s[i].at = a
           /\ \A i \in 1 .. Len(s) : s[i] \in Records /\ s[i].at \in Nat
<1>1. DOMAIN s = 1 .. Len(s) /\ \A i \in 1 .. Len(s) : s[i] \in Records
  OBVIOUS
<1>2. \A i \in 1 .. Len(s) : s[i].at \in Nat
  BY <1>1 DEF Records
<1>3. Moments(s) = {s[i].at : i \in 1 .. Len(s)}
  BY <1>1 DEF Moments
<1> QED
  BY <1>1, <1>2, <1>3

LEMMA InMoments ==
    ASSUME NEW s \in Seq(Records), NEW a
    PROVE  a \in Moments(s) <=> \E i \in 1 .. Len(s) : s[i].at = a
  BY MomentsAre

LEMMA NoMoments == <<>> \in Seq(Records) /\ Single(<<>>) /\ Moments(<<>>) = {} /\ Len(<<>>) = 0
  BY DEF Single, Moments

LEMMA JoinedSingle ==
    ASSUME NEW s \in Seq(Records), NEW t \in Seq(Records), NEW u, u = s \o t,
           Single(s), Single(t), Moments(s) \cap Moments(t) = {}
    PROVE  u \in Seq(Records) /\ Single(u) /\ Moments(u) = Moments(s) \cup Moments(t)
<1>1. PICK m, n : m = Len(s) /\ n = Len(t)
  OBVIOUS
<1>2. /\ u \in Seq(Records) /\ Len(u) = m + n /\ m \in Nat /\ n \in Nat
      /\ \A i \in 1 .. m + n : (i \in 1 .. m /\ u[i] = s[i]) \/ (i - m \in 1 .. n /\ u[i] = t[i - m])
  <2>1. /\ u \in Seq(Records) /\ Len(u) = Len(s) + Len(t) /\ Len(s) \in Nat /\ Len(t) \in Nat
        /\ \A i \in 1 .. Len(u) : \/ i \in 1 .. Len(s) /\ u[i] = s[i]
                                  \/ i - Len(s) \in 1 .. Len(t) /\ u[i] = t[i - Len(s)]
    BY ONLY s \in Seq(Records), t \in Seq(Records), u = s \o t, JoinedIs
  <2> QED
    BY ONLY <1>1, <2>1
<1>3. /\ \A i \in 1 .. m : i \in 1 .. m + n /\ u[i] = s[i]
      /\ \A k \in 1 .. n : m + k \in 1 .. m + n /\ u[m + k] = t[k]
  BY <1>1, <1>2
<1>4. \A i \in 1 .. m, k \in 1 .. n : s[i].at # t[k].at
  BY <1>1, MomentsAre
<1>5. Single(u)
  <2> SUFFICES ASSUME NEW i \in 1 .. m + n, NEW k \in 1 .. m + n, u[i].at = u[k].at PROVE i = k
    BY <1>2 DEF Single
  <2>1. CASE i \in 1 .. m /\ u[i] = s[i] /\ k \in 1 .. m /\ u[k] = s[k]
    BY <1>1, <2>1 DEF Single
  <2>2. CASE i - m \in 1 .. n /\ u[i] = t[i - m] /\ k - m \in 1 .. n /\ u[k] = t[k - m]
    <3>1. i - m = k - m
      BY <1>1, <2>2 DEF Single
    <3> QED
      BY <1>2, <3>1
  <2>3. CASE i \in 1 .. m /\ u[i] = s[i] /\ k - m \in 1 .. n /\ u[k] = t[k - m]
    BY <1>4, <2>3
  <2>4. CASE i - m \in 1 .. n /\ u[i] = t[i - m] /\ k \in 1 .. m /\ u[k] = s[k]
    BY <1>4, <2>4
  <2> QED
    BY <1>2, <2>1, <2>2, <2>3, <2>4
<1>6. ASSUME NEW a PROVE a \in Moments(u) <=> a \in Moments(s) \/ a \in Moments(t)
  <2>1. a \in Moments(u) <=> \E i \in 1 .. m + n : u[i].at = a
    <3>1. u \in Seq(Records) /\ Len(u) = m + n
      BY <1>2
    <3>2. a \in Moments(u) <=> \E i \in 1 .. Len(u) : u[i].at = a
      BY ONLY <3>1, InMoments
    <3> QED
      BY ONLY <3>1, <3>2
  <2>2. a \in Moments(s) <=> \E i \in 1 .. m : s[i].at = a
    BY <1>1, MomentsAre
  <2>3. a \in Moments(t) <=> \E i \in 1 .. n : t[i].at = a
    BY <1>1, MomentsAre
  <2>4. (\E i \in 1 .. m + n : u[i].at = a) =>
            (\E i \in 1 .. m : s[i].at = a) \/ (\E i \in 1 .. n : t[i].at = a)
    BY <1>2
  <2>5. (\E i \in 1 .. m : s[i].at = a) => \E i \in 1 .. m + n : u[i].at = a
    BY <1>3
  <2>6. (\E i \in 1 .. n : t[i].at = a) => \E i \in 1 .. m + n : u[i].at = a
    BY <1>3
  <2> QED
    BY <2>1, <2>2, <2>3, <2>4, <2>5, <2>6
<1> QED
  BY <1>2, <1>5, <1>6

LEMMA ReversedSingle ==
    ASSUME NEW s \in Seq(Records), Single(s)
    PROVE  /\ Reverse(s) \in Seq(Records) /\ Single(Reverse(s)) /\ Moments(Reverse(s)) = Moments(s)
           /\ Len(Reverse(s)) = Len(s)
<1>1. PICK r, n : r = Reverse(s) /\ n = Len(s)
  OBVIOUS
<1>2. /\ r \in Seq(Records) /\ Len(r) = n /\ n \in Nat
      /\ \A i \in 1 .. n : n - i + 1 \in 1 .. n /\ r[i] = s[n - i + 1]
  BY <1>1, ReversedIs
<1>3. Single(r)
  <2> SUFFICES ASSUME NEW i \in 1 .. n, NEW k \in 1 .. n, r[i].at = r[k].at PROVE i = k
    BY <1>2 DEF Single
  <2>1. s[n - i + 1].at = s[n - k + 1].at /\ n - i + 1 \in 1 .. n /\ n - k + 1 \in 1 .. n
    BY <1>2
  <2>2. n - i + 1 = n - k + 1
    BY <1>1, <2>1 DEF Single
  <2> QED
    BY <1>2, <2>2
<1>4. \A i \in 1 .. n : n - i + 1 \in 1 .. n /\ s[i] = r[n - i + 1]
  <2> TAKE i \in 1 .. n
  <2>1. n - i + 1 \in 1 .. n /\ n - (n - i + 1) + 1 = i
    BY <1>2
  <2> QED
    BY <1>2, <2>1
<1>5. Moments(r) = Moments(s)
  <2>1. ASSUME NEW a PROVE a \in Moments(r) <=> a \in Moments(s)
    <3>1. a \in Moments(r) <=> \E i \in 1 .. n : r[i].at = a
      BY <1>2, InMoments
    <3>2. a \in Moments(s) <=> \E i \in 1 .. n : s[i].at = a
      BY <1>1, InMoments
    <3> QED
      BY ONLY <1>2, <1>4, <3>1, <3>2
  <2> QED
    BY <2>1
<1> QED
  BY <1>1, <1>2, <1>3, <1>5

(* The end of a list.                                                      *)
LEMMA SuffixIs ==
    ASSUME NEW T, NEW s \in Seq(T), NEW d \in 0 .. Len(s), NEW r, r = SubSeq(s, d + 1, Len(s))
    PROVE  /\ r \in Seq(T) /\ Len(r) = Len(s) - d /\ Len(s) \in Nat /\ d \in Nat /\ Len(r) \in Nat
           /\ \A i \in 1 .. Len(r) : i + d \in 1 .. Len(s) /\ r[i] = s[i + d]
           /\ \A k \in 1 .. Len(s) : k > d => k - d \in 1 .. Len(r) /\ r[k - d] = s[k]
<1>1. PICK n, m : n = Len(s) - d /\ m = Len(s)
  OBVIOUS
<1>2. m \in Nat /\ n \in Nat /\ d \in Nat /\ n + d = m
  BY <1>1
<1>3. r = [i \in 1 .. n |-> s[i + d]]
  BY <1>1, <1>2
<1>4. \A i \in 1 .. n : i + d \in 1 .. m /\ s[i + d] \in T
  BY <1>1, <1>2
<1>5. r \in Seq(T) /\ Len(r) = n
  BY <1>2, <1>3, <1>4, IsASeq, LenProperties
<1>6. \A k \in 1 .. m : k > d => k - d \in 1 .. n /\ (k - d) + d = k
  BY <1>2
<1>7. \A k \in 1 .. m : k > d => r[k - d] = s[k]
  BY <1>3, <1>6
<1> QED
  BY <1>1, <1>2, <1>3, <1>4, <1>5, <1>6, <1>7

LEMMA SuffixSingle ==
    ASSUME NEW s \in Seq(Records), Single(s), NEW d \in 0 .. Len(s), NEW r, r = SubSeq(s, d + 1, Len(s))
    PROVE  r \in Seq(Records) /\ Single(r) /\ Moments(r) \subseteq Moments(s)
<1>1. PICK m, n : m = Len(r) /\ n = Len(s)
  OBVIOUS
<1>2. /\ r \in Seq(Records) /\ d \in Nat
      /\ \A i \in 1 .. m : i + d \in 1 .. n /\ r[i] = s[i + d]
  BY <1>1, SuffixIs
<1>3. Single(r)
  <2> SUFFICES ASSUME NEW i \in 1 .. m, NEW k \in 1 .. m, r[i].at = r[k].at PROVE i = k
    BY <1>1 DEF Single
  <2>1. i + d = k + d
    <3>1. i + d \in 1 .. n /\ k + d \in 1 .. n /\ s[i + d].at = s[k + d].at
      BY <1>2
    <3> QED
      BY ONLY <1>1, <3>1, Single(s) DEF Single
  <2> QED
    BY <1>2, <2>1
<1>4. ASSUME NEW a \in Moments(r) PROVE a \in Moments(s)
  <2>1. \E i \in 1 .. m : r[i].at = a
    <3>1. r \in Seq(Records)
      BY <1>2
    <3>2. a \in Moments(r) <=> \E i \in 1 .. Len(r) : r[i].at = a
      BY ONLY <3>1, InMoments
    <3> QED
      BY ONLY <1>1, <1>4, <3>2
  <2>2. \E i \in 1 .. n : s[i].at = a
    BY <1>2, <2>1
  <2> QED
    BY <1>1, <2>2, InMoments
<1> QED
  BY <1>2, <1>3, <1>4

-----------------------------------------------------------------------------
(* EventLogs: the lists of several channels, one after the other *)

Joins(ss, g, m) == g = [i \in 1 .. m |-> IF i = 1 THEN ss[i] ELSE g[i - 1] \o ss[i]]

(* The first m of some lists can be joined, whatever m.                    *)
LEMMA JoinsExist ==
    ASSUME NEW ss, NEW n \in Nat \ {0} PROVE \E g : Joins(ss, g, n)
<1> DEFINE Short == {m \in 1 .. n : ~ \E g : Joins(ss, g, m)}
<1>1. Short \in SUBSET Nat
  <2>1. 1 .. n \in SUBSET Nat
    OBVIOUS
  <2> QED
    BY <2>1
<1>2. \A m : m \in Short <=> m \in 1 .. n /\ ~ \E g : Joins(ss, g, m)
  OBVIOUS
<1> HIDE DEF Short
<1>3. Short = {}
  <2> SUFFICES ASSUME Short # {} PROVE FALSE
    OBVIOUS
  <2>1. PICK m \in Short : \A k \in Short : m <= k
    BY <1>1, Least
  <2>2. m \in 1 .. n /\ ~ \E g : Joins(ss, g, m)
    BY <1>2
  <2>3. CASE m = 1
    <3>1. PICK g : g = [i \in 1 .. m |-> ss[i]]
      OBVIOUS
    <3>2. \A i \in 1 .. m : i = 1
      BY <2>3
    <3>3. g = [i \in 1 .. m |-> IF i = 1 THEN ss[i] ELSE g[i - 1] \o ss[i]]
      BY <3>1, <3>2
    <3> QED
      BY <2>2, <3>3 DEF Joins
  <2>4. CASE m # 1
    <3>1. m - 1 \in 1 .. n /\ ~(m <= m - 1)
      BY <2>2, <2>4
    <3>2. PICK h : Joins(ss, h, m - 1)
      BY <1>2, <2>1, <3>1
    <3>3. PICK g : g = [i \in 1 .. m |-> IF i = m THEN h[i - 1] \o ss[i] ELSE h[i]]
      OBVIOUS
    <3>4. \A i \in 1 .. m : i # m => i \in 1 .. m - 1
      BY <2>2
    <3>5. \A i \in 1 .. m : i # 1 => i - 1 \in 1 .. m /\ i - 1 # m
      BY <2>2
    <3>6. \A i \in 1 .. m : g[i] = IF i = 1 THEN ss[i] ELSE g[i - 1] \o ss[i]
      <4> TAKE i \in 1 .. m
      <4>1. i # 1 => g[i - 1] = h[i - 1]
        BY <3>3, <3>5
      <4>2. CASE i = m
        BY <2>4, <3>3, <4>1, <4>2
      <4>3. CASE i # m
        <5>1. g[i] = h[i] /\ i \in 1 .. m - 1
          BY <3>3, <3>4, <4>3
        <5>2. h[i] = IF i = 1 THEN ss[i] ELSE h[i - 1] \o ss[i]
          BY <3>2, <5>1 DEF Joins
        <5> QED
          BY <4>1, <5>1, <5>2
      <4> QED
        BY <4>2, <4>3
    <3>7. g = [i \in 1 .. m |-> g[i]]
      BY <3>3
    <3>8. Joins(ss, g, m)
      BY <3>6, <3>7 DEF Joins
    <3> QED
      BY <2>2, <3>8
  <2> QED
    BY <2>3, <2>4
<1>4. n \in 1 .. n
  OBVIOUS
<1> QED
  BY <1>2, <1>3, <1>4

LEMMA FlattenedIs ==
    ASSUME NEW ss, NEW n \in Nat \ {0}, Len(ss) = n,
           \A k \in 1 .. n : ss[k] \in Seq(Records) /\ Single(ss[k]),
           \A j, k \in 1 .. n : j # k => Moments(ss[j]) \cap Moments(ss[k]) = {}
    PROVE  /\ FlattenSeq(ss) \in Seq(Records) /\ Single(FlattenSeq(ss))
           /\ Moments(FlattenSeq(ss)) = UNION {Moments(ss[k]) : k \in 1 .. n}
<1>1. PICK f : f = CHOOSE g : g = [i \in 1 .. n |-> IF i = 1 THEN ss[i] ELSE g[i - 1] \o ss[i]]
  OBVIOUS
<1>2. \E g : g = [i \in 1 .. n |-> IF i = 1 THEN ss[i] ELSE g[i - 1] \o ss[i]]
  BY JoinsExist DEF Joins
<1>3. f = [i \in 1 .. n |-> IF i = 1 THEN ss[i] ELSE f[i - 1] \o ss[i]]
  BY ONLY <1>1, <1>2
<1>4. FlattenSeq(ss) = f[n]
  BY ONLY <1>1, n \in Nat \ {0}, Len(ss) = n DEF FlattenSeq
<1> DEFINE Sound(m) == /\ f[m] \in Seq(Records) /\ Single(f[m])
                       /\ Moments(f[m]) = UNION {Moments(ss[k]) : k \in 1 .. m}
           Unsound == {m \in 1 .. n : ~Sound(m)}
<1>5. Sound(1)
  <2>1. f[1] = ss[1]
    BY <1>3
  <2>2. UNION {Moments(ss[k]) : k \in 1 .. 1} = Moments(ss[1])
    OBVIOUS
  <2>3. 1 \in 1 .. n
    OBVIOUS
  <2> QED
    BY <2>1, <2>2, <2>3
<1>6. ASSUME NEW m \in 1 .. n, m # 1, Sound(m - 1) PROVE Sound(m)
  <2>1. f[m] = f[m - 1] \o ss[m]
    BY <1>3, <1>6
  <2>2. \A a : a \in Moments(f[m - 1]) => \E k \in 1 .. n : k # m /\ a \in Moments(ss[k])
    <3>1. \A k \in 1 .. m - 1 : k \in 1 .. n /\ k # m
      OBVIOUS
    <3>2. Moments(f[m - 1]) = UNION {Moments(ss[k]) : k \in 1 .. m - 1}
      BY <1>6
    <3> QED
      BY ONLY <3>1, <3>2
  <2>3. Moments(f[m - 1]) \cap Moments(ss[m]) = {}
    BY <2>2
  <2>4. /\ f[m] \in Seq(Records) /\ Single(f[m]) /\ Moments(f[m]) = Moments(f[m - 1]) \cup Moments(ss[m])
    <3>1. f[m - 1] \in Seq(Records) /\ Single(f[m - 1]) /\ ss[m] \in Seq(Records) /\ Single(ss[m])
      BY <1>6
    <3> QED
      BY ONLY <2>1, <2>3, <3>1, JoinedSingle
  <2>5. 1 .. m = (1 .. m - 1) \cup {m}
    OBVIOUS
  <2>6. UNION {Moments(ss[k]) : k \in 1 .. m} = (UNION {Moments(ss[k]) : k \in 1 .. m - 1}) \cup Moments(ss[m])
    <3>1. \A k : k \in 1 .. m <=> k \in 1 .. m - 1 \/ k = m
      BY ONLY <2>5
    <3> QED
      BY ONLY <3>1
  <2>7. Moments(f[m - 1]) = UNION {Moments(ss[k]) : k \in 1 .. m - 1}
    BY <1>6
  <2> QED
    BY ONLY <2>4, <2>6, <2>7 DEF Sound
<1>7. Unsound = {}
  <2> SUFFICES ASSUME Unsound # {} PROVE FALSE
    OBVIOUS
  <2>1. PICK m \in Unsound : \A k \in Unsound : m <= k
    <3>1. Unsound \in SUBSET Nat
      OBVIOUS
    <3> HIDE DEF Unsound
    <3> QED
      BY <3>1, Least
  <2>2. m \in 1 .. n /\ ~Sound(m)
    OBVIOUS
  <2> HIDE DEF Sound
  <2>3. m # 1
    BY <1>5, <2>2
  <2>4. m - 1 \in 1 .. n /\ ~(m <= m - 1)
    BY <2>2, <2>3
  <2>5. Sound(m - 1)
    BY <2>1, <2>4
  <2> QED
    BY <1>6, <2>2, <2>3, <2>5
<1>8. Sound(n)
  <2>1. n \in 1 .. n
    OBVIOUS
  <2> HIDE DEF Sound
  <2> QED
    BY <1>7, <2>1
<1> QED
  BY <1>4, <1>8

-----------------------------------------------------------------------------
(* EventLogs: its inductive invariant *)

(* Records are numbered by their moments, over all channels.               *)
RecordsOnce ==
    /\ \A c \in Channels : \A i \in 1 .. Len(log[c]) : log[c][i].at \in 1 .. clock
    /\ \A c \in Channels : \A i, k \in 1 .. Len(log[c]) : i < k => log[c][i].at < log[c][k].at
    /\ \A c, d \in Channels : c # d =>
          \A i \in 1 .. Len(log[c]), k \in 1 .. Len(log[d]) : log[c][i].at # log[d][k].at

ToldBefore == Moments(buffer) \cup drained \subseteq 1 .. clock

(* Windows: what was told lies before the cursor, but for what an analysis *)
(* had before a restart took the cursor away.                              *)
OnWindows == platform = "windows" =>
    \A c \in Channels :
        /\ cursor[c] >= NoCursor
        /\ \A i \in 1 .. Len(log[c]) :
            /\ log[c][i].at \in Moments(buffer) => cursor[c] # NoCursor /\ i <= cursor[c]
            /\ log[c][i].at \in drained /\ cursor[c] # NoCursor => i <= cursor[c]

(* A cursor names a line of the journal, or one before all of them.        *)
PlaceIn(j, at, now) ==
    /\ at <= now
    /\ \A i \in 1 .. Len(j) : j[i].at >= at \/ \E k \in 1 .. Len(j) : j[k].at = at

(* The newest line is the record written last.                             *)
LastIs(j, now) == \A i \in 1 .. Len(j) : i = Len(j) => j[i].at = now

(* Linux: nothing after the cursor was told, and the saved one is not      *)
(* ahead of it.                                                            *)
OnLinux == platform = "linux" =>
    /\ \A c \in Channels \ {Journal} : log[c] = <<>>
    /\ NoCursor <= savedCursor /\ savedCursor <= cursor[Journal]
    /\ PlaceIn(log[Journal], cursor[Journal], clock) /\ PlaceIn(log[Journal], savedCursor, clock)
    /\ LastIs(log[Journal], clock)
    /\ \A a \in Moments(buffer) : a <= cursor[Journal]
    /\ cursor[Journal] # NoCursor => \A a \in drained : a <= cursor[Journal]

LogsInv == LogsTypeOK /\ RecordsOnce /\ ToldBefore /\ OnWindows /\ OnLinux /\ ToldOnce /\ ErrorsKept

LEMMA Logged ==
    ASSUME LogsInv, NEW c \in Channels
    PROVE  /\ log[c] \in Seq(Records) /\ Len(log[c]) \in Nat /\ Single(log[c])
           /\ \A a : a \in Moments(log[c]) <=> \E i \in 1 .. Len(log[c]) : log[c][i].at = a
           /\ \A i \in 1 .. Len(log[c]) : log[c][i].at \in Nat /\ log[c][i].at \in 1 .. clock
           /\ \A d \in Channels : d # c => Moments(log[d]) \cap Moments(log[c]) = {}
           /\ clock \in Nat
<1>1. \A d \in Channels : log[d] \in Seq(Records)
  BY DEF LogsInv, LogsTypeOK
<1>2. PICK s : s = log[c]
  OBVIOUS
<1>3. s \in Seq(Records) /\ Len(s) \in Nat
  BY <1>1, <1>2
<1>4. \A a : a \in Moments(s) <=> \E i \in 1 .. Len(s) : s[i].at = a
  BY <1>3, InMoments
<1>5. clock \in Nat /\ \A i \in 1 .. Len(s) : s[i].at \in Nat /\ s[i].at \in 1 .. clock
  BY <1>2 DEF LogsInv, LogsTypeOK, RecordsOnce
<1>6. Single(s)
  <2> SUFFICES ASSUME NEW i \in 1 .. Len(s), NEW k \in 1 .. Len(s), s[i].at = s[k].at PROVE i = k
    BY DEF Single
  <2>1. (i < k => s[i].at < s[k].at) /\ (k < i => s[k].at < s[i].at)
    BY <1>2 DEF LogsInv, RecordsOnce
  <2> QED
    BY <1>3, <1>5, <2>1
<1>7. ASSUME NEW d \in Channels, d # c PROVE Moments(log[d]) \cap Moments(s) = {}
  <2>1. \A a : a \in Moments(log[d]) <=> \E i \in 1 .. Len(log[d]) : log[d][i].at = a
    BY <1>1, InMoments
  <2>2. \A i \in 1 .. Len(log[d]), k \in 1 .. Len(s) : log[d][i].at # s[k].at
    BY <1>2, <1>7 DEF LogsInv, RecordsOnce
  <2> QED
    BY <1>4, <2>1, <2>2
<1> QED
  BY <1>2, <1>3, <1>4, <1>5, <1>6, <1>7

LEMMA Buffered ==
    ASSUME LogsInv
    PROVE  /\ buffer \in Seq(Records) /\ Len(buffer) \in Nat /\ Len(buffer) <= BufferCap /\ Single(buffer)
           /\ Moments(buffer) \cap drained = {} /\ BufferCap \in Nat
<1>1. buffer \in Seq(Records) /\ DOMAIN buffer = 1 .. Len(buffer)
  BY DEF LogsInv, LogsTypeOK
<1>2. Single(buffer)
  BY <1>1 DEF LogsInv, ToldOnce, Single
<1> QED
  BY <1>1, <1>2 DEF LogsInv, LogsTypeOK, ToldOnce

(* What a poll makes of the buffer.                                        *)
LEMMA BufferedIs ==
    ASSUME LogsInv, NEW entries \in Seq(Records), Single(entries), Moments(buffer) \cap Moments(entries) = {}
    PROVE  /\ BufferedWith(entries) \in Seq(Records) /\ Len(BufferedWith(entries)) <= BufferCap
           /\ Single(BufferedWith(entries))
           /\ Moments(BufferedWith(entries)) \subseteq Moments(buffer) \cup Moments(entries)
           /\ \A a \in Moments(buffer) \cup Moments(entries) :
                 a \notin Crowded(entries) => a \in Moments(BufferedWith(entries))
<1>1. PICK all : all = buffer \o entries
  OBVIOUS
<1>2. all \in Seq(Records) /\ Single(all) /\ Moments(all) = Moments(buffer) \cup Moments(entries)
  BY <1>1, Buffered, JoinedSingle
<1>3. Len(all) = Len(buffer) + Len(entries) /\ Len(all) \in Nat /\ BufferCap \in Nat
  BY <1>1, <1>2, Buffered
<1>4. CASE Len(all) <= BufferCap
  <2>1. BufferedWith(entries) = all
    BY <1>1, <1>4 DEF BufferedWith
  <2> QED
    BY <1>2, <1>4, <2>1
<1>5. CASE ~(Len(all) <= BufferCap)
  <2>1. PICK d : d = Len(all) - BufferCap
    OBVIOUS
  <2>2. d \in 0 .. Len(all) /\ Len(all) - d = BufferCap
    BY <1>3, <1>5, <2>1
  <2>3. PICK r : r = SubSeq(all, d + 1, Len(all))
    OBVIOUS
  <2>4. BufferedWith(entries) = r
    BY <1>1, <1>5, <2>1, <2>3 DEF BufferedWith
  <2>5. r \in Seq(Records) /\ Len(r) = Len(all) - d
    BY <1>2, <2>2, <2>3, SuffixIs
  <2>6. Single(r) /\ Moments(r) \subseteq Moments(all)
    BY ONLY <1>2, <2>2, <2>3, SuffixSingle
  <2>7. ASSUME NEW a \in Moments(all), a \notin Crowded(entries) PROVE a \in Moments(r)
    <3>1. PICK k \in 1 .. Len(all) : all[k].at = a
      BY <1>2, InMoments
    <3>2. Crowded(entries) = {all[i].at : i \in 1 .. d}
      BY <1>1, <2>1 DEF Crowded
    <3>3. k \notin 1 .. d
      BY <2>7, <3>1, <3>2
    <3>4. k > d
      BY <1>3, <2>2, <3>1, <3>3
    <3>5. k - d \in 1 .. Len(r) /\ r[k - d] = all[k]
      BY <1>2, <2>2, <2>3, <3>1, <3>4, SuffixIs
    <3> QED
      BY <2>5, <3>1, <3>5, InMoments
  <2> QED
    BY <1>2, <1>3, <1>5, <2>2, <2>4, <2>5, <2>6, <2>7
<1> QED
  BY <1>4, <1>5

-----------------------------------------------------------------------------
(* EventLogs: a poll of Windows *)

LEMMA LargestOfThree ==
    ASSUME NEW x \in Int, NEW y \in Int, NEW z \in Int
    PROVE  /\ Max({x, y, z}) \in {x, y, z} /\ Max({x, y, z}) \in Int
           /\ Max({x, y, z}) >= x /\ Max({x, y, z}) >= y /\ Max({x, y, z}) >= z
<1>1. \E m \in {x, y, z} : \A n \in {x, y, z} : m >= n
  <2>1. CASE x >= y /\ x >= z
    BY <2>1
  <2>2. CASE y >= x /\ y >= z
    BY <2>2
  <2>3. CASE z >= x /\ z >= y
    BY <2>3
  <2> QED
    BY <2>1, <2>2, <2>3
<1>2. Max({x, y, z}) \in {x, y, z} /\ \A n \in {x, y, z} : Max({x, y, z}) >= n
  BY <1>1 DEF Max
<1> QED
  BY <1>2

(* What one channel yields: records after its cursor, all of them unless a *)
(* limit of the poll left some out.                                        *)
LEMMA YieldIs ==
    ASSUME LogsInv, platform = "windows", NEW c \in Channels, NEW reach \in 0 .. Len(log[c])
    PROVE  /\ Yield(c, reach) \in Seq(Records) /\ Single(Yield(c, reach))
           /\ Moments(Yield(c, reach)) \subseteq Moments(log[c])
           /\ \A a \in Moments(Yield(c, reach)) :
                 cursor[c] # NoCursor /\ reach # 0 /\ \E i \in 1 .. Len(log[c]) : log[c][i].at = a /\ i > cursor[c]
           /\ \A i \in 1 .. Len(log[c]) :
                 cursor[c] # NoCursor /\ i > cursor[c] /\ ~WasReset(c) /\ reach # 0
                 /\ log[c][i].at \notin Skipped(c, reach)
                 => log[c][i].at \in Moments(Yield(c, reach))
<1>1. PICK s, top, F, y : s = log[c] /\ top = Len(log[c]) /\ F = Fresh(c, reach) /\ y = Yield(c, reach)
  OBVIOUS
<1>2. s \in Seq(Records) /\ top = Len(s) /\ top \in Nat /\ Single(s) /\ reach \in Nat
  BY <1>1, Logged
<1>3. cursor[c] \in Int /\ cursor[c] >= -1 /\ PollCap \in Nat
  BY DEF LogsInv, LogsTypeOK, OnWindows, NoCursor
<1>4. y = [i \in 1 .. Cardinality(F) |-> s[top + 1 - i]]
  BY <1>1 DEF Yield
<1>5. CASE Prime(c) \/ WasReset(c) \/ reach = 0
  <2>1. F = {}
    BY <1>1, <1>5 DEF Fresh
  <2>2. Cardinality(F) = 0
    BY <2>1, FS_EmptySet
  <2>3. y = <<>>
    BY <1>4, <2>2
  <2>4. ~(cursor[c] # NoCursor /\ ~WasReset(c) /\ reach # 0)
    BY <1>5 DEF Prime
  <2> QED
    BY <1>1, <2>3, <2>4, NoMoments
<1>6. CASE ~(Prime(c) \/ WasReset(c) \/ reach = 0)
  <2>1. cursor[c] \in Nat /\ Known(c) = cursor[c] /\ cursor[c] # NoCursor
    BY <1>3, <1>6 DEF Prime, Known, NoCursor
  <2>2. PICK lo : lo = Max({cursor[c] + 1, top + 1 - PollCap, top + 1 - reach})
    OBVIOUS
  <2>3. F = lo .. top
    BY <1>1, <1>6, <2>1, <2>2 DEF Fresh
  <2>4. /\ lo \in Int /\ lo \in {cursor[c] + 1, top + 1 - PollCap, top + 1 - reach} /\ lo >= cursor[c] + 1
    <3>1. cursor[c] + 1 \in Int /\ top + 1 - PollCap \in Int /\ top + 1 - reach \in Int
      BY <1>2, <1>3
    <3> QED
      BY <2>2, <3>1, LargestOfThree
  <2>5. PICK n : n = Cardinality(F)
    OBVIOUS
  <2>6. n = IF lo > top THEN 0 ELSE top - lo + 1
    <3>1. lo \in Int /\ top \in Int
      BY <1>2, <2>4
    <3> QED
      BY <2>3, <2>5, <3>1, FS_Interval
  <2>7. n \in Nat /\ \A i \in 1 .. n : top + 1 - i \in 1 .. top /\ top + 1 - i >= lo /\ top + 1 - i > cursor[c]
    BY <1>2, <2>1, <2>4, <2>6
  <2>8. \A i \in 1 .. n : y[i] = s[top + 1 - i] /\ y[i] \in Records
    BY <1>2, <1>4, <2>5, <2>7
  <2>9. y \in Seq(Records) /\ Len(y) = n
    <3>1. y = [i \in 1 .. n |-> s[top + 1 - i]] /\ \A i \in 1 .. n : s[top + 1 - i] \in Records
      BY <1>4, <2>5, <2>8
    <3> QED
      BY ONLY <2>7, <3>1, IsASeq, LenProperties
  <2>10. Single(y)
    <3> SUFFICES ASSUME NEW i \in 1 .. n, NEW k \in 1 .. n, y[i].at = y[k].at PROVE i = k
      BY <2>9 DEF Single
    <3>1. s[top + 1 - i].at = s[top + 1 - k].at /\ top + 1 - i \in 1 .. top /\ top + 1 - k \in 1 .. top
      BY <2>7, <2>8
    <3>2. top + 1 - i = top + 1 - k
      BY <1>2, <3>1 DEF Single
    <3> QED
      BY <1>2, <2>7, <3>2
  <2>11. ASSUME NEW a \in Moments(y) PROVE \E i \in 1 .. top : s[i].at = a /\ i > cursor[c]
    <3>1. PICK i \in 1 .. n : y[i].at = a
      BY <2>9, InMoments
    <3> QED
      BY <2>7, <2>8, <3>1
  <2>12. \A a \in Moments(y) : a \in Moments(s)
    BY <1>2, <2>11, InMoments
  <2>13. ASSUME NEW i \in 1 .. top, i > cursor[c], s[i].at \notin Skipped(c, reach) PROVE s[i].at \in Moments(y)
    <3>0. ~(i <= top - PollCap) /\ ~(i <= top - reach)
      <4>1. Skipped(c, reach) = {s[k].at : k \in {m \in DOMAIN s :
                m > cursor[c] /\ (m <= top - PollCap \/ m <= top - reach)}}
        BY <1>1, <1>6, <2>1 DEF Skipped
      <4>2. i \in DOMAIN s
        BY <1>2
      <4> QED
        BY <2>13, <4>1, <4>2
    <3>1. i >= lo
      BY <1>2, <1>3, <2>1, <2>4, <2>13, <3>0
    <3>2. top + 1 - i \in 1 .. n /\ top + 1 - (top + 1 - i) = i
      BY <1>2, <2>4, <2>6, <3>1
    <3>3. y[top + 1 - i] = s[i]
      BY <2>8, <3>2
    <3> QED
      BY <2>9, <3>2, <3>3, InMoments
  <2> QED
    BY <1>1, <1>6, <2>1, <2>9, <2>10, <2>11, <2>12, <2>13
<1> QED
  BY <1>5, <1>6

-----------------------------------------------------------------------------
(* EventLogs: a poll of the journal *)

LEMMA JournalIs == Journal \in Channels
<1>1. 1 \in DOMAIN ChannelOrder
  <2>1. ChannelOrder \in Seq(Range(ChannelOrder)) /\ ChannelOrder # <<>>
    OBVIOUS
  <2> QED
    BY ONLY <2>1
<1> QED
  BY <1>1 DEF Journal, Channels, Range

(* The lines after the cursor are the end of the journal; all of them,     *)
(* when they are fewer than the limit.                                     *)
AreAfter(lines, j, at) ==
    \E d \in 0 .. Len(j) :
        /\ lines \in Seq(Records) /\ Len(lines) = Len(j) - d
        /\ \A i \in 1 .. Len(lines) : i + d \in 1 .. Len(j) /\ lines[i] = j[i + d]
        /\ \A k \in 1 .. Len(j) : k > d =>
              j[k].at > at /\ k - d \in 1 .. Len(lines) /\ lines[k - d] = j[k]
        /\ ~(Len(lines) >= LineCap) => \A k \in 1 .. Len(j) : j[k].at > at => k > d

LEMMA AfterIs ==
    ASSUME LogsInv, platform = "linux", NEW at, at = cursor[Journal], NEW j, j = log[Journal],
           NEW lines, lines = After(at)
    PROVE  AreAfter(lines, j, at)
<1> SUFFICES \E d \in 0 .. Len(j) :
                 /\ lines \in Seq(Records) /\ Len(lines) = Len(j) - d
                 /\ \A i \in 1 .. Len(lines) : i + d \in 1 .. Len(j) /\ lines[i] = j[i + d]
                 /\ \A k \in 1 .. Len(j) : k > d =>
                       j[k].at > at /\ k - d \in 1 .. Len(lines) /\ lines[k - d] = j[k]
                 /\ ~(Len(lines) >= LineCap) => \A k \in 1 .. Len(j) : j[k].at > at => k > d
  BY DEF AreAfter
<1>1. PICK len : len = Len(j)
  OBVIOUS
<1>2. j \in Seq(Records) /\ len = Len(j) /\ len \in Nat /\ at \in Int /\ LineCap \in Nat
  BY <1>1, JournalIs, Logged DEF LogsInv, LogsTypeOK
<1>3. \A k \in 1 .. len : j[k].at \in Nat
  BY <1>1, JournalIs, Logged
<1>4. \A i, k \in 1 .. len : i < k => j[i].at < j[k].at
  BY <1>1, JournalIs DEF LogsInv, RecordsOnce
<1>5. PICK n : n = {i \in DOMAIN j : j[i].at = at}
  OBVIOUS
<1>6. \A i : i \in n <=> i \in 1 .. len /\ j[i].at = at
  BY <1>2, <1>5
<1>7. PICK all : all = IF n = {} THEN j ELSE SubSeq(j, 1 + CHOOSE i \in n : TRUE, Len(j))
  OBVIOUS
<1>8. PICK e \in 0 .. len :
        /\ all \in Seq(Records) /\ Len(all) = len - e
        /\ \A i \in 1 .. Len(all) : i + e \in 1 .. len /\ all[i] = j[i + e]
        /\ \A k \in 1 .. len : k > e <=> j[k].at > at
        /\ \A k \in 1 .. len : k > e => k - e \in 1 .. Len(all) /\ all[k - e] = j[k]
  <2>1. CASE n = {}
    <3>1. \A k \in 1 .. len : j[k].at > at
      <4>1. \A k \in 1 .. len : j[k].at >= at \/ \E i \in 1 .. len : j[i].at = at
        BY <1>1 DEF LogsInv, OnLinux, PlaceIn
      <4>2. \A k \in 1 .. len : j[k].at # at
        BY <1>6, <2>1
      <4> QED
        BY <1>2, <1>3, <4>1, <4>2
    <3>2. all = j /\ 0 \in 0 .. len /\ Len(all) = len - 0
      BY <1>2, <1>7, <2>1
    <3>3. \A k \in 1 .. len : k > 0 /\ k - 0 \in 1 .. len /\ k - 0 = k /\ k + 0 = k
      BY <1>2
    <3> QED
      BY <1>2, <3>1, <3>2, <3>3
  <2>2. CASE n # {}
    <3>1. PICK p : p = CHOOSE i \in n : TRUE
      OBVIOUS
    <3>2. p \in n
      BY <2>2, <3>1
    <3>3. p \in 1 .. len /\ j[p].at = at /\ p \in 0 .. len /\ 1 + p = p + 1
      BY <1>2, <1>6, <3>2
    <3>4. all = SubSeq(j, p + 1, Len(j))
      BY <1>7, <2>2, <3>1, <3>3
    <3>5. /\ all \in Seq(Records) /\ Len(all) = Len(j) - p
          /\ \A i \in 1 .. Len(all) : i + p \in 1 .. Len(j) /\ all[i] = j[i + p]
          /\ \A k \in 1 .. Len(j) : k > p => k - p \in 1 .. Len(all) /\ all[k - p] = j[k]
      BY ONLY <1>2, <3>3, <3>4, SuffixIs
    <3>6. \A k \in 1 .. len : k > p <=> j[k].at > at
      <4> TAKE k \in 1 .. len
      <4>1. k > p => j[k].at > at
        BY <1>4, <3>3
      <4>2. k < p => j[k].at < at
        BY <1>4, <3>3
      <4>3. k \in Nat /\ p \in Nat /\ j[k].at \in Nat /\ at \in Nat
        BY <1>3, <3>3
      <4>4. k = p => j[k].at = at
        BY <3>3
      <4> QED
        BY <4>1, <4>2, <4>3, <4>4
    <3> QED
      BY <1>1, <3>3, <3>5, <3>6
  <2> QED
    BY <2>1, <2>2
<1>9. lines = IF Len(all) <= LineCap THEN all ELSE SubSeq(all, Len(all) - LineCap + 1, Len(all))
  BY <1>5, <1>7 DEF After
<1>10. CASE Len(all) <= LineCap
  <2>1. lines = all
    BY <1>9, <1>10
  <2> QED
    BY <1>1, <1>8, <2>1
<1>11. CASE ~(Len(all) <= LineCap)
  <2>1. PICK f : f = Len(all) - LineCap
    OBVIOUS
  <2>2. f \in 0 .. Len(all) /\ f \in Nat /\ Len(all) - f = LineCap /\ e \in Nat /\ Len(all) \in Nat
    <3>1. Len(all) \in Nat /\ e \in Nat
      BY <1>2, <1>8
    <3> QED
      BY ONLY <1>2, <1>11, <2>1, <3>1
  <2>3. lines = SubSeq(all, f + 1, Len(all))
    BY <1>9, <1>11, <2>1
  <2>4. /\ lines \in Seq(Records) /\ Len(lines) = Len(all) - f
        /\ \A i \in 1 .. Len(lines) : i + f \in 1 .. Len(all) /\ lines[i] = all[i + f]
        /\ \A k \in 1 .. Len(all) : k > f => k - f \in 1 .. Len(lines) /\ lines[k - f] = all[k]
    <3>1. all \in Seq(Records)
      BY <1>8
    <3> QED
      BY ONLY <2>2, <2>3, <3>1, SuffixIs
  <2>5. PICK d : d = f + e
    OBVIOUS
  <2>6. d \in 0 .. len /\ Len(lines) = len - d /\ Len(lines) >= LineCap
    BY <1>2, <1>8, <2>2, <2>4, <2>5
  <2>7. \A i \in 1 .. Len(lines) : i + d \in 1 .. len /\ lines[i] = j[i + d]
    <3> TAKE i \in 1 .. Len(lines)
    <3>1. i + f \in 1 .. Len(all) /\ lines[i] = all[i + f]
      BY <2>4
    <3>2. (i + f) + e \in 1 .. len /\ all[i + f] = j[(i + f) + e]
      BY <1>8, <3>1
    <3>3. (i + f) + e = i + d
      BY <2>2, <2>5, <2>6
    <3> QED
      BY <3>1, <3>2, <3>3
  <2>8. \A k \in 1 .. len : k > d => j[k].at > at /\ k - d \in 1 .. Len(lines) /\ lines[k - d] = j[k]
    <3> SUFFICES ASSUME NEW k \in 1 .. len, k > d
                 PROVE  j[k].at > at /\ k - d \in 1 .. Len(lines) /\ lines[k - d] = j[k]
      OBVIOUS
    <3>1. k > e /\ k - e > f /\ k \in Nat
      BY <2>2, <2>5
    <3>2. j[k].at > at /\ k - e \in 1 .. Len(all) /\ all[k - e] = j[k]
      BY <1>8, <3>1
    <3>3. (k - e) - f \in 1 .. Len(lines) /\ lines[(k - e) - f] = all[k - e]
      BY <2>4, <3>1, <3>2
    <3>4. (k - e) - f = k - d
      BY <2>2, <2>5, <3>1
    <3> QED
      BY <3>2, <3>3, <3>4
  <2> QED
    BY <1>1, <2>4, <2>6, <2>7, <2>8
<1> QED
  BY <1>10, <1>11

(* Of lines that read alike the first is told, as far as the limit goes.   *)
LEMMA DistinctIs ==
    ASSUME NEW lines \in Seq(Records), Single(lines)
    PROVE  /\ DistinctLines(lines) \in Seq(Records) /\ Single(DistinctLines(lines))
           /\ Moments(DistinctLines(lines)) \subseteq Moments(lines)
           /\ \A a \in Moments(lines) : a \notin LeftOut(lines) => a \in Moments(DistinctLines(lines))
<1>1. PICK first : first = {i \in DOMAIN lines : ~Alike(lines, i)}
  OBVIOUS
<1>2. PICK kept, got : kept = Sifted(lines, first) /\ got = DistinctLines(lines)
  OBVIOUS
<1>3. first \in SUBSET DOMAIN lines /\ DOMAIN lines = 1 .. Len(lines) /\ Len(lines) \in Nat /\ PollCap \in Nat
  BY <1>1
<1>4. /\ kept \in Seq(Records) /\ Len(kept) \in 0 .. Len(lines)
      /\ \A n \in 1 .. Len(kept) : \E i \in first : kept[n] = lines[i]
      /\ \A m, n \in 1 .. Len(kept) :
            m < n => \E i, k \in first : i < k /\ kept[m] = lines[i] /\ kept[n] = lines[k]
  <2>1. /\ Sifted(lines, first) \in Seq(Records) /\ Len(Sifted(lines, first)) \in 0 .. Len(lines)
        /\ \A n \in 1 .. Len(Sifted(lines, first)) : \E i \in first : Sifted(lines, first)[n] = lines[i]
        /\ \A m, n \in 1 .. Len(Sifted(lines, first)) :
              m < n => \E i, k \in first :
                          i < k /\ Sifted(lines, first)[m] = lines[i] /\ Sifted(lines, first)[n] = lines[k]
    BY ONLY <1>3, lines \in Seq(Records), SiftedIs
  <2> QED
    BY ONLY <1>2, <2>1
<1>5. got = IF Len(kept) <= PollCap THEN kept ELSE SubSeq(kept, 1, PollCap)
  BY <1>1, <1>2 DEF DistinctLines
<1>6. /\ got \in Seq(Records) /\ Len(got) \in Nat /\ Len(got) <= Len(kept)
      /\ \A n \in 1 .. Len(got) : n \in 1 .. Len(kept) /\ got[n] = kept[n]
      /\ Len(got) = Len(kept) => got = kept
  <2>1. got = Front2(kept, PollCap)
    <3>1. Len(kept) <= PollCap => SubSeq(kept, 1, Len(kept)) = kept
      BY <1>4
    <3> QED
      BY <1>5, <3>1 DEF Front2
  <2>2. /\ got \in Seq(Records) /\ Len(got) <= PollCap /\ Len(got) <= Len(kept)
        /\ \A n \in 1 .. Len(got) : got[n] = kept[n]
    BY <1>3, <1>4, <2>1, FrontIs
  <2>3. Len(got) \in Nat /\ Len(kept) \in Nat
    BY <1>4, <2>2
  <2>4. Len(got) = Len(kept) => got = kept
    BY <1>4, <2>2
  <2> QED
    BY <2>2, <2>3, <2>4
<1>7. Single(got)
  <2>1. \A m, n \in 1 .. Len(got) : m < n => got[m].at # got[n].at
    <3> SUFFICES ASSUME NEW m \in 1 .. Len(got), NEW n \in 1 .. Len(got), m < n PROVE got[m].at # got[n].at
      OBVIOUS
    <3>1. PICK i, k \in first : i < k /\ got[m] = lines[i] /\ got[n] = lines[k]
      <4>1. got[m] = kept[m] /\ got[n] = kept[n] /\ m \in 1 .. Len(kept) /\ n \in 1 .. Len(kept)
        BY <1>6
      <4>2. \E i, k \in first : i < k /\ kept[m] = lines[i] /\ kept[n] = lines[k]
        BY <1>4, <4>1
      <4> QED
        BY <4>1, <4>2
    <3>2. i \in 1 .. Len(lines) /\ k \in 1 .. Len(lines) /\ i # k
      BY <1>3, <3>1
    <3> QED
      BY <3>1, <3>2 DEF Single
  <2> SUFFICES ASSUME NEW m \in 1 .. Len(got), NEW n \in 1 .. Len(got), m # n PROVE got[m].at # got[n].at
    BY DEF Single
  <2>2. m < n \/ n < m
    BY <1>6
  <2> QED
    BY <2>1, <2>2
<1>8. ASSUME NEW a \in Moments(got) PROVE a \in Moments(lines)
  <2>1. PICK n \in 1 .. Len(got) : got[n].at = a
    BY <1>6, InMoments
  <2>2. PICK i \in first : got[n] = lines[i]
    BY <1>4, <1>6
  <2>3. i \in 1 .. Len(lines) /\ lines[i].at = a
    BY <1>3, <2>1, <2>2
  <2> QED
    BY <2>3, InMoments
<1>9. ASSUME NEW a \in Moments(lines), a \notin LeftOut(lines) PROVE a \in Moments(got)
  <2>1. PICK i \in 1 .. Len(lines) : lines[i].at = a
    BY InMoments
  <2>2. PICK before : before = {k \in DOMAIN lines : k < i /\ ~Alike(lines, k)}
    OBVIOUS
  <2>3. i \in DOMAIN lines /\ ~Alike(lines, i) /\ ~(Cardinality(before) >= PollCap)
    BY <1>3, <1>9, <2>1, <2>2 DEF LeftOut
  <2>4. i \in first /\ first \in SUBSET Nat /\ IsFiniteSet(first) /\ Cardinality(first) \in Nat
    BY <1>1, <1>3, <2>3, PlacesOf
  <2>5. before \in SUBSET first /\ {k \in first : k <= i} = before \cup {i} /\ i \notin before
    BY <1>1, <1>3, <2>1, <2>2, <2>4
  <2>6. PICK n : n = Rank(first, i)
    OBVIOUS
  <2>7. n = Cardinality(before) + 1 /\ Cardinality(before) \in Nat
    <3>1. IsFiniteSet(before)
      BY <2>4, <2>5, FS_Subset
    <3> QED
      BY <2>5, <2>6, <3>1, FS_AddElement, FS_CardinalityType DEF Rank
  <2>8. n <= PollCap
    BY <1>3, <2>3, <2>7
  <2>9. n \in 1 .. Cardinality(first) /\ Ranked(first, n) = i
    BY <2>4, <2>6, RankInto
  <2>10. kept = [m \in 1 .. Cardinality(first) |-> lines[Ranked(first, m)]]
    BY <1>2 DEF Sifted
  <2>11. n \in 1 .. Len(kept) /\ kept[n] = lines[i]
    BY <2>4, <2>9, <2>10
  <2>12. n \in 1 .. Len(got)
    <3>1. CASE Len(kept) <= PollCap
      BY <1>5, <2>11, <3>1
    <3>2. CASE ~(Len(kept) <= PollCap)
      <4>1. got = SubSeq(kept, 1, PollCap)
        BY <1>5, <3>2
      <4>2. Len(got) = PollCap
        BY <1>3, <1>4, <4>1
      <4> QED
        BY <2>7, <2>8, <4>2
    <3> QED
      BY <3>1, <3>2
  <2>13. got[n].at = a
    BY <1>6, <2>1, <2>11, <2>12
  <2> QED
    BY <1>6, <2>12, <2>13, InMoments
<1> QED
  BY <1>2, <1>6, <1>7, <1>8, <1>9

(* When as many lines come as the limit lets through, so many are unread.  *)
LEMMA ManyUnread ==
    ASSUME LogsInv, platform = "linux", NEW lines, lines = After(cursor[Journal]), Len(lines) >= LineCap
    PROVE  Cardinality(NotYetRead) >= LineCap
<1>1. PICK at, j, unread : at = cursor[Journal] /\ j = log[Journal] /\ unread = NotYetRead
  OBVIOUS
<1>2. AreAfter(lines, j, at)
  BY <1>1, AfterIs
<1>3. PICK d \in 0 .. Len(j) :
          /\ lines \in Seq(Records) /\ Len(lines) = Len(j) - d
          /\ \A i \in 1 .. Len(lines) : i + d \in 1 .. Len(j) /\ lines[i] = j[i + d]
          /\ \A k \in 1 .. Len(j) : k > d => j[k].at > at
  BY <1>2 DEF AreAfter
<1>4. PICK n : n = Len(lines)
  OBVIOUS
<1>5. /\ n \in Nat /\ d \in Nat /\ LineCap \in Nat /\ clock \in Nat /\ Single(j) /\ j \in Seq(Records)
      /\ \A k \in 1 .. Len(j) : j[k].at \in 1 .. clock
  BY <1>1, <1>3, <1>4, JournalIs, Logged DEF LogsInv, LogsTypeOK
<1>6. unread = {j[i].at : i \in {k \in 1 .. Len(j) : j[k].at > at}}
  <2>1. DOMAIN j = 1 .. Len(j)
    BY <1>5
  <2> QED
    BY <1>1, <2>1 DEF NotYetRead
<1>7. IsFiniteSet(unread) /\ Cardinality(unread) \in Nat
  <2>1. unread \in SUBSET (1 .. clock)
    BY <1>5, <1>6
  <2>2. IsFiniteSet(1 .. clock)
    <3>1. 1 \in Int /\ clock \in Int
      BY <1>5
    <3> QED
      BY <3>1, FS_Interval
  <2> QED
    BY <2>1, <2>2, FS_Subset, FS_CardinalityType
<1>8. PICK f : f = [i \in 1 .. n |-> j[i + d].at]
  OBVIOUS
<1>9. f \in Injection(1 .. n, unread)
  <2>1. \A i \in 1 .. n : i + d \in 1 .. Len(j) /\ i + d > d
    BY <1>3, <1>4, <1>5
  <2>2. f \in [1 .. n -> unread]
    BY <1>3, <1>6, <1>8, <2>1
  <2>3. ASSUME NEW i \in 1 .. n, NEW k \in 1 .. n, f[i] = f[k] PROVE i = k
    <3>1. j[i + d].at = j[k + d].at
      BY <1>8, <2>3
    <3>2. i + d = k + d
      BY <1>5, <2>1, <3>1 DEF Single
    <3> QED
      BY <1>5, <3>2
  <2> QED
    BY <2>2, <2>3 DEF Injection, IsInjective
<1>10. Cardinality(1 .. n) = n
  <2>1. 1 \in Int /\ n \in Nat
    BY <1>5
  <2> QED
    BY ONLY <2>1, FS_Interval
<1> QED
  BY <1>1, <1>4, <1>5, <1>7, <1>9, <1>10, FS_Injection

-----------------------------------------------------------------------------
(* EventLogs: the steps *)

(* A record that is still to be read.                                      *)
ToReadIn(l, cur, windows, a) ==
    \E c \in Channels : \E i \in 1 .. Len(l[c]) :
        /\ l[c][i].at = a /\ cur[c] # NoCursor
        /\ IF windows THEN i > cur[c] ELSE a > cur[c]

LEMMA DueIs ==
    ASSUME LogsInv, NEW a \in due
    PROVE  a \in Moments(buffer) \/ ToReadIn(log, cursor, platform = "windows", a)
<1>1. \A c \in Channels : DOMAIN log[c] = 1 .. Len(log[c])
  BY DEF LogsInv, LogsTypeOK
<1> QED
  BY <1>1 DEF LogsInv, ErrorsKept, ToReadIn

LEMMA LogsParts ==
    ASSUME LogsTypeOK', RecordsOnce', ToldBefore', OnWindows', OnLinux',
           Single(buffer'), Moments(buffer') \cap drained' = {},
           \A a \in due' : a \in Moments(buffer') \/ ToReadIn(log', cursor', platform' = "windows", a)
    PROVE  LogsInv'
<1>1. /\ \A c \in Channels : log'[c] \in Seq(Records) /\ cursor'[c] \in Int
      /\ buffer' \in Seq(Records)
  BY DEF LogsTypeOK
<1>2. \A c \in Channels : DOMAIN log'[c] = 1 .. Len(log'[c]) /\ Len(log'[c]) \in Nat
  BY <1>1
<1>3. \A a \in due' :
        \/ a \in Moments(buffer')
        \/ \E c \in Channels : \E i \in DOMAIN log'[c] :
             log'[c][i].at = a /\ cursor'[c] # NoCursor
             /\ IF platform' = "windows"
                THEN i > cursor'[c] /\ ~(cursor'[c] > 0 /\ Len(log'[c]) < cursor'[c]) ELSE a > cursor'[c]
  <2> SUFFICES ASSUME NEW a \in due', a \notin Moments(buffer')
               PROVE  \E c \in Channels : \E i \in DOMAIN log'[c] :
                          log'[c][i].at = a /\ cursor'[c] # NoCursor
                          /\ IF platform' = "windows"
                             THEN i > cursor'[c] /\ ~(cursor'[c] > 0 /\ Len(log'[c]) < cursor'[c]) ELSE a > cursor'[c]
    OBVIOUS
  <2>0. PICK c \in Channels : \E i \in 1 .. Len(log'[c]) :
            /\ log'[c][i].at = a /\ cursor'[c] # NoCursor
            /\ IF platform' = "windows" THEN i > cursor'[c] ELSE a > cursor'[c]
    BY DEF ToReadIn
  <2>1. PICK i \in 1 .. Len(log'[c]) :
            /\ log'[c][i].at = a /\ cursor'[c] # NoCursor
            /\ IF platform' = "windows" THEN i > cursor'[c] ELSE a > cursor'[c]
    BY <2>0
  <2>2. i \in DOMAIN log'[c] /\ Len(log'[c]) \in Nat /\ cursor'[c] \in Int
    BY <1>1, <1>2
  <2> QED
    BY <2>1, <2>2
<1>4. ErrorsKept'
  BY <1>3 DEF ErrorsKept, WasReset, Known
<1>5. ToldOnce'
  <2>1. DOMAIN buffer' = 1 .. Len(buffer')
    BY <1>1
  <2> QED
    BY <2>1 DEF ToldOnce, Single
<1> QED
  BY <1>4, <1>5 DEF LogsInv

LEMMA LogsBegin == LogsInit => LogsInv
<1> SUFFICES ASSUME LogsInit PROVE LogsInv
  OBVIOUS
<1>1. PICK old \in 0 .. 1 :
        /\ clock = old
        /\ log = [c \in Channels |-> IF old = 1 /\ c = Journal
                                     THEN <<[at |-> 1, level |-> "Error"]>> ELSE <<>>]
  BY DEF LogsInit
<1>2. /\ platform \in {"windows", "linux"} /\ cursor = [c \in Channels |-> NoCursor] /\ savedCursor = NoCursor
      /\ buffer = <<>> /\ awake = FALSE /\ mishaps = 0 /\ drained = {} /\ due = {}
  BY DEF LogsInit
<1>3. \A c \in Channels : log[c] = <<>> \/ (old = 1 /\ c = Journal /\ log[c] = <<[at |-> 1, level |-> "Error"]>>)
  BY <1>1
<1>4. [at |-> 1, level |-> "Error"] \in Records
  BY DEF Records, Levels
<1>5. \A c \in Channels :
        /\ log[c] \in Seq(Records) /\ Len(log[c]) \in 0 .. 1
        /\ Len(log[c]) = 1 => old = 1 /\ c = Journal /\ log[c][1].at = 1
  <2> SUFFICES ASSUME NEW c \in Channels
               PROVE  /\ log[c] \in Seq(Records) /\ Len(log[c]) \in 0 .. 1
                      /\ Len(log[c]) = 1 => old = 1 /\ c = Journal /\ log[c][1].at = 1
    OBVIOUS
  <2>1. CASE log[c] = <<>>
    BY <2>1, NoMoments
  <2>2. CASE old = 1 /\ c = Journal /\ log[c] = <<[at |-> 1, level |-> "Error"]>>
    <3>1. PICK r : r = [at |-> 1, level |-> "Error"]
      OBVIOUS
    <3>2. r \in Records /\ r.at = 1 /\ log[c] = <<r>>
      BY <1>4, <2>2, <3>1
    <3>3. log[c] \in Seq(Records) /\ Len(log[c]) = 1 /\ log[c][1] = r
      BY <3>2
    <3> QED
      BY <2>2, <3>2, <3>3
  <2> QED
    BY <1>3, <2>1, <2>2
<1>6. clock \in 0 .. MaxRecords
  BY <1>1
<1>7. LogsTypeOK
  <2>1. log \in [Channels -> Seq(Records)]
    BY <1>1, <1>5
  <2>2. cursor \in [Channels -> Int] /\ savedCursor \in Int
    BY <1>2 DEF NoCursor
  <2>3. buffer \in Seq(Records) /\ Len(buffer) <= BufferCap
    BY <1>2, NoMoments
  <2>4. mishaps \in 0 .. MaxMishaps /\ drained \subseteq Nat /\ due \subseteq Nat /\ awake \in BOOLEAN
    <3>1. MaxMishaps \in Nat
      OBVIOUS
    <3>2. 0 \in 0 .. MaxMishaps
      BY ONLY <3>1
    <3> QED
      BY ONLY <1>2, <3>2
  <2> QED
    BY <1>2, <1>6, <2>1, <2>2, <2>3, <2>4 DEF LogsTypeOK
<1>8. RecordsOnce
  <2>1. ASSUME NEW c \in Channels, NEW i \in 1 .. Len(log[c]) PROVE i = 1 /\ Len(log[c]) = 1
    <3>1. PICK len : len = Len(log[c])
      OBVIOUS
    <3>2. len \in 0 .. 1 /\ i \in 1 .. len
      BY <1>5, <3>1
    <3>3. i = 1 /\ len = 1
      BY ONLY <3>2
    <3> QED
      BY <3>1, <3>3
  <2> QED
    BY <1>1, <1>5, <2>1 DEF RecordsOnce
<1>9. ToldBefore /\ ToldOnce /\ ErrorsKept
  BY <1>2 DEF ToldBefore, ToldOnce, ErrorsKept, Moments
<1>10. OnWindows
  <2>1. \A c \in Channels : cursor[c] = NoCursor
    BY <1>2
  <2>2. NoCursor >= NoCursor /\ Moments(buffer) = {}
    BY <1>2 DEF NoCursor, Moments
  <2> QED
    BY <1>2, <2>1, <2>2 DEF OnWindows
<1>11. OnLinux
  <2>1. cursor[Journal] = -1 /\ savedCursor = -1 /\ Moments(buffer) = {} /\ clock >= -1
    BY <1>1, <1>2, JournalIs DEF NoCursor, Moments
  <2>2. PlaceIn(log[Journal], -1, clock)
    <3>1. \A i \in 1 .. Len(log[Journal]) : log[Journal][i].at >= -1
      BY <1>5, JournalIs
    <3> QED
      BY <2>1, <3>1 DEF PlaceIn
  <2>3. \A c \in Channels \ {Journal} : log[c] = <<>>
    BY <1>3
  <2>4. LastIs(log[Journal], clock)
    <3> SUFFICES ASSUME NEW i \in 1 .. Len(log[Journal]) PROVE log[Journal][i].at = clock
      BY DEF LastIs
    <3>1. PICK len : len = Len(log[Journal])
      OBVIOUS
    <3>2. len \in 0 .. 1 /\ i \in 1 .. len
      BY <1>5, <3>1, JournalIs
    <3>3. i = 1 /\ len = 1
      BY ONLY <3>2
    <3> QED
      BY <1>1, <1>5, <3>1, <3>3, JournalIs
  <2> QED
    BY <1>2, <2>1, <2>2, <2>3, <2>4 DEF OnLinux, NoCursor
<1> QED
  BY <1>7, <1>8, <1>9, <1>10, <1>11 DEF LogsInv

LEMMA WriteKeeps ==
    ASSUME LogsInv, NEW c \in Channels, NEW level \in Levels, Write(c, level) PROVE LogsInv'
<1>1. PICK r, n : r = [at |-> clock + 1, level |-> level] /\ n = Len(log[c])
  OBVIOUS
<1>2. /\ clock < MaxRecords /\ clock' = clock + 1 /\ (platform = "linux" => c = Journal)
      /\ log' = [log EXCEPT ![c] = Append(@, r)]
      /\ UNCHANGED <<platform, cursor, savedCursor, buffer, awake, mishaps, drained>>
  BY <1>1 DEF Write
<1>3. /\ clock \in Nat /\ log \in [Channels -> Seq(Records)] /\ r \in Records /\ r.at = clock + 1 /\ n \in Nat
      /\ clock' \in 0 .. MaxRecords /\ clock' \in Nat
  <2>1. clock \in 0 .. MaxRecords /\ log \in [Channels -> Seq(Records)]
    BY DEF LogsInv, LogsTypeOK
  <2>2. clock \in Nat /\ clock' \in 0 .. MaxRecords /\ clock' \in Nat
    BY <1>2, <2>1
  <2>3. r \in Records /\ r.at = clock + 1
    BY <1>1, <2>2 DEF Records
  <2>4. n \in Nat
    BY <1>1, <2>1
  <2> QED
    BY <2>1, <2>2, <2>3, <2>4
<1>4. /\ log' \in [Channels -> Seq(Records)] /\ Len(log'[c]) = n + 1 /\ log'[c][n + 1] = r
      /\ \A i \in 1 .. n : log'[c][i] = log[c][i] /\ i \in 1 .. Len(log'[c])
      /\ \A d \in Channels : d # c => log'[d] = log[d]
  BY <1>1, <1>2, <1>3
<1>5. \A d \in Channels : \A i \in 1 .. Len(log'[d]) :
        \/ i \in 1 .. Len(log[d]) /\ log'[d][i] = log[d][i] /\ log[d][i].at \in 1 .. clock
        \/ d = c /\ i = n + 1 /\ log'[d][i].at = clock + 1
  <2> TAKE d \in Channels
  <2> TAKE i \in 1 .. Len(log'[d])
  <2>1. \A k \in 1 .. Len(log[d]) : log[d][k].at \in 1 .. clock
    BY Logged
  <2>2. CASE d # c
    BY <1>4, <2>1, <2>2
  <2>3. CASE d = c
    <3>1. i \in 1 .. n \/ i = n + 1
      BY <1>3, <1>4, <2>3
    <3> QED
      BY <1>1, <1>3, <1>4, <2>1, <2>3, <3>1
  <2> QED
    BY <2>2, <2>3
<1>6. LogsTypeOK'
  <2>1. due' \subseteq Nat
    <3>1. due' \subseteq due \cup {clock'} /\ due \subseteq Nat
      BY DEF Write, LogsInv, LogsTypeOK
    <3> QED
      BY <1>3, <3>1
  <2> QED
    BY <1>2, <1>3, <1>4, <2>1 DEF LogsInv, LogsTypeOK
<1>7. RecordsOnce'
  <2>1. \A d \in Channels : \A i \in 1 .. Len(log'[d]) : log'[d][i].at \in 1 .. clock'
    BY <1>2, <1>3, <1>5
  <2>2. \A d \in Channels : \A i, k \in 1 .. Len(log'[d]) : i < k => log'[d][i].at < log'[d][k].at
    <3> SUFFICES ASSUME NEW d \in Channels, NEW i \in 1 .. Len(log'[d]), NEW k \in 1 .. Len(log'[d]), i < k
                 PROVE  log'[d][i].at < log'[d][k].at
      OBVIOUS
    <3>1. ~(d = c /\ i = n + 1)
      BY <1>3, <1>4
    <3>2. i \in 1 .. Len(log[d]) /\ log'[d][i] = log[d][i] /\ log[d][i].at \in 1 .. clock
      BY <1>5, <3>1
    <3>3. CASE k \in 1 .. Len(log[d]) /\ log'[d][k] = log[d][k]
      BY <3>2, <3>3 DEF LogsInv, RecordsOnce
    <3>4. CASE log'[d][k].at = clock + 1
      BY <1>3, <3>2, <3>4
    <3> QED
      BY <1>5, <3>3, <3>4
  <2>3. \A d, e \in Channels : d # e =>
            \A i \in 1 .. Len(log'[d]), k \in 1 .. Len(log'[e]) : log'[d][i].at # log'[e][k].at
    <3> SUFFICES ASSUME NEW d \in Channels, NEW e \in Channels, d # e,
                        NEW i \in 1 .. Len(log'[d]), NEW k \in 1 .. Len(log'[e])
                 PROVE  log'[d][i].at # log'[e][k].at
      OBVIOUS
    <3>1. CASE i \in 1 .. Len(log[d]) /\ log'[d][i] = log[d][i] /\ k \in 1 .. Len(log[e]) /\ log'[e][k] = log[e][k]
      BY <3>1 DEF LogsInv, RecordsOnce
    <3>2. CASE d = c /\ log'[d][i].at = clock + 1
      <4>1. log'[e][k].at \in 1 .. clock
        BY <1>5, <3>2
      <4> QED
        BY <1>3, <3>2, <4>1
    <3>3. CASE e = c /\ log'[e][k].at = clock + 1
      <4>1. log'[d][i].at \in 1 .. clock
        BY <1>5, <3>3
      <4> QED
        BY <1>3, <3>3, <4>1
    <3> QED
      BY <1>5, <3>1, <3>2, <3>3
  <2> QED
    BY <2>1, <2>2, <2>3 DEF RecordsOnce
<1>8. ToldBefore' /\ clock + 1 \notin Moments(buffer) \cup drained
  BY <1>2, <1>3 DEF LogsInv, ToldBefore
<1>9. OnWindows'
  <2> SUFFICES ASSUME platform = "windows", NEW d \in Channels
               PROVE  /\ cursor[d] >= NoCursor
                      /\ \A i \in 1 .. Len(log'[d]) :
                          /\ log'[d][i].at \in Moments(buffer) => cursor[d] # NoCursor /\ i <= cursor[d]
                          /\ log'[d][i].at \in drained /\ cursor[d] # NoCursor => i <= cursor[d]
    BY <1>2 DEF OnWindows
  <2> QED
    BY <1>5, <1>8 DEF LogsInv, OnWindows
<1>10. OnLinux'
  <2> SUFFICES ASSUME platform = "linux" PROVE OnLinux'
    BY <1>2 DEF OnLinux
  <2>1. c = Journal
    BY <1>2
  <2>2. ASSUME NEW at \in Int, PlaceIn(log[Journal], at, clock) PROVE PlaceIn(log'[Journal], at, clock')
    <3>1. at <= clock /\ at <= clock'
      BY <1>2, <1>3, <2>2 DEF PlaceIn
    <3>2. ASSUME NEW i \in 1 .. Len(log'[c])
          PROVE  log'[c][i].at >= at \/ \E k \in 1 .. Len(log'[c]) : log'[c][k].at = at
      <4>1. CASE i \in 1 .. n /\ log'[c][i] = log[c][i]
        <5>1. log[c][i].at >= at \/ \E k \in 1 .. n : log[c][k].at = at
          BY <1>1, <2>1, <2>2, <4>1 DEF PlaceIn
        <5> QED
          BY <1>4, <4>1, <5>1
      <4>2. CASE log'[c][i].at = clock + 1
        BY <1>3, <3>1, <4>2
      <4> QED
        BY <1>1, <1>5, <4>1, <4>2
    <3> QED
      BY <2>1, <3>1, <3>2 DEF PlaceIn
  <2>3. cursor[Journal] \in Int /\ savedCursor \in Int
    BY JournalIs DEF LogsInv, LogsTypeOK
  <2>4. PlaceIn(log[Journal], cursor[Journal], clock) /\ PlaceIn(log[Journal], savedCursor, clock)
    BY DEF LogsInv, OnLinux
  <2>7. PlaceIn(log'[Journal], cursor'[Journal], clock') /\ PlaceIn(log'[Journal], savedCursor', clock')
    BY <1>2, <2>2, <2>3, <2>4
  <2>8. \A d \in Channels \ {Journal} : log'[d] = <<>>
    BY <1>4, <2>1 DEF LogsInv, OnLinux
  <2>9. LastIs(log'[Journal], clock')
    BY <1>2, <1>3, <1>4, <2>1 DEF LastIs
  <2> QED
    BY <1>2, <2>7, <2>8, <2>9 DEF LogsInv, OnLinux
<1>11. ASSUME NEW a \in due' PROVE a \in Moments(buffer') \/ ToReadIn(log', cursor', platform' = "windows", a)
  <2>1. CASE a \in due
    <3>1. CASE a \in Moments(buffer)
      BY <1>2, <3>1
    <3>2. CASE ToReadIn(log, cursor, platform = "windows", a)
      <4>0. PICK d \in Channels : \E i \in 1 .. Len(log[d]) :
                /\ log[d][i].at = a /\ cursor[d] # NoCursor
                /\ IF platform = "windows" THEN i > cursor[d] ELSE a > cursor[d]
        BY <3>2 DEF ToReadIn
      <4>1. PICK i \in 1 .. Len(log[d]) :
                /\ log[d][i].at = a /\ cursor[d] # NoCursor
                /\ IF platform = "windows" THEN i > cursor[d] ELSE a > cursor[d]
        BY <4>0
      <4>2. i \in 1 .. Len(log'[d]) /\ log'[d][i] = log[d][i]
        BY <1>1, <1>4, <4>1
      <4> QED
        BY <1>2, <4>1, <4>2 DEF ToReadIn
    <3> QED
      BY <2>1, <3>1, <3>2, DueIs
  <2>2. CASE a \notin due
    <3>1. /\ a = clock + 1 /\ cursor[c] # NoCursor
          /\ platform = "windows" => Len(log[c]) >= cursor[c]
      BY <1>2, <1>11, <2>2 DEF Write
    <3>2. n + 1 \in 1 .. Len(log'[c]) /\ log'[c][n + 1].at = a
      BY <1>3, <1>4, <3>1
    <3>3. platform = "windows" => n + 1 > cursor[c]
      BY <1>1, <1>3, <3>1 DEF LogsInv, LogsTypeOK
    <3>4. platform # "windows" => a > cursor[c]
      <4>1. platform # "windows" => platform = "linux" /\ c = Journal
        BY <1>2 DEF LogsInv, LogsTypeOK
      <4>2. platform # "windows" => cursor[c] <= clock /\ cursor[c] \in Int
        BY <4>1 DEF LogsInv, LogsTypeOK, OnLinux, PlaceIn
      <4> QED
        BY <1>3, <3>1, <4>2
    <3> QED
      BY <1>2, <3>1, <3>2, <3>3, <3>4 DEF ToReadIn
  <2> QED
    BY <2>1, <2>2
<1>12. Single(buffer') /\ Moments(buffer') \cap drained' = {}
  BY <1>2, Buffered
<1> QED
  BY <1>6, <1>7, <1>8, <1>9, <1>10, <1>11, <1>12, LogsParts

LEMMA ClearKeeps ==
    ASSUME LogsInv, NEW c \in Channels, Clear(c) PROVE LogsInv'
<1>1. PICK s, t : s = log[c] /\ t = IF platform = "windows" THEN <<>> ELSE Tail(s)
  OBVIOUS
<1>2. /\ Mishap /\ s # <<>> /\ log' = [log EXCEPT ![c] = t]
      /\ due' = due \ ((Moments(s) \ Moments(log'[c])) \ Moments(buffer))
      /\ UNCHANGED <<platform, clock, cursor, savedCursor, buffer, awake, drained>>
  BY <1>1 DEF Clear
<1>3. /\ log \in [Channels -> Seq(Records)] /\ s \in Seq(Records) /\ Len(s) \in Nat
      /\ platform \in {"windows", "linux"}
      /\ \A i, k \in 1 .. Len(s) : i < k => s[i].at < s[k].at
      /\ \A i \in 1 .. Len(s) : s[i].at \in 1 .. clock /\ s[i].at \in Nat
  BY <1>1, Logged DEF LogsInv, LogsTypeOK, RecordsOnce
<1>4. /\ t \in Seq(Records) /\ Len(t) \in Nat
      /\ \A i \in 1 .. Len(t) : i + 1 \in 1 .. Len(s) /\ t[i] = s[i + 1]
      /\ platform = "windows" => Len(t) = 0
      /\ platform # "windows" => Len(t) = Len(s) - 1
  <2>1. CASE platform = "windows"
    BY <1>1, <2>1, NoMoments
  <2>2. CASE platform # "windows"
    <3>1. t = Tail(s)
      BY <1>1, <2>2
    <3>2. t \in Seq(Records) /\ Len(t) = Len(s) - 1 /\ \A i \in 1 .. Len(t) : t[i] = s[i + 1]
      BY ONLY <1>2, <1>3, <3>1
    <3> QED
      BY <1>3, <2>2, <3>2
  <2> QED
    BY <2>1, <2>2
<1>5. /\ log' \in [Channels -> Seq(Records)] /\ log'[c] = t
      /\ \A d \in Channels : d # c => log'[d] = log[d]
  BY <1>2, <1>3, <1>4
<1>6. ASSUME NEW d \in Channels, NEW i \in 1 .. Len(log'[d])
      PROVE  \E e \in 0 .. 1 : i + e \in 1 .. Len(log[d]) /\ log'[d][i] = log[d][i + e] /\ (d # c => e = 0) /\ (d = c => e = 1)
  <2>1. CASE d = c
    <3>1. i \in 1 .. Len(t)
      BY <1>5, <2>1
    <3>2. i + 1 \in 1 .. Len(log[d]) /\ log'[d][i] = log[d][i + 1]
      BY <1>1, <1>4, <1>5, <2>1, <3>1
    <3>3. 1 \in 0 .. 1
      OBVIOUS
    <3> QED
      BY <2>1, <3>2, <3>3
  <2>2. CASE d # c
    <3>1. i + 0 = i /\ log'[d] = log[d]
      BY <1>5, <2>2
    <3> QED
      BY <2>2, <3>1
  <2> QED
    BY <2>1, <2>2
<1>7. LogsTypeOK'
  <2>1. mishaps' \in 0 .. MaxMishaps
    <3>1. mishaps < MaxMishaps /\ mishaps' = mishaps + 1 /\ mishaps \in 0 .. MaxMishaps /\ MaxMishaps \in Nat
      BY <1>2 DEF Mishap, LogsInv, LogsTypeOK
    <3> QED
      BY ONLY <3>1
  <2>2. due' \subseteq due
    BY <1>2
  <2> QED
    BY <1>2, <1>5, <2>1, <2>2 DEF LogsInv, LogsTypeOK
<1>8. RecordsOnce'
  <2>1. ASSUME NEW d \in Channels, NEW i \in 1 .. Len(log'[d]) PROVE log'[d][i].at \in 1 .. clock'
    <3>1. PICK e \in 0 .. 1 : i + e \in 1 .. Len(log[d]) /\ log'[d][i] = log[d][i + e]
      BY <1>6
    <3> QED
      BY <1>2, <3>1 DEF LogsInv, RecordsOnce
  <2>2. ASSUME NEW d \in Channels, NEW i \in 1 .. Len(log'[d]), NEW k \in 1 .. Len(log'[d]), i < k
        PROVE  log'[d][i].at < log'[d][k].at
    <3>1. PICK e \in 0 .. 1 : i + e \in 1 .. Len(log[d]) /\ log'[d][i] = log[d][i + e] /\ (d # c => e = 0) /\ (d = c => e = 1)
      BY <1>6
    <3>2. PICK f \in 0 .. 1 : k + f \in 1 .. Len(log[d]) /\ log'[d][k] = log[d][k + f] /\ (d # c => f = 0) /\ (d = c => f = 1)
      BY <1>6
    <3>3. i + e < k + f
      BY <2>2, <3>1, <3>2
    <3> QED
      BY <3>1, <3>2, <3>3 DEF LogsInv, RecordsOnce
  <2>3. ASSUME NEW d \in Channels, NEW b \in Channels, d # b,
               NEW i \in 1 .. Len(log'[d]), NEW k \in 1 .. Len(log'[b])
        PROVE  log'[d][i].at # log'[b][k].at
    <3>1. PICK e \in 0 .. 1 : i + e \in 1 .. Len(log[d]) /\ log'[d][i] = log[d][i + e]
      BY <1>6
    <3>2. PICK f \in 0 .. 1 : k + f \in 1 .. Len(log[b]) /\ log'[b][k] = log[b][k + f]
      BY <1>6
    <3> QED
      BY <2>3, <3>1, <3>2 DEF LogsInv, RecordsOnce
  <2> QED
    BY <2>1, <2>2, <2>3 DEF RecordsOnce
<1>9. ToldBefore'
  BY <1>2 DEF LogsInv, ToldBefore
<1>10. OnWindows'
  <2> SUFFICES ASSUME platform = "windows", NEW d \in Channels
               PROVE  /\ cursor[d] >= NoCursor
                      /\ \A i \in 1 .. Len(log'[d]) :
                          /\ log'[d][i].at \in Moments(buffer) => cursor[d] # NoCursor /\ i <= cursor[d]
                          /\ log'[d][i].at \in drained /\ cursor[d] # NoCursor => i <= cursor[d]
    BY <1>2 DEF OnWindows
  <2>1. cursor[d] >= NoCursor
    BY DEF LogsInv, OnWindows
  <2>2. CASE d = c
    BY <1>4, <1>5, <2>1, <2>2
  <2>3. CASE d # c
    BY <1>5, <2>3 DEF LogsInv, OnWindows
  <2> QED
    BY <2>2, <2>3
<1>11. platform = "linux" => c = Journal
  BY <1>1, <1>2 DEF LogsInv, OnLinux
<1>12. OnLinux'
  <2> SUFFICES ASSUME platform = "linux" PROVE OnLinux'
    BY <1>2 DEF OnLinux
  <2>1. ASSUME NEW at \in Int, PlaceIn(log[Journal], at, clock) PROVE PlaceIn(log'[Journal], at, clock')
    <3>1. ASSUME NEW i \in 1 .. Len(t) PROVE t[i].at >= at \/ \E k \in 1 .. Len(t) : t[k].at = at
      <4>1. i + 1 \in 1 .. Len(s) /\ t[i] = s[i + 1] /\ s[i + 1].at \in Nat
        BY <1>3, <1>4
      <4>2. s[i + 1].at >= at \/ \E k \in 1 .. Len(s) : s[k].at = at
        BY <1>1, <1>11, <2>1, <4>1 DEF PlaceIn
      <4>3. ASSUME NEW k \in 1 .. Len(s), s[k].at = at
            PROVE  t[i].at >= at \/ \E m \in 1 .. Len(t) : t[m].at = at
        <5>1. CASE k = 1
          <6>1. k < i + 1
            BY <5>1
          <6>2. s[k].at < s[i + 1].at
            BY <1>3, <4>1, <6>1
          <6> QED
            BY <2>1, <4>1, <4>3, <6>2
        <5>2. CASE k # 1
          <6>1. k - 1 \in 1 .. Len(t) /\ (k - 1) + 1 = k
            BY <1>3, <1>4, <5>2
          <6> QED
            BY <1>4, <4>3, <6>1
        <5> QED
          BY <5>1, <5>2
      <4> QED
        BY <4>1, <4>2, <4>3
    <3> QED
      BY <1>2, <1>5, <1>11, <2>1, <3>1 DEF PlaceIn
  <2>2. cursor[Journal] \in Int /\ savedCursor \in Int
    BY JournalIs DEF LogsInv, LogsTypeOK
  <2>3. PlaceIn(log[Journal], cursor[Journal], clock) /\ PlaceIn(log[Journal], savedCursor, clock)
    BY DEF LogsInv, OnLinux
  <2>4. PlaceIn(log'[Journal], cursor'[Journal], clock') /\ PlaceIn(log'[Journal], savedCursor', clock')
    BY <1>2, <2>1, <2>2, <2>3
  <2>5. \A d \in Channels \ {Journal} : log'[d] = <<>>
    BY <1>5, <1>11 DEF LogsInv, OnLinux
  <2>6. LastIs(log'[Journal], clock')
    <3> SUFFICES ASSUME NEW i \in 1 .. Len(t), i = Len(t) PROVE t[i].at = clock
      BY <1>2, <1>5, <1>11 DEF LastIs
    <3>1. i + 1 \in 1 .. Len(s) /\ i + 1 = Len(s) /\ t[i] = s[i + 1]
      BY <1>3, <1>4
    <3> QED
      BY <1>1, <1>11, <3>1 DEF LogsInv, OnLinux, LastIs
  <2> QED
    BY <1>2, <2>4, <2>5, <2>6 DEF LogsInv, OnLinux
<1>13. ASSUME NEW a \in due' PROVE a \in Moments(buffer') \/ ToReadIn(log', cursor', platform' = "windows", a)
  <2> SUFFICES ASSUME a \notin Moments(buffer) PROVE ToReadIn(log', cursor', platform' = "windows", a)
    BY <1>2
  <2>1. a \in due /\ (a \in Moments(s) => a \in Moments(t))
    BY <1>2, <1>5, <1>13
  <2>2. PICK d \in Channels : \E i \in 1 .. Len(log[d]) :
            /\ log[d][i].at = a /\ cursor[d] # NoCursor
            /\ IF platform = "windows" THEN i > cursor[d] ELSE a > cursor[d]
    BY <2>1, DueIs DEF ToReadIn
  <2>3. PICK i \in 1 .. Len(log[d]) :
            /\ log[d][i].at = a /\ cursor[d] # NoCursor
            /\ IF platform = "windows" THEN i > cursor[d] ELSE a > cursor[d]
    BY <2>2
  <2>4. CASE d # c
    BY <1>2, <1>5, <2>3, <2>4 DEF ToReadIn
  <2>5. CASE d = c
    <3>1. a \in Moments(t)
      BY <1>1, <1>3, <2>1, <2>3, <2>5, InMoments
    <3>2. PICK k \in 1 .. Len(t) : t[k].at = a
      BY <1>4, <3>1, InMoments
    <3>3. platform # "windows"
      BY <1>4, <3>2
    <3> QED
      BY <1>2, <1>5, <2>3, <2>5, <3>2, <3>3 DEF ToReadIn
  <2> QED
    BY <2>4, <2>5
<1>14. Single(buffer') /\ Moments(buffer') \cap drained' = {}
  BY <1>2, Buffered
<1> QED
  BY <1>7, <1>8, <1>9, <1>10, <1>12, <1>13, <1>14, LogsParts

LEMMA DrainLogKeeps ==
    ASSUME LogsInv, DrainLog PROVE LogsInv'
<1>1. /\ drained' = drained \cup Moments(buffer) /\ due' = due \ Moments(buffer)
      /\ buffer' = <<>> /\ awake' = FALSE
      /\ UNCHANGED <<platform, log, clock, cursor, savedCursor, mishaps>>
  BY DEF DrainLog
<1>2. Single(buffer') /\ Moments(buffer') = {} /\ buffer' \in Seq(Records) /\ Len(buffer') = 0
  BY <1>1, NoMoments
<1>3. Moments(buffer) \subseteq Nat
  BY MomentsAre DEF LogsInv, LogsTypeOK
<1>4. LogsTypeOK'
  <2>1. Len(buffer') <= BufferCap
    BY <1>2
  <2> QED
    BY <1>1, <1>2, <1>3, <2>1 DEF LogsInv, LogsTypeOK
<1>5. RecordsOnce' /\ ToldBefore' /\ OnWindows' /\ OnLinux'
  <2>1. RecordsOnce' /\ ToldBefore'
    BY <1>1, <1>2 DEF LogsInv, RecordsOnce, ToldBefore
  <2>2. OnWindows'
    BY <1>1, <1>2 DEF LogsInv, OnWindows
  <2>3. OnLinux'
    BY <1>1, <1>2 DEF LogsInv, OnLinux
  <2> QED
    BY <2>1, <2>2, <2>3
<1>6. ASSUME NEW a \in due' PROVE a \in Moments(buffer') \/ ToReadIn(log', cursor', platform' = "windows", a)
  BY <1>1, <1>6, DueIs
<1> QED
  BY <1>2, <1>4, <1>5, <1>6, LogsParts

LEMMA LogsRestartKeeps ==
    ASSUME LogsInv, Restart PROVE LogsInv'
<1>1. PICK told : told = drained \cup Moments(buffer)
  OBVIOUS
<1>2. /\ Mishap /\ buffer' = <<>> /\ awake' = FALSE
      /\ cursor' = [c \in Channels |-> IF platform = "linux" /\ c = Journal THEN savedCursor ELSE NoCursor]
      /\ drained' = IF platform = "linux" /\ savedCursor # NoCursor
                    THEN {a \in told : a <= savedCursor} ELSE told
      /\ due' = IF platform = "linux" /\ savedCursor # NoCursor THEN due \ Moments(buffer) ELSE {}
      /\ UNCHANGED <<platform, log, clock, savedCursor>>
  BY <1>1 DEF Restart
<1>3. Single(buffer') /\ Moments(buffer') = {} /\ buffer' \in Seq(Records) /\ Len(buffer') = 0
  BY <1>2, NoMoments
<1>4. Moments(buffer) \subseteq Nat /\ savedCursor \in Int
  BY MomentsAre DEF LogsInv, LogsTypeOK
<1>5. LogsTypeOK'
  <2>1. mishaps' \in 0 .. MaxMishaps
    <3>1. mishaps < MaxMishaps /\ mishaps' = mishaps + 1 /\ mishaps \in 0 .. MaxMishaps /\ MaxMishaps \in Nat
      BY <1>2 DEF Mishap, LogsInv, LogsTypeOK
    <3> QED
      BY ONLY <3>1
  <2>2. cursor' \in [Channels -> Int]
    BY <1>2, <1>4 DEF NoCursor
  <2>3. drained' \subseteq Nat /\ due' \subseteq Nat
    BY <1>1, <1>2, <1>4 DEF LogsInv, LogsTypeOK
  <2>4. Len(buffer') <= BufferCap
    BY <1>3
  <2> QED
    BY <1>2, <1>3, <2>1, <2>2, <2>3, <2>4 DEF LogsInv, LogsTypeOK
<1>6. RecordsOnce' /\ ToldBefore'
  BY <1>1, <1>2, <1>3 DEF LogsInv, RecordsOnce, ToldBefore
<1>7. OnWindows'
  <2> SUFFICES ASSUME platform = "windows" PROVE OnWindows'
    BY <1>2 DEF OnWindows
  <2>1. \A c \in Channels : cursor'[c] = NoCursor
    BY <1>2
  <2>2. NoCursor >= NoCursor
    BY DEF NoCursor
  <2> QED
    BY <1>3, <2>1, <2>2 DEF OnWindows
<1>8. OnLinux'
  <2> SUFFICES ASSUME platform = "linux" PROVE OnLinux'
    BY <1>2 DEF OnLinux
  <2>1. cursor'[Journal] = savedCursor
    BY <1>2, JournalIs
  <2>2. savedCursor <= savedCursor /\ (savedCursor # NoCursor => \A a \in drained' : a <= savedCursor)
    BY <1>2, <1>4
  <2> QED
    BY <1>2, <1>3, <2>1, <2>2 DEF LogsInv, OnLinux
<1>9. ASSUME NEW a \in due' PROVE a \in Moments(buffer') \/ ToReadIn(log', cursor', platform' = "windows", a)
  <2>1. platform = "linux" /\ savedCursor # NoCursor /\ a \in due /\ a \notin Moments(buffer)
    BY <1>2, <1>9
  <2>2. PICK d \in Channels : \E i \in 1 .. Len(log[d]) :
            /\ log[d][i].at = a /\ cursor[d] # NoCursor
            /\ IF platform = "windows" THEN i > cursor[d] ELSE a > cursor[d]
    BY <2>1, DueIs DEF ToReadIn
  <2>3. PICK i \in 1 .. Len(log[d]) : log[d][i].at = a /\ a > cursor[d]
    BY <2>1, <2>2
  <2>4. d = Journal
    <3>1. d # Journal => log[d] = <<>>
      BY <2>1 DEF LogsInv, OnLinux
    <3> QED
      BY <2>3, <3>1, NoMoments
  <2>5. savedCursor <= cursor[Journal] /\ cursor[Journal] \in Int /\ a \in Nat
    BY <2>1, JournalIs DEF LogsInv, OnLinux, LogsTypeOK
  <2>6. cursor'[Journal] = savedCursor /\ a > savedCursor
    BY <1>2, <1>4, <2>1, <2>3, <2>4, <2>5, JournalIs
  <2>7. platform' # "windows" /\ log'[d][i].at = a /\ i \in 1 .. Len(log'[d])
    BY <1>2, <2>1, <2>3
  <2> QED
    BY <2>1, <2>4, <2>6, <2>7 DEF ToReadIn
<1> QED
  BY <1>3, <1>5, <1>6, <1>7, <1>8, <1>9, LogsParts

(* A poll of the journal: what it reads lies after the cursor, and between *)
(* the old cursor and the new one nothing is left behind but by a limit.   *)
LEMMA PollJournalKeeps ==
    ASSUME LogsInv, PollJournal PROVE LogsInv'
<1>1. PICK at, j : at = cursor[Journal] /\ j = log[Journal]
  OBVIOUS
<1>2. PICK lines : lines = IF at = NoCursor THEN <<>> ELSE After(at)
  OBVIOUS
<1>3. PICK fails \in BOOLEAN :
        LET reseed == at = NoCursor \/ fails \/ CursorStale(lines)
            next   == IF reseed THEN j ELSE lines
            new    == IF next = <<>> THEN at ELSE next[Len(next)].at
            fresh  == IF reseed THEN <<>> ELSE DistinctLines(lines)
            passed == IF fails \/ Cardinality(NotYetRead) >= LineCap THEN NotYetRead ELSE LeftOut(lines)
        IN  /\ reseed => j # <<>>
            /\ cursor' = [cursor EXCEPT ![Journal] = new]
            /\ savedCursor' \in IF new = at THEN {savedCursor} ELSE {new, savedCursor, NoCursor}
            /\ IF fails \/ (new # at /\ savedCursor' # new) THEN Mishap ELSE mishaps' = mishaps
            /\ Deliver(fresh)
            /\ due' = due \ (passed \cup Crowded(fresh))
  BY <1>1, <1>2 DEF PollJournal
<1>4. PICK reseed \in BOOLEAN : reseed <=> at = NoCursor \/ fails \/ CursorStale(lines)
  OBVIOUS
<1>5. PICK new, passed :
        /\ new = IF reseed THEN IF j = <<>> THEN at ELSE j[Len(j)].at
                 ELSE IF lines = <<>> THEN at ELSE lines[Len(lines)].at
        /\ passed = IF fails \/ Cardinality(NotYetRead) >= LineCap THEN NotYetRead ELSE LeftOut(lines)
  OBVIOUS
<1>6. PICK fresh : fresh = IF reseed THEN <<>> ELSE DistinctLines(lines)
  OBVIOUS
<1>7. /\ mishaps' = mishaps \/ Mishap
      /\ reseed => j # <<>>
      /\ cursor' = [cursor EXCEPT ![Journal] = new]
      /\ savedCursor' \in {new, savedCursor, NoCursor}
      /\ Deliver(fresh)
      /\ due' = due \ (passed \cup Crowded(fresh))
      /\ UNCHANGED <<platform, log, clock, drained>> /\ platform = "linux"
  <2>1. /\ platform = "linux" /\ UNCHANGED <<platform, log, clock, drained>>
    BY DEF PollJournal
  <2>2. CASE reseed
    BY <1>3, <1>4, <1>5, <1>6, <2>1, <2>2
  <2>3. CASE ~reseed
    BY <1>3, <1>4, <1>5, <1>6, <2>1, <2>3
  <2> QED
    BY <2>2, <2>3
<1>8. /\ j \in Seq(Records) /\ Single(j) /\ Len(j) \in Nat /\ at \in Int /\ savedCursor \in Int /\ clock \in Nat
      /\ cursor \in [Channels -> Int]
      /\ \A i \in 1 .. Len(j) : j[i].at \in Nat /\ j[i].at \in 1 .. clock
      /\ \A i, k \in 1 .. Len(j) : i < k => j[i].at < j[k].at
  BY <1>1, JournalIs, Logged DEF LogsInv, LogsTypeOK, RecordsOnce
<1>9. /\ PlaceIn(j, at, clock) /\ PlaceIn(j, savedCursor, clock)
      /\ NoCursor <= savedCursor /\ savedCursor <= at /\ LastIs(j, clock)
      /\ \A a \in Moments(buffer) : a <= at
      /\ at # NoCursor => \A a \in drained : a <= at
      /\ drained \subseteq 1 .. clock
      /\ \A c \in Channels \ {Journal} : log[c] = <<>>
  BY <1>1, <1>7 DEF LogsInv, OnLinux, ToldBefore
<1>10. \A a : a \in Moments(j) <=> \E i \in 1 .. Len(j) : j[i].at = a
  BY <1>8, InMoments
<1>11. ASSUME ~reseed
       PROVE  /\ lines \in Seq(Records) /\ Single(lines) /\ Len(lines) \in Nat
              /\ \A a \in Moments(lines) : a > at /\ a \in Moments(j) /\ lines # <<>>
              /\ \A k \in 1 .. Len(j) : j[k].at > at => j[k].at \in Moments(lines)
              /\ lines # <<>> => j # <<>> /\ lines[Len(lines)] = j[Len(j)]
  <2>1. lines = After(at) /\ ~(Len(lines) >= LineCap)
    BY <1>2, <1>4, <1>11 DEF CursorStale
  <2>2. AreAfter(lines, j, at)
    BY <1>1, <1>7, <2>1, AfterIs
  <2>3. PICK d \in 0 .. Len(j) :
              /\ lines \in Seq(Records) /\ Len(lines) = Len(j) - d
              /\ \A i \in 1 .. Len(lines) : i + d \in 1 .. Len(j) /\ lines[i] = j[i + d]
              /\ \A k \in 1 .. Len(j) : k > d =>
                    j[k].at > at /\ k - d \in 1 .. Len(lines) /\ lines[k - d] = j[k]
              /\ \A k \in 1 .. Len(j) : j[k].at > at => k > d
    BY <2>1, <2>2 DEF AreAfter
  <2>4. d \in Nat /\ Len(lines) \in Nat
    BY <1>8, <2>3
  <2>5. Single(lines)
    <3> SUFFICES ASSUME NEW i \in 1 .. Len(lines), NEW k \in 1 .. Len(lines), lines[i].at = lines[k].at PROVE i = k
      BY DEF Single
    <3>1. i + d \in 1 .. Len(j) /\ k + d \in 1 .. Len(j) /\ j[i + d].at = j[k + d].at
      BY <2>3
    <3>2. i + d = k + d
      <4>1. Single(j)
        BY <1>8
      <4> QED
        BY ONLY <3>1, <4>1 DEF Single
    <3> QED
      BY <2>4, <3>2
  <2>6. ASSUME NEW a \in Moments(lines) PROVE a > at /\ a \in Moments(j) /\ lines # <<>>
    <3>1. PICK i \in 1 .. Len(lines) : lines[i].at = a
      BY <2>3, InMoments
    <3>2. i + d \in 1 .. Len(j) /\ i + d > d /\ j[i + d].at = a
      BY <2>3, <2>4, <3>1
    <3>3. lines # <<>>
      BY <3>1
    <3> QED
      BY <1>10, <2>3, <3>2, <3>3
  <2>7. ASSUME NEW k \in 1 .. Len(j), j[k].at > at PROVE j[k].at \in Moments(lines)
    <3>1. k - d \in 1 .. Len(lines) /\ lines[k - d] = j[k]
      BY <2>3, <2>7
    <3> QED
      BY <2>3, <3>1, InMoments
  <2>8. ASSUME lines # <<>> PROVE j # <<>> /\ lines[Len(lines)] = j[Len(j)]
    <3>1. Len(lines) \in 1 .. Len(lines)
      BY <2>3, <2>4, <2>8
    <3>2. Len(lines) + d = Len(j)
      BY <1>8, <2>3, <2>4
    <3> QED
      BY <2>3, <3>1, <3>2
  <2> QED
    BY <2>3, <2>4, <2>5, <2>6, <2>7, <2>8
<1>12. /\ new \in Int /\ new >= at /\ PlaceIn(j, new, clock)
       /\ \A i \in 1 .. Len(j) : reseed \/ lines # <<>> => j[i].at <= new
  <2>1. CASE j # <<>> /\ new = j[Len(j)].at
    <3>1. PICK m : m = Len(j)
      OBVIOUS
    <3>2. m \in 1 .. m /\ m \in Nat /\ new \in Nat /\ new \in 1 .. clock /\ new = j[m].at
      BY <1>8, <2>1, <3>1
    <3>3. \A i \in 1 .. m : j[i].at <= new /\ j[i].at \in Nat
      <4> SUFFICES ASSUME NEW i \in 1 .. m PROVE j[i].at <= new /\ j[i].at \in Nat
        OBVIOUS
      <4>1. i < m \/ i = m
        BY <3>2
      <4>2. i < m => j[i].at < j[m].at
        BY <1>8, <3>1, <3>2
      <4>3. j[i].at \in Nat
        BY <1>8, <3>1
      <4> QED
        BY <3>2, <4>1, <4>2, <4>3
    <3>4. new >= at
      <4>1. j[m].at >= at \/ \E k \in 1 .. m : j[k].at = at
        BY <1>9, <3>1, <3>2 DEF PlaceIn
      <4> QED
        BY <3>2, <3>3, <4>1
    <3>5. PlaceIn(j, new, clock)
      BY <3>1, <3>2 DEF PlaceIn
    <3> QED
      BY <3>1, <3>2, <3>3, <3>4, <3>5
  <2>2. CASE ~reseed /\ lines = <<>> /\ new = at
    BY <1>8, <1>9, <2>2
  <2> QED
    BY <1>5, <1>7, <1>11, <2>1, <2>2
<1>13. /\ fresh \in Seq(Records) /\ Single(fresh) /\ Len(fresh) \in Nat
       /\ \A a \in Moments(fresh) : ~reseed /\ a \in Moments(lines)
       /\ ~reseed => \A a \in Moments(lines) : a \notin LeftOut(lines) => a \in Moments(fresh)
  <2>1. CASE reseed
    BY <1>6, <2>1, NoMoments
  <2>2. CASE ~reseed
    <3>1. fresh = DistinctLines(lines) /\ lines \in Seq(Records) /\ Single(lines)
      BY <1>6, <1>11, <2>2
    <3> QED
      BY <2>2, <3>1, DistinctIs
  <2> QED
    BY <2>1, <2>2
<1>14. \A a \in Moments(fresh) : a > at /\ a <= new /\ a \in 1 .. clock
  <2> SUFFICES ASSUME NEW a \in Moments(fresh) PROVE a > at /\ a <= new /\ a \in 1 .. clock
    OBVIOUS
  <2>1. ~reseed /\ a > at /\ lines # <<>> /\ a \in Moments(j)
    BY <1>11, <1>13
  <2>2. PICK i \in 1 .. Len(j) : j[i].at = a
    BY <1>10, <2>1
  <2> QED
    BY <1>8, <1>12, <2>1, <2>2
<1>15. Moments(buffer) \subseteq Nat /\ drained \subseteq Nat
  BY MomentsAre DEF LogsInv, LogsTypeOK
<1>16. Moments(fresh) \cap Moments(buffer) = {} /\ Moments(fresh) \cap drained = {}
  <2> SUFFICES ASSUME NEW a \in Moments(fresh), a \in Moments(buffer) \cup drained PROVE FALSE
    OBVIOUS
  <2>0. at # NoCursor
    BY <1>4, <1>13
  <2>1. a <= at /\ a > at /\ a \in Nat
    BY <1>9, <1>14, <1>15, <2>0
  <2> QED
    BY <1>8, <2>1
<1>17. buffer' = BufferedWith(fresh) /\ awake' \in BOOLEAN
  BY <1>7 DEF Deliver, LogsInv, LogsTypeOK
<1>18. /\ buffer' \in Seq(Records) /\ Len(buffer') <= BufferCap /\ Single(buffer')
       /\ Moments(buffer') \subseteq Moments(buffer) \cup Moments(fresh)
       /\ \A a \in Moments(buffer) \cup Moments(fresh) : a \notin Crowded(fresh) => a \in Moments(buffer')
  BY <1>13, <1>16, <1>17, BufferedIs
<1>20. LogsTypeOK'
  <2>1. mishaps' \in 0 .. MaxMishaps
    <3>1. mishaps' = mishaps \/ (mishaps < MaxMishaps /\ mishaps' = mishaps + 1)
      BY <1>7 DEF Mishap
    <3>2. mishaps \in 0 .. MaxMishaps /\ MaxMishaps \in Nat
      BY DEF LogsInv, LogsTypeOK
    <3> QED
      BY ONLY <3>1, <3>2
  <2>2. cursor' \in [Channels -> Int] /\ savedCursor' \in Int
    <3>1. cursor' = [cursor EXCEPT ![Journal] = new] /\ cursor \in [Channels -> Int]
      BY <1>7, <1>8
    <3>2. savedCursor' \in {new, savedCursor, NoCursor} /\ savedCursor \in Int
      BY <1>7, <1>8
    <3>3. NoCursor \in Int /\ new \in Int
      BY <1>12 DEF NoCursor
    <3>4. cursor' \in [Channels -> Int]
      BY ONLY <3>1, <3>3
    <3> QED
      BY ONLY <3>2, <3>3, <3>4
  <2>3. due' \subseteq due
    BY <1>7
  <2> QED
    BY <1>7, <1>17, <1>18, <2>1, <2>2, <2>3 DEF LogsInv, LogsTypeOK
<1>21. RecordsOnce' /\ ToldBefore' /\ OnWindows'
  BY <1>7, <1>14, <1>18 DEF LogsInv, RecordsOnce, ToldBefore, OnWindows
<1>22. cursor'[Journal] = new
  BY <1>7, <1>8, JournalIs
<1>23. OnLinux'
  <2>1. savedCursor' = new \/ savedCursor' = savedCursor \/ savedCursor' = -1
    BY <1>7 DEF NoCursor
  <2>2. NoCursor <= savedCursor' /\ savedCursor' <= new
    BY <1>8, <1>9, <1>12, <2>1 DEF NoCursor
  <2>3. PlaceIn(j, -1, clock)
    BY <1>8 DEF PlaceIn
  <2>4. PlaceIn(log'[Journal], cursor'[Journal], clock') /\ PlaceIn(log'[Journal], savedCursor', clock')
    BY <1>1, <1>7, <1>9, <1>12, <1>22, <2>1, <2>3
  <2>5. ASSUME NEW a \in Moments(buffer') PROVE a <= new
    <3>1. CASE a \in Moments(fresh)
      BY <1>14, <3>1
    <3>2. CASE a \in Moments(buffer)
      <4>1. a \in Nat /\ a <= at
        BY <1>9, <1>15, <3>2
      <4> QED
        BY ONLY <1>8, <1>12, <4>1
    <3> QED
      BY <1>18, <2>5, <3>1, <3>2
  <2>6. ASSUME NEW a \in drained PROVE a <= new
    <3>1. CASE at = NoCursor
      <4>1. reseed /\ j # <<>>
        BY <1>4, <1>7, <3>1
      <4>2. new = j[Len(j)].at /\ Len(j) \in 1 .. Len(j)
        BY <1>5, <1>8, <4>1
      <4>3. new = clock
        BY <1>9, <4>2 DEF LastIs
      <4> QED
        BY <1>8, <1>9, <2>6, <4>3
    <3>2. CASE at # NoCursor
      <4>1. a \in Nat /\ a <= at
        BY <1>9, <1>15, <2>6, <3>2
      <4> QED
        BY ONLY <1>8, <1>12, <4>1
    <3> QED
      BY <3>1, <3>2
  <2>7. LastIs(log'[Journal], clock')
    BY <1>1, <1>7, <1>9
  <2> QED
    BY <1>7, <1>9, <1>22, <2>2, <2>4, <2>5, <2>6, <2>7 DEF OnLinux
<1>24. ASSUME NEW a \in due' PROVE a \in Moments(buffer') \/ ToReadIn(log', cursor', platform' = "windows", a)
  <2> SUFFICES ASSUME a \notin Moments(buffer') PROVE FALSE
    OBVIOUS
  <2>1. a \in due /\ a \notin passed /\ a \notin Crowded(fresh)
    BY <1>7, <1>24
  <2>2. a \notin Moments(buffer) /\ a \notin Moments(fresh)
    BY <1>18, <2>1
  <2>3. ToReadIn(log, cursor, platform = "windows", a)
    BY <2>1, <2>2, DueIs
  <2>4. PICK d \in Channels : \E i \in 1 .. Len(log[d]) : log[d][i].at = a /\ cursor[d] # NoCursor /\ a > cursor[d]
    BY <1>7, <2>3 DEF ToReadIn
  <2>5. PICK i \in 1 .. Len(log[d]) : log[d][i].at = a /\ cursor[d] # NoCursor /\ a > cursor[d]
    BY <2>4
  <2>6. d = Journal
    <3>1. d # Journal => log[d] = <<>>
      BY <1>9
    <3> QED
      BY <2>5, <3>1, NoMoments
  <2>7. i \in 1 .. Len(j) /\ j[i].at = a /\ a > at /\ at # NoCursor
    BY <1>1, <2>5, <2>6
  <2>8. a \in NotYetRead
    <3>1. i \in DOMAIN j
      BY <1>8, <2>7
    <3> QED
      BY <1>1, <2>7, <3>1 DEF NotYetRead
  <2>9. ~fails /\ ~(Cardinality(NotYetRead) >= LineCap) /\ passed = LeftOut(lines)
    BY <1>5, <2>1, <2>8
  <2>10. ~CursorStale(lines)
    <3> SUFFICES ASSUME Len(lines) >= LineCap PROVE FALSE
      BY DEF CursorStale
    <3>1. lines = After(cursor[Journal])
      BY <1>1, <1>2, <2>7
    <3> QED
      BY <1>7, <2>9, <3>1, ManyUnread
  <2>11. ~reseed
    BY <1>4, <2>7, <2>9, <2>10
  <2>12. a \in Moments(lines)
    BY <1>11, <2>7, <2>11
  <2> QED
    BY <1>13, <2>1, <2>2, <2>9, <2>11, <2>12
<1>25. Moments(buffer') \cap drained' = {}
  BY <1>7, <1>16, <1>18, Buffered
<1> QED
  BY <1>18, <1>20, <1>21, <1>23, <1>24, <1>25, LogsParts

(* A poll of Windows: every channel yields records after its cursor, and   *)
(* no record of one is a record of another.                                *)
LEMMA PollWindowsKeeps ==
    ASSUME LogsInv, PollWindows PROVE LogsInv'
<1>1. PICK opened \in SUBSET Channels, reach \in [Channels -> 0 .. MaxRecords] :
        /\ \A c \in Channels : reach[c] <= Len(log[c]) /\ (c \notin opened => reach[c] = 0)
        /\ IF \A c \in Channels : c \in opened /\ reach[c] = Len(log[c])
           THEN mishaps' = mishaps ELSE Mishap
        /\ LET gathered == FlattenSeq([k \in DOMAIN ChannelOrder |->
                            IF ChannelOrder[k] \in opened
                            THEN Yield(ChannelOrder[k], reach[ChannelOrder[k]]) ELSE <<>>])
               next  == [c \in Channels |-> IF c \in opened THEN NextCursor(c, reach[c]) ELSE cursor[c]]
               blind == {c \in opened : Prime(c) /\ reach[c] = 0}
           IN  /\ cursor' = next
               /\ Deliver(Reverse(gathered))
               /\ due' = due \ (Crowded(Reverse(gathered)) \cup UNION {Skipped(c, reach[c]) : c \in Channels})
               /\ drained' = drained \ UNION {Moments(log[c]) : c \in blind}
  BY DEF PollWindows
<1>2. platform = "windows" /\ UNCHANGED <<platform, log, clock, savedCursor>>
  BY DEF PollWindows
<1>3. PICK ss : ss = [k \in DOMAIN ChannelOrder |->
                        IF ChannelOrder[k] \in opened
                        THEN Yield(ChannelOrder[k], reach[ChannelOrder[k]]) ELSE <<>>]
  OBVIOUS
<1>4. PICK gathered, next, blind :
        /\ gathered = FlattenSeq(ss)
        /\ next = [c \in Channels |-> IF c \in opened THEN NextCursor(c, reach[c]) ELSE cursor[c]]
        /\ blind = {c \in opened : Prime(c) /\ reach[c] = 0}
  OBVIOUS
<1>5. PICK passed : passed = UNION {Skipped(c, reach[c]) : c \in Channels}
  OBVIOUS
<1>6. /\ cursor' = next /\ Deliver(Reverse(gathered))
      /\ due' = due \ (Crowded(Reverse(gathered)) \cup passed)
      /\ drained' = drained \ UNION {Moments(log[c]) : c \in blind}
  BY <1>1, <1>3, <1>4, <1>5
<1>7. ASSUME NEW c \in Channels
      PROVE  /\ cursor[c] \in Int /\ cursor[c] >= -1 /\ reach[c] \in Nat /\ reach[c] \in 0 .. Len(log[c])
             /\ Len(log[c]) \in Nat /\ DOMAIN log[c] = 1 .. Len(log[c])
             /\ c \notin opened => next[c] = cursor[c]
             /\ c \in opened /\ reach[c] = 0 => next[c] = IF cursor[c] = -1 THEN 0 ELSE cursor[c]
             /\ c \in opened /\ reach[c] # 0 => next[c] = Len(log[c])
             /\ next[c] \in Int /\ next[c] >= -1
  <2>1. cursor[c] \in Int /\ cursor[c] >= -1
    BY <1>2 DEF LogsInv, LogsTypeOK, OnWindows, NoCursor
  <2>2. log[c] \in Seq(Records) /\ Len(log[c]) \in Nat /\ DOMAIN log[c] = 1 .. Len(log[c])
    BY DEF LogsInv, LogsTypeOK
  <2>3. reach[c] \in 0 .. MaxRecords /\ reach[c] <= Len(log[c])
    BY <1>1
  <2>4. reach[c] \in Nat /\ reach[c] \in 0 .. Len(log[c])
    BY <2>2, <2>3
  <2>5. next[c] = IF c \in opened THEN NextCursor(c, reach[c]) ELSE cursor[c]
    BY <1>4
  <2>6. NextCursor(c, reach[c]) = IF reach[c] = 0 THEN IF cursor[c] = -1 THEN 0 ELSE cursor[c] ELSE Len(log[c])
    BY DEF NextCursor, Known, NoCursor
  <2> QED
    BY <2>1, <2>2, <2>4, <2>5, <2>6
<1>8. PICK n : n = Len(ChannelOrder)
  OBVIOUS
<1>9. /\ n \in Nat \ {0} /\ DOMAIN ChannelOrder = 1 .. n
      /\ \A k \in 1 .. n : ChannelOrder[k] \in Channels
      /\ \A c \in Channels : \E k \in 1 .. n : ChannelOrder[k] = c
      /\ \A i, k \in 1 .. n : ChannelOrder[i] = ChannelOrder[k] => i = k
  <2>1. ChannelOrder \in Seq(Range(ChannelOrder)) /\ ChannelOrder # <<>>
    OBVIOUS
  <2>2. n \in Nat \ {0} /\ DOMAIN ChannelOrder = 1 .. n
    BY ONLY <1>8, <2>1
  <2> QED
    BY <2>2 DEF Channels, Range
<1>10. ASSUME NEW c \in Channels, c \in opened
       PROVE  /\ Yield(c, reach[c]) \in Seq(Records) /\ Single(Yield(c, reach[c]))
              /\ Moments(Yield(c, reach[c])) \subseteq Moments(log[c])
              /\ \A a \in Moments(Yield(c, reach[c])) :
                    cursor[c] # NoCursor /\ reach[c] # 0 /\ \E i \in 1 .. Len(log[c]) : log[c][i].at = a /\ i > cursor[c]
              /\ \A i \in 1 .. Len(log[c]) :
                    cursor[c] # NoCursor /\ i > cursor[c] /\ ~WasReset(c) /\ reach[c] # 0
                    /\ log[c][i].at \notin Skipped(c, reach[c])
                    => log[c][i].at \in Moments(Yield(c, reach[c]))
  <2>1. reach[c] \in 0 .. Len(log[c])
    BY <1>7
  <2> QED
    BY <1>2, <2>1, YieldIs
<1>11. ASSUME NEW k \in 1 .. n
       PROVE  /\ ss[k] \in Seq(Records) /\ Single(ss[k]) /\ Moments(ss[k]) \subseteq Moments(log[ChannelOrder[k]])
              /\ ChannelOrder[k] \in opened => ss[k] = Yield(ChannelOrder[k], reach[ChannelOrder[k]])
              /\ ChannelOrder[k] \notin opened => Moments(ss[k]) = {}
  <2>1. ss[k] = IF ChannelOrder[k] \in opened THEN Yield(ChannelOrder[k], reach[ChannelOrder[k]]) ELSE <<>>
    BY <1>3, <1>9
  <2>2. ChannelOrder[k] \in Channels
    BY <1>9
  <2>3. CASE ChannelOrder[k] \in opened
    BY <1>10, <2>1, <2>2, <2>3
  <2>4. CASE ChannelOrder[k] \notin opened
    BY <2>1, <2>4, NoMoments
  <2> QED
    BY <2>3, <2>4
<1>12. Len(ss) = n
  <2>1. ss = [k \in 1 .. n |-> ss[k]]
    BY <1>3, <1>9
  <2> QED
    BY ONLY <1>9, <2>1, <1>11, IsASeq, LenProperties
<1>13. \A i, k \in 1 .. n : i # k => Moments(ss[i]) \cap Moments(ss[k]) = {}
  <2> SUFFICES ASSUME NEW i \in 1 .. n, NEW k \in 1 .. n, i # k PROVE Moments(ss[i]) \cap Moments(ss[k]) = {}
    OBVIOUS
  <2>1. PICK c, d : c = ChannelOrder[i] /\ d = ChannelOrder[k]
    OBVIOUS
  <2>2. c \in Channels /\ d \in Channels /\ c # d
    BY <1>9, <2>1
  <2>3. Moments(log[c]) \cap Moments(log[d]) = {}
    BY <2>2, Logged
  <2> QED
    BY <1>11, <2>1, <2>3
<1>14. /\ gathered \in Seq(Records) /\ Single(gathered) /\ Moments(gathered) = UNION {Moments(ss[k]) : k \in 1 .. n}
  <2>1. \A k \in 1 .. n : ss[k] \in Seq(Records) /\ Single(ss[k])
    BY <1>11
  <2>2. n \in Nat \ {0}
    BY <1>9
  <2>3. /\ FlattenSeq(ss) \in Seq(Records) /\ Single(FlattenSeq(ss))
        /\ Moments(FlattenSeq(ss)) = UNION {Moments(ss[k]) : k \in 1 .. n}
    BY ONLY <1>12, <1>13, <2>1, <2>2, FlattenedIs
  <2> QED
    BY ONLY <1>4, <2>3
<1>15. ASSUME NEW a \in Moments(gathered)
       PROVE  \E c \in Channels : /\ c \in opened /\ cursor[c] # NoCursor /\ reach[c] # 0
                                  /\ \E i \in 1 .. Len(log[c]) : log[c][i].at = a /\ i > cursor[c]
  <2>1. PICK k \in 1 .. n : a \in Moments(ss[k])
    BY <1>14
  <2>2. PICK c \in Channels : c = ChannelOrder[k]
    BY <1>9
  <2>3. c \in opened /\ a \in Moments(Yield(c, reach[c]))
    BY <1>11, <2>1, <2>2
  <2> QED
    BY <1>10, <2>3
<1>16. ASSUME NEW c \in Channels, c \in opened, NEW a \in Moments(Yield(c, reach[c])) PROVE a \in Moments(gathered)
  <2>1. PICK k \in 1 .. n : ChannelOrder[k] = c
    BY <1>9
  <2>2. a \in Moments(ss[k])
    BY <1>11, <1>16, <2>1
  <2> QED
    BY <1>14, <2>2
<1>17. ASSUME NEW c \in Channels, NEW i \in 1 .. Len(log[c]), log[c][i].at \in Moments(gathered)
       PROVE  c \in opened /\ cursor[c] # NoCursor /\ reach[c] # 0 /\ i > cursor[c]
  <2>1. PICK d \in Channels : /\ d \in opened /\ cursor[d] # NoCursor /\ reach[d] # 0
                              /\ \E k \in 1 .. Len(log[d]) : log[d][k].at = log[c][i].at /\ k > cursor[d]
    BY <1>15, <1>17
  <2>2. PICK k \in 1 .. Len(log[d]) : log[d][k].at = log[c][i].at /\ k > cursor[d]
    BY <2>1
  <2>3. d = c
    BY <2>2 DEF LogsInv, RecordsOnce
  <2>4. k = i
    BY <2>2, <2>3, Logged DEF Single
  <2> QED
    BY <2>1, <2>2, <2>3, <2>4
<1>18. ASSUME NEW a \in Moments(gathered) PROVE a \notin Moments(buffer) /\ a \notin drained /\ a \in 1 .. clock
  <2>1. PICK c \in Channels : /\ c \in opened /\ cursor[c] # NoCursor
                              /\ \E i \in 1 .. Len(log[c]) : log[c][i].at = a /\ i > cursor[c]
    BY <1>15
  <2>2. PICK i \in 1 .. Len(log[c]) : log[c][i].at = a /\ i > cursor[c]
    BY <2>1
  <2>3. /\ a \in Moments(buffer) => i <= cursor[c]
        /\ a \in drained => i <= cursor[c]
    BY <1>2, <2>1, <2>2 DEF LogsInv, OnWindows
  <2>4. cursor[c] \in Int /\ a \in 1 .. clock
    BY <1>7, <2>2 DEF LogsInv, RecordsOnce
  <2> QED
    BY <2>2, <2>3, <2>4
<1>19. /\ Reverse(gathered) \in Seq(Records) /\ Single(Reverse(gathered)) /\ Moments(Reverse(gathered)) = Moments(gathered)
       /\ Len(Reverse(gathered)) = Len(gathered)
  BY <1>14, ReversedSingle
<1>20. buffer' = BufferedWith(Reverse(gathered)) /\ awake' \in BOOLEAN
  BY <1>6 DEF Deliver, LogsInv, LogsTypeOK
<1>21. /\ buffer' \in Seq(Records) /\ Len(buffer') <= BufferCap /\ Single(buffer')
       /\ Moments(buffer') \subseteq Moments(buffer) \cup Moments(gathered)
       /\ \A a \in Moments(buffer) \cup Moments(gathered) :
             a \notin Crowded(Reverse(gathered)) => a \in Moments(buffer')
  <2>1. PICK back : back = Reverse(gathered)
    OBVIOUS
  <2>2. back \in Seq(Records) /\ Single(back) /\ Moments(back) = Moments(gathered) /\ Len(back) = Len(gathered)
    BY <1>19, <2>1
  <2>3. Moments(buffer) \cap Moments(back) = {}
    BY <1>18, <2>2
  <2>4. buffer' = BufferedWith(back)
    BY <1>20, <2>1
  <2>5. /\ buffer' \in Seq(Records) /\ Len(buffer') <= BufferCap /\ Single(buffer')
        /\ Moments(buffer') \subseteq Moments(buffer) \cup Moments(back)
        /\ \A a \in Moments(buffer) \cup Moments(back) : a \notin Crowded(back) => a \in Moments(buffer')
    BY <2>2, <2>3, <2>4, BufferedIs
  <2> QED
    BY ONLY <2>1, <2>2, <2>5
<1>23. LogsTypeOK'
  <2>1. mishaps' \in 0 .. MaxMishaps
    <3>1. mishaps' = mishaps \/ (mishaps < MaxMishaps /\ mishaps' = mishaps + 1)
      BY <1>1 DEF Mishap
    <3>2. mishaps \in 0 .. MaxMishaps /\ MaxMishaps \in Nat
      BY DEF LogsInv, LogsTypeOK
    <3> QED
      BY ONLY <3>1, <3>2
  <2>2. cursor' \in [Channels -> Int]
    <3>1. next = [c \in Channels |-> next[c]]
      BY <1>4
    <3> QED
      BY <1>6, <1>7, <3>1
  <2>3. due' \subseteq due /\ drained' \subseteq drained
    BY <1>6
  <2> QED
    BY <1>2, <1>20, <1>21, <2>1, <2>2, <2>3 DEF LogsInv, LogsTypeOK
<1>24. RecordsOnce' /\ ToldBefore' /\ OnLinux'
  <2>1. RecordsOnce' /\ OnLinux'
    BY <1>2 DEF LogsInv, RecordsOnce, OnLinux
  <2>2. ToldBefore'
    BY <1>2, <1>6, <1>18, <1>21 DEF LogsInv, ToldBefore
  <2> QED
    BY <2>1, <2>2
<1>25. OnWindows'
  <2> SUFFICES ASSUME NEW c \in Channels
               PROVE  /\ next[c] >= NoCursor
                      /\ \A i \in 1 .. Len(log[c]) :
                          /\ log[c][i].at \in Moments(buffer') => next[c] # NoCursor /\ i <= next[c]
                          /\ log[c][i].at \in drained' /\ next[c] # NoCursor => i <= next[c]
    BY <1>2, <1>6 DEF OnWindows
  <2>1. next[c] >= NoCursor
    BY <1>7 DEF NoCursor
  <2>2. ASSUME NEW i \in 1 .. Len(log[c]), log[c][i].at \in Moments(buffer') PROVE next[c] # NoCursor /\ i <= next[c]
    <3>1. CASE log[c][i].at \in Moments(gathered)
      <4>1. next[c] = Len(log[c]) /\ Len(log[c]) \in Nat
        BY <1>7, <1>17, <3>1
      <4> QED
        BY <4>1 DEF NoCursor
    <3>2. CASE log[c][i].at \in Moments(buffer)
      <4>1. cursor[c] # -1 /\ i <= cursor[c]
        BY <1>2, <3>2 DEF LogsInv, OnWindows, NoCursor
      <4>2. next[c] = cursor[c] \/ next[c] = Len(log[c])
        BY <1>7, <4>1
      <4>3. Len(log[c]) \in Nat
        BY <1>7
      <4> QED
        BY <4>1, <4>2, <4>3 DEF NoCursor
    <3> QED
      BY <1>21, <2>2, <3>1, <3>2
  <2>3. ASSUME NEW i \in 1 .. Len(log[c]), log[c][i].at \in drained', next[c] # NoCursor PROVE i <= next[c]
    <3>1. log[c][i].at \in drained /\ c \notin blind
      <4>1. log[c] \in Seq(Records)
        BY DEF LogsInv, LogsTypeOK
      <4>2. log[c][i].at \in Moments(log[c])
        BY <4>1, InMoments
      <4> QED
        BY <1>6, <2>3, <4>2
    <3>2. Len(log[c]) \in Nat
      BY <1>7
    <3>3. CASE c \in opened /\ reach[c] # 0
      <4>1. next[c] = Len(log[c])
        BY <1>7, <3>3
      <4> QED
        BY <3>2, <4>1
    <3>4. CASE ~(c \in opened /\ reach[c] # 0)
      <4>1. cursor[c] # NoCursor
        <5>1. c \in opened => ~Prime(c)
          BY <1>4, <3>1, <3>4
        <5>2. c \notin opened => next[c] = cursor[c]
          BY <1>7
        <5> QED
          BY <2>3, <5>1, <5>2 DEF Prime
      <4>2. next[c] = cursor[c]
        BY <1>7, <3>4, <4>1 DEF NoCursor
      <4> QED
        BY <1>2, <3>1, <4>1, <4>2 DEF LogsInv, OnWindows
    <3> QED
      BY <3>3, <3>4
  <2> QED
    BY <2>1, <2>2, <2>3
<1>26. ASSUME NEW a \in due, a \notin Moments(buffer)
       PROVE  \E c \in Channels : \E i \in 1 .. Len(log[c]) : log[c][i].at = a /\ cursor[c] # NoCursor /\ i > cursor[c]
  BY <1>2, <1>26, DueIs DEF ToReadIn
<1>27. ASSUME NEW a \in due' PROVE a \in Moments(buffer') \/ ToReadIn(log', cursor', platform' = "windows", a)
  <2> SUFFICES ASSUME a \notin Moments(buffer')
               PROVE  \E c \in Channels : \E i \in 1 .. Len(log[c]) : log[c][i].at = a /\ next[c] # NoCursor /\ i > next[c]
    BY <1>2, <1>6 DEF ToReadIn
  <2>1. a \in due /\ a \notin Crowded(Reverse(gathered)) /\ a \notin passed
    BY <1>6, <1>27
  <2>2. a \notin Moments(buffer) /\ a \notin Moments(gathered)
    BY <1>21, <2>1
  <2>3. PICK c \in Channels : \E i \in 1 .. Len(log[c]) : log[c][i].at = a /\ cursor[c] # NoCursor /\ i > cursor[c]
    BY <1>26, <2>1, <2>2
  <2>4. PICK i \in 1 .. Len(log[c]) : log[c][i].at = a /\ cursor[c] # NoCursor /\ i > cursor[c]
    BY <2>3
  <2>5. ~(c \in opened /\ reach[c] # 0)
    <3> SUFFICES ASSUME c \in opened, reach[c] # 0 PROVE FALSE
      OBVIOUS
    <3>1. a \notin Skipped(c, reach[c])
      BY <1>5, <2>1
    <3>2. ~WasReset(c)
      <4>1. cursor[c] \in Int /\ Len(log[c]) \in Nat
        BY <1>7
      <4> QED
        BY <2>4, <4>1 DEF WasReset, Known
    <3>3. a \in Moments(Yield(c, reach[c]))
      BY <1>10, <2>4, <3>1, <3>2
    <3> QED
      BY <1>16, <2>2, <3>3
  <2>6. next[c] = cursor[c]
    BY <1>7, <2>4, <2>5 DEF NoCursor
  <2> QED
    BY <2>4, <2>6
<1>28. Moments(buffer') \cap drained' = {}
  BY <1>6, <1>18, <1>21, Buffered
<1> QED
  BY <1>21, <1>23, <1>24, <1>25, <1>27, <1>28, LogsParts

LEMMA LogsStep == LogsInv /\ [LogsNext]_logVars => LogsInv'
<1> SUFFICES ASSUME LogsInv, [LogsNext]_logVars PROVE LogsInv'
  OBVIOUS
<1>1. ASSUME NEW c \in Channels, Clear(c) PROVE LogsInv'
  BY <1>1, ClearKeeps
<1>2. ASSUME NEW c \in Channels, NEW level \in Levels, Write(c, level) PROVE LogsInv'
  BY <1>2, WriteKeeps
<1>3. CASE PollWindows
  BY <1>3, PollWindowsKeeps
<1>4. CASE PollJournal
  BY <1>4, PollJournalKeeps
<1>5. CASE DrainLog
  BY <1>5, DrainLogKeeps
<1>6. CASE Restart
  BY <1>6, LogsRestartKeeps
<1>7. CASE UNCHANGED logVars
  <2>1. UNCHANGED <<platform, log, clock, cursor, savedCursor, buffer, awake, mishaps, drained, due>>
    BY <1>7 DEF logVars
  <2>2. LogsTypeOK' /\ RecordsOnce' /\ ToldBefore' /\ OnWindows' /\ OnLinux'
    <3>1. LogsTypeOK'
      BY <2>1 DEF LogsInv, LogsTypeOK
    <3>2. RecordsOnce' /\ ToldBefore'
      BY <2>1 DEF LogsInv, RecordsOnce, ToldBefore
    <3>3. OnWindows'
      BY <2>1 DEF LogsInv, OnWindows
    <3>4. OnLinux'
      BY <2>1 DEF LogsInv, OnLinux
    <3> QED
      BY <3>1, <3>2, <3>3, <3>4
  <2>3. Single(buffer') /\ Moments(buffer') \cap drained' = {}
    BY <2>1, Buffered
  <2>4. \A a \in due' : a \in Moments(buffer') \/ ToReadIn(log', cursor', platform' = "windows", a)
    BY <2>1, DueIs
  <2> QED
    BY <2>2, <2>3, <2>4, LogsParts
<1> QED
  BY <1>1, <1>2, <1>3, <1>4, <1>5, <1>6, <1>7 DEF LogsNext

(* The collectors of the event logs keep their invariant.                  *)
THEOREM LogsInvariance == LogsSpec => []LogsInv
<1>1. LogsInit => LogsInv
  BY LogsBegin
<1>2. LogsInv /\ [LogsNext]_logVars => LogsInv'
  BY LogsStep
<1> QED
  BY <1>1, <1>2, PTL DEF LogsSpec

(* No record of a log reaches two analyses, and an error that was written  *)
(* while the collector had a place to read on from is buffered or still to *)
(* be read, but for what ErrorsKept lists: what a failed journalctl, a     *)
(* read that ended early, a limit, a clear or a restart passes over.       *)
THEOREM LogsAreSound == LogsSpec => []LogsSound
<1>1. LogsInv => LogsSound
  BY DEF LogsInv, LogsSound
<1> QED
  BY <1>1, LogsInvariance, PTL
==============================================================================
