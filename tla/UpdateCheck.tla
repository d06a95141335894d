----------------------------- MODULE UpdateCheck -----------------------------
(***************************************************************************)
(* How an update cycle finds its candidates (collect and check_unmanaged   *)
(* in updater/check.rs): the managers' listings in order, one candidate    *)
(* per app; then the apps no manager covers, from winget's list and the    *)
(* registry (inventory.rs, winget_parse.rs), of which a capped batch,      *)
(* stalest first, is put to the AI; the answers are held against what is   *)
(* installed (names.rs, version.rs).  Between checks an offer is applied   *)
(* and the user edits what to ignore; a cycle reads a copy of the          *)
(* settings, so an edit during a check acts on the next.                   *)
(***************************************************************************)
EXTENDS Integers, Sequences, FiniteSets

CONSTANTS
    Packages,  \* stable app identities, by app_id
    Base,      \* [Packages -> Packages]: an identity without its Chocolatey suffix
    Kin,       \* pairs of identities one of whose names contains the other
    Versions,  \* [nums, tag]: the numeric head and what follows it
    Managers,  \* the package managers at hand, in order
    Machines,  \* [Packages -> [registry, row]]: how an app is registered
    AiCap,     \* AI_CHECK_CAP
    MaxChecks  \* bound: checks of the batch by the AI

(* The managers a check may ask.                                           *)
Sources == {Managers[i] : i \in DOMAIN Managers}

ASSUME UpdateCheckAssumption ==
    /\ Base \in [Packages -> Packages] /\ AiCap \in Nat \ {0} /\ MaxChecks \in Nat
    /\ \A v \in Versions : v.nums \in Seq(Nat)
    /\ Managers \in Seq(Sources) /\ "native" \notin Sources

VARIABLES
    checkAt,    \* phase of the check
    turn,       \* managers still to be listed
    machine,    \* member of Machines
    version,    \* [Packages -> versions]: what is installed
    skips,      \* ignored by the user or learned to update themselves
    offers,     \* candidates: [id, by, from, to]
    seenIds,    \* identities covered
    managed,    \* identities a manager listed
    batch,      \* function from the apps put to the AI to their versions
    target,     \* the app of a targeted retry
    lastCheck,  \* [Packages -> 0..MaxChecks], in the database
    overtook,   \* [Packages -> SUBSET Packages]: checked since an app last was
    settled     \* [Packages -> SUBSET Versions]: latest versions verified

checkPart == <<checkAt, turn, offers, seenIds, managed, batch, target>>
checkVars == <<checkPart, machine, version, skips, lastCheck, overtook, settled>>

Unknown == [nums |-> <<>>, tag |-> "unknown"]

-----------------------------------------------------------------------------
(* version.rs *)

Component(v, i) == IF i <= Len(v.nums) THEN v.nums[i] ELSE 0

Places(a, b) == 1..(IF Len(a.nums) > Len(b.nums) THEN Len(a.nums) ELSE Len(b.nums))

Differing(a, b) == {i \in Places(a, b) : Component(a, i) # Component(b, i)}
First(S) == CHOOSE i \in S : \A j \in S : i <= j

SemVer(v) == Len(v.nums) = 3 /\ v.tag \in {"", "beta"}

\* version_cmp: a release outranks its prerelease only where both are SemVer.
VersionCmp(a, b) ==
    CASE a.nums = <<>> \/ b.nums = <<>> -> "none"
      [] a.nums # <<>> /\ b.nums # <<>> /\ Differing(a, b) # {} ->
            LET i == First(Differing(a, b))
            IN  IF Component(a, i) < Component(b, i) THEN "less" ELSE "greater"
      [] OTHER -> IF SemVer(a) /\ SemVer(b) /\ a.tag # b.tag
                  THEN IF a.tag = "beta" THEN "less" ELSE "greater"
                  ELSE "equal"

\* A short version that wins past the major against a longer build version.
MarketingTruncation(latest, current) ==
    /\ latest.nums # <<>> /\ Len(current.nums) >= Len(latest.nums) + 2
    /\ Differing(latest, current) # {}
    /\ LET i == First(Differing(latest, current))
       IN  i > 1 /\ Component(latest, i) > Component(current, i)
    /\ \E j \in Len(latest.nums) + 1 .. Len(current.nums) : current.nums[j] # 0

\* Mutant: anything that is not the same text is newer.
IsOther(latest, current) == latest # current

IsNewer(latest, current) ==
    /\ ~MarketingTruncation(latest, current)
    /\ \/ VersionCmp(latest, current) = "greater"
       \/ VersionCmp(latest, current) = "none" /\ latest # current

\* classify_version
VerdictOn(found, expected) ==
    CASE found = Unknown -> "unverified"
      [] found # Unknown /\ VersionCmp(found, expected) = "less" -> "mismatch"
      [] found # Unknown /\ VersionCmp(found, expected) \in {"equal", "greater"} -> "verified"
      [] OTHER -> IF found = expected THEN "verified" ELSE "unverified"

-----------------------------------------------------------------------------
(* check.rs *)

Skip(a) == {a, Base[a]} \cap skips # {}          \* should_skip
Known(v) == v # Unknown                          \* version_known

IdleCheck == checkAt = "idle"

CheckInit ==
    /\ checkAt = "idle" /\ turn = <<>> /\ offers = {} /\ seenIds = {} /\ managed = {}
    /\ batch = <<>> /\ target = "none"
    /\ machine \in Machines
    /\ version \in {[a \in Packages |-> v] : v \in Versions}
    /\ skips = {}
    /\ lastCheck = [a \in Packages |-> 0] /\ overtook = [a \in Packages |-> {}]
    /\ settled = [a \in Packages |-> {}]

\* A full check, or one for a retry of a single app.
StartCheck(t) ==
    /\ IdleCheck
    /\ checkAt' = "managers" /\ turn' = Managers
    /\ offers' = {} /\ seenIds' = {} /\ managed' = {} /\ batch' = <<>> /\ target' = t
    /\ UNCHANGED <<machine, version, skips, lastCheck, overtook, settled>>

\* Collected::push for one row of the manager's listing; noise never gets here.
Push(a, from) ==
    /\ checkAt = "managers" /\ turn # <<>>
    /\ a \notin managed \/ a \notin seenIds
    /\ managed' = managed \cup {a}
    /\ IF ~Skip(a) /\ {a, Base[a]} \cap seenIds = {} /\ Known(from)
       THEN /\ seenIds' = seenIds \cup {a, Base[a]}
            /\ offers' = offers \cup {[id |-> a, by |-> Head(turn), from |-> from,
                                     to |-> "listed"]}
       ELSE UNCHANGED <<seenIds, offers>>
    /\ UNCHANGED <<checkAt, turn, batch, target, machine, version, skips, lastCheck,
                   overtook, settled>>

\* The listing is done, failed, or its manager is not there.
NextManager ==
    /\ checkAt = "managers" /\ turn # <<>>
    /\ turn' = Tail(turn)
    /\ UNCHANGED <<checkAt, offers, seenIds, managed, batch, target, machine, version,
                   skips, lastCheck, overtook, settled>>

\* parse_unmanaged: the rows winget lists and does not manage.
RowsKept == {a \in Packages : machine[a].row \in {"machine", "unknown_version"}}

\* What winget's list contributes.
FromWinget == {a \in RowsKept : machine[a].row = "machine" /\ a \notin managed /\ ~Skip(a)}

\* parse_inventory: an app registered under two versions is left out, one
\* registered for the machine as well as a user counts as the machine's.
FromRegistry == {a \in Packages : machine[a].registry \in {"machine", "both"}
                              /\ a \notin managed /\ ~Skip(a)}
PerUser == {a \in Packages : machine[a].registry = "user" /\ a \notin managed /\ ~Skip(a)}

Inventory(wingetOk, registryOk) ==
    ((IF wingetOk THEN FromWinget ELSE {})
     \cup (IF registryOk THEN FromRegistry ELSE {}))
    \ (IF registryOk THEN PerUser ELSE {})

\* Mutant: the cap takes the head of the inventory, whatever its check times.
AnyOf(apps, B, times) ==
    /\ B \subseteq apps
    /\ Cardinality(B) = (IF Cardinality(apps) < AiCap THEN Cardinality(apps) ELSE AiCap)

\* select_unmanaged_batch: as many as the cap allows, none staler left out.
StalestOf(apps, B, times) ==
    /\ B \subseteq apps
    /\ Cardinality(B) = (IF Cardinality(apps) < AiCap THEN Cardinality(apps) ELSE AiCap)
    /\ \A b \in B, a \in apps \ B : times[b] <= times[a]

\* An app left out by a batch that could not read the times starts over.
SelectBatch(B, wingetOk, registryOk, timesRead) ==
    LET all == Inventory(wingetOk, registryOk)
        apps == IF target = "none" THEN all ELSE all \cap {target}
        times == IF timesRead THEN lastCheck ELSE [a \in Packages |-> 0]
    IN  /\ checkAt = "managers" /\ turn = <<>>
        /\ StalestOf(apps, B, times)
        /\ batch' = [b \in B |-> version[b]]
        /\ checkAt' = IF B = {} THEN "done" ELSE "asked"
        /\ overtook' = [a \in Packages |-> IF timesRead /\ a \in apps THEN overtook[a] ELSE {}]
        /\ UNCHANGED <<turn, offers, seenIds, managed, target, machine, version, skips,
                       lastCheck, settled>>

\* No AI, or the AI pass is switched off.
NoAiPass ==
    /\ checkAt = "managers" /\ turn = <<>>
    /\ checkAt' = "done"
    /\ UNCHANGED <<turn, offers, seenIds, managed, batch, target, machine, version, skips,
                   lastCheck, overtook, settled>>

Now == CHOOSE n \in 0..MaxChecks :
          /\ \A a \in Packages : lastCheck[a] <= n
          /\ \A k \in 0..MaxChecks : (\A a \in Packages : lastCheck[a] <= k) => n <= k

\* Mutant: only the apps the AI reported are recorded.
RecordNone(B) == lastCheck

\* record_checks, in one transaction
RecordChecks(B) == [a \in Packages |-> IF a \in B THEN Now + 1 ELSE lastCheck[a]]

\* The AI's answer can be read, and the whole batch counts as checked.
Answer ==
    /\ checkAt = "asked" /\ Now < MaxChecks
    /\ checkAt' = "answered"
    /\ lastCheck' = RecordChecks(DOMAIN batch)
    /\ overtook' = [a \in Packages |-> IF a \in DOMAIN batch THEN {}
                                   ELSE overtook[a] \cup DOMAIN batch]
    /\ UNCHANGED <<turn, offers, seenIds, managed, batch, target, machine, version, skips,
                   settled>>

\* The AI fails, its answer cannot be read, or the record cannot be written.
NoAnswer ==
    /\ checkAt = "asked"
    /\ checkAt' = "done"
    /\ UNCHANGED <<turn, offers, seenIds, managed, batch, target, machine, version, skips,
                   lastCheck, overtook, settled>>

\* match_installed_entry, over the batch: the identity, or its only kin.
Resolved(name) ==
    IF name \in DOMAIN batch THEN {name}
    ELSE LET near == {a \in DOMAIN batch : <<a, name>> \in Kin}
         IN  IF Cardinality(near) = 1 THEN near ELSE {}

\* native_candidates_from, one reported update: any name, any version.
Report(name, latest) ==
    /\ checkAt = "answered"
    /\ \E a \in Resolved(name) :
          /\ Known(batch[a]) /\ IsNewer(latest, batch[a]) /\ ~Skip(a)
          /\ a \notin seenIds
          /\ seenIds' = seenIds \cup {a}
          /\ offers' = offers \cup
                {[id |-> a, by |-> "native", from |-> batch[a], to |-> latest]}
    /\ UNCHANGED <<checkAt, turn, managed, batch, target, machine, version, skips, lastCheck,
                   overtook, settled>>

\* The end of collect, for a retry only its app.
CheckEnds ==
    /\ \/ checkAt = "answered"
       \/ checkAt = "done"
    /\ checkAt' = "collected"
    /\ offers' = IF target = "none" THEN offers ELSE {o \in offers : o.id = target}
    /\ UNCHANGED <<turn, seenIds, managed, batch, target, machine, version, skips, lastCheck,
                   overtook, settled>>

-----------------------------------------------------------------------------
(* What happens to the offers and the settings *)

\* A native install ran and this version was read back.
Install(o, found) ==
    /\ checkAt = "collected" /\ o \in offers /\ o.by = "native"
    /\ version' = [version EXCEPT ![o.id] = found]
    /\ settled' = [settled EXCEPT ![o.id] =
                      IF VerdictOn(found, o.to) = "verified" THEN @ \cup {o.to} ELSE @]
    /\ offers' = offers \ {o}
    /\ UNCHANGED <<checkAt, turn, seenIds, managed, batch, target, machine, skips, lastCheck,
                   overtook>>

EndCheck ==
    /\ checkAt = "collected"
    /\ checkAt' = "idle" /\ turn' = <<>> /\ batch' = <<>> /\ target' = "none"
    /\ offers' = {} /\ seenIds' = {} /\ managed' = {}
    /\ UNCHANGED <<machine, version, skips, lastCheck, overtook, settled>>

\* set_app_ignored, or a self-updater is learned.
SetSkipped(a, on) ==
    /\ IdleCheck
    /\ skips' = IF on THEN skips \cup {a} ELSE skips \ {a}
    /\ skips' # skips
    /\ UNCHANGED <<checkPart, machine, version, lastCheck, overtook, settled>>

CheckNext ==
    \/ \E t \in Packages \cup {"none"} : StartCheck(t)
    \/ \E a \in Packages : Push(a, version[a])
    \/ NextManager
    \/ \E B \in SUBSET Packages, w, r, t \in BOOLEAN : SelectBatch(B, w, r, t)
    \/ NoAiPass \/ Answer \/ NoAnswer
    \/ \E name \in Packages \cup {"ghost"}, latest \in Versions : Report(name, latest)
    \/ CheckEnds
    \/ \E o \in offers, found \in Versions : Install(o, found)
    \/ EndCheck
    \/ \E a \in Packages, on \in BOOLEAN : SetSkipped(a, on)

CheckSpec == CheckInit /\ [][CheckNext]_checkVars

-----------------------------------------------------------------------------
(* Properties *)

CheckTypeOK ==
    /\ checkAt \in {"idle", "managers", "asked", "answered", "done", "collected"}
    /\ turn \in {<<>>} \cup {SubSeq(Managers, i, Len(Managers)) : i \in 1..Len(Managers)}
    /\ version \in [Packages -> Versions \cup {Unknown}]
    /\ skips \subseteq Packages /\ seenIds \subseteq Packages /\ managed \subseteq Packages
    /\ lastCheck \in [Packages -> 0..MaxChecks] /\ DOMAIN batch \subseteq Packages

(* Nothing is offered that is ignored, has no version to compare, or that  *)
(* another offer already covers; an AI offer is for an installed app       *)
(* outside the managers' and is newer (check.rs:118, 596).                 *)
OffersReal ==
    \A o \in offers :
        /\ ~Skip(o.id) /\ Known(o.from)
        /\ \A p \in offers \ {o} : p.id # o.id
        /\ \A p \in offers \ {o} : "native" \notin {o.by, p.by} => Base[p.id] # Base[o.id]
        /\ o.by = "native" => o.id \in DOMAIN batch /\ o.id \notin managed

(* An update whose result was verified is not offered again by the AI pass *)
(* as long as that version stays installed, whatever the AI says           *)
(* (version.rs:107 against 122).                                           *)
NotOfferedAgain ==
    \A o \in offers : o.by = "native" =>
        \A done \in settled[o.id] : VerdictOn(o.from, done) = "verified" => o.to # done

(* No app is put to the AI again before one that waits since (check.rs:341). *)
SweepFair ==
    checkAt = "asked" => \A a \in Packages \ DOMAIN batch : overtook[a] \cap DOMAIN batch = {}

\* One property for the runs: the check is sound.
CheckSound == CheckTypeOK /\ OffersReal /\ NotOfferedAgain /\ SweepFair
=============================================================================
