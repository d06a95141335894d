------------------------- MODULE AppUpdates_proofs --------------------------
(***************************************************************************)
(* Proofs about what the updater does with apps: the check for candidates  *)
(* (UpdateCheck), for any packages, managers and versions, and the heal of *)
(* one app (Healing), for any candidates, AI answers, outputs and number   *)
(* of attempts.                                                            *)
(***************************************************************************)
EXTENDS UpdateCheck, Healing, FiniteSetTheorems, SequenceTheorems, WellFoundedInduction, TLAPS

(* What an offer holds. *)
Offered == [id : Packages, by : Sources \cup {"native"}, from : Versions \cup {Unknown}, to : Versions \cup {"listed"}]

(* What the variables hold, beyond CheckTypeOK. *)
CheckShapes ==
    /\ CheckTypeOK
    /\ turn \in Seq(Sources)
    /\ offers \subseteq Offered
    /\ \A a \in DOMAIN batch : batch[a] \in Versions \cup {Unknown}
    /\ overtook \in [Packages -> SUBSET Packages] /\ settled \in [Packages -> SUBSET Versions]

(* What one offer covers is seen, and the AI is only put what no manager   *)
(* listed.                                                                 *)
Covered ==
    /\ checkAt = "idle" => offers = {}
    /\ checkAt \in {"idle", "managers"} => DOMAIN batch = {}
    /\ DOMAIN batch \cap managed = {}
    /\ \A o \in offers :
        /\ o.id \in seenIds
        /\ o.by # "native" => Base[o.id] \in seenIds
        /\ o.by = "native" => o.to \in Versions

(* Those checked since an app was have a later time in the database.       *)
OvertookLater == \A a \in Packages : \A b \in overtook[a] : lastCheck[b] > lastCheck[a]

(* The inductive invariant of a check. *)
CheckInv == CheckShapes /\ Covered /\ OffersReal /\ NotOfferedAgain /\ OvertookLater /\ SweepFair

USE UpdateCheckAssumption

(* A set of naturals that is not empty has a least element. *)
LEMMA Least ==
    ASSUME NEW S \in SUBSET Nat, S # {} PROVE \E x \in S : \A y \in S : x <= y
<1>1. PICK x \in S : \A y \in S : ~(<<y, x>> \in OpToRel(<, Nat))
  BY NatLessThanWellFounded, WFMin
<1>2. ASSUME NEW y \in S PROVE x <= y
  <2>1. x \in Nat /\ y \in Nat /\ ~(y < x)
    BY <1>1 DEF OpToRel
  <2> QED
    BY <2>1
<1> QED
  BY <1>2

-----------------------------------------------------------------------------
(* version_cmp *)

(* The numbers of a version. *)
AnyVersion(v) == v.nums \in Seq(Nat)

(* The first place two versions differ in is one.                          *)
LEMMA FirstDiffers ==
    ASSUME NEW a, NEW b, AnyVersion(a), AnyVersion(b), Differing(a, b) # {}
    PROVE  /\ First(Differing(a, b)) \in Differing(a, b)
           /\ Differing(b, a) = Differing(a, b)
<1>1. Differing(a, b) \in SUBSET Nat
  BY DEF Differing, Places, AnyVersion
<1>2. \E i \in Differing(a, b) : \A j \in Differing(a, b) : i <= j
  BY <1>1, Least
<1>3. Places(a, b) = Places(b, a)
  BY DEF Places, AnyVersion
<1>4. Differing(b, a) = Differing(a, b)
  BY <1>3 DEF Differing
<1> QED
  BY <1>2, <1>4 DEF First

(* A version that outranks another is outranked by it, read the other way, *)
(* and what cannot be compared cannot either way.                          *)
LEMMA Antisymmetric ==
    ASSUME NEW a, NEW b, AnyVersion(a), AnyVersion(b)
    PROVE  /\ VersionCmp(a, b) = "greater" => VersionCmp(b, a) = "less"
           /\ VersionCmp(a, b) = "none" => VersionCmp(b, a) = "none"
<1>1. CASE a.nums = <<>> \/ b.nums = <<>>
  <2>1. VersionCmp(a, b) = "none" /\ VersionCmp(b, a) = "none"
    BY <1>1 DEF VersionCmp
  <2> QED
    BY <2>1
<1>2. CASE a.nums # <<>> /\ b.nums # <<>> /\ Differing(a, b) # {}
  <2> DEFINE i == First(Differing(a, b))
  <2>1. i \in Differing(a, b) /\ Differing(b, a) = Differing(a, b)
    BY <1>2, FirstDiffers
  <2>2. Component(a, i) \in Nat /\ Component(b, i) \in Nat /\ Component(a, i) # Component(b, i)
    <3>1. i \in Nat \ {0} /\ Component(a, i) # Component(b, i)
      BY <2>1 DEF Differing, Places, AnyVersion
    <3>2. ASSUME NEW v, AnyVersion(v) PROVE Component(v, i) \in Nat
      BY <3>1, <3>2 DEF Component, AnyVersion
    <3> QED
      BY <3>1, <3>2
  <2>3. VersionCmp(a, b) = IF Component(a, i) < Component(b, i) THEN "less" ELSE "greater"
    BY <1>2 DEF VersionCmp
  <2>4. VersionCmp(b, a) = IF Component(b, i) < Component(a, i) THEN "less" ELSE "greater"
    BY <1>2, <2>1 DEF VersionCmp
  <2> QED
    BY <2>2, <2>3, <2>4
<1>3. CASE a.nums # <<>> /\ b.nums # <<>> /\ Differing(a, b) = {}
  <2>1. Differing(b, a) = {}
    BY <1>3 DEF Differing, Places, AnyVersion
  <2>2. VersionCmp(a, b) = IF SemVer(a) /\ SemVer(b) /\ a.tag # b.tag
                           THEN IF a.tag = "beta" THEN "less" ELSE "greater" ELSE "equal"
    BY <1>3 DEF VersionCmp
  <2>3. VersionCmp(b, a) = IF SemVer(b) /\ SemVer(a) /\ b.tag # a.tag
                           THEN IF b.tag = "beta" THEN "less" ELSE "greater" ELSE "equal"
    BY <1>3, <2>1 DEF VersionCmp
  <2> QED
    BY <2>2, <2>3 DEF SemVer
<1> QED
  BY <1>1, <1>2, <1>3

(* What is verified as installed is not newer than what is installed.      *)
LEMMA VerifiedIsNotNewer ==
    ASSUME NEW found, NEW latest, AnyVersion(found), AnyVersion(latest),
           VerdictOn(found, latest) = "verified"
    PROVE  ~IsNewer(latest, found)
<1>1. found # Unknown /\ VersionCmp(found, latest) # "less"
  BY DEF VerdictOn
<1>2. VersionCmp(latest, found) # "greater"
  BY <1>1, Antisymmetric
<1>3. CASE VersionCmp(latest, found) = "none"
  <2>1. VersionCmp(found, latest) = "none"
    BY <1>3, Antisymmetric
  <2>2. found = latest
    BY <1>1, <2>1 DEF VerdictOn
  <2> QED
    BY <1>2, <2>2 DEF IsNewer
<1> QED
  BY <1>2, <1>3 DEF IsNewer

(* An installed version is one, even when it is unknown. *)
LEMMA KnownVersions == \A v \in Versions \cup {Unknown} : AnyVersion(v)
<1>1. Unknown.nums = <<>> /\ <<>> \in Seq(Nat)
  BY EmptySeq DEF Unknown
<1> QED
  BY <1>1 DEF AnyVersion

(* What is left of a sequence, less its head.                              *)
LEMMA Leftover ==
    ASSUME NEW R, NEW s \in Seq(R), NEW i \in 1..Len(s)
    PROVE  LET left == SubSeq(s, i, Len(s))
           IN  /\ Tail(left) \in {<<>>} \cup {SubSeq(s, k, Len(s)) : k \in 1..Len(s)}
               /\ Tail(left) \in Seq(R) /\ Head(left) \in R
<1> DEFINE left == SubSeq(s, i, Len(s))
<1>1. left \in Seq(R) /\ Len(left) = Len(s) - i + 1 /\ \A k \in 1..Len(left) : left[k] = s[i + k - 1]
  OBVIOUS
<1> HIDE DEF left
<1>2. Head(left) \in R /\ Tail(left) \in Seq(R) /\ Len(Tail(left)) = Len(s) - i
      /\ \A k \in 1..Len(Tail(left)) : Tail(left)[k] = s[i + k]
  <2>1. Len(left) \in Nat \ {0} /\ left # <<>>
    BY <1>1
  <2>2. Head(left) = left[1] /\ Tail(left) \in Seq(R) /\ Len(Tail(left)) = Len(left) - 1
        /\ \A k \in 1..Len(Tail(left)) : Tail(left)[k] = left[k + 1]
    BY <1>1, <2>1
  <2>3. \A k \in 1..Len(Tail(left)) : left[k + 1] = s[i + k]
    BY <1>1, <2>1, <2>2
  <2> QED
    BY <1>1, <2>1, <2>2, <2>3
<1>3. CASE i = Len(s)
  <2>1. Len(Tail(left)) = 0
    BY <1>2, <1>3
  <2>2. Tail(left) = <<>>
    BY <1>2, <2>1, EmptySeq
  <2> QED
    BY <1>2, <2>2 DEF left
<1>4. CASE i < Len(s)
  <2>1. PICK k \in 1..Len(s) : k = i + 1
    BY <1>4
  <2>2. PICK rest : rest = SubSeq(s, k, Len(s))
    OBVIOUS
  <2>3. rest \in Seq(R) /\ Len(rest) = Len(s) - i /\ \A m \in 1..Len(rest) : rest[m] = s[i + m]
    BY <1>4, <2>1, <2>2
  <2>4. \A m \in 1..Len(rest) : Tail(left)[m] = rest[m]
    BY <1>2, <2>3
  <2>5. Tail(left) = rest
    BY <1>2, <2>3, <2>4, SeqEqual
  <2> QED
    BY <1>2, <2>2, <2>5 DEF left
<1> QED
  BY <1>3, <1>4 DEF left

(* The turn is what is left of the managers.                               *)
LEMMA NextTurn ==
    ASSUME turn # <<>>, turn \in {<<>>} \cup {SubSeq(Managers, i, Len(Managers)) : i \in 1..Len(Managers)}
    PROVE  /\ Tail(turn) \in {<<>>} \cup {SubSeq(Managers, i, Len(Managers)) : i \in 1..Len(Managers)}
           /\ Tail(turn) \in Seq(Sources) /\ Head(turn) \in Sources /\ Head(turn) # "native"
<1>1. PICK i \in 1..Len(Managers) : turn = SubSeq(Managers, i, Len(Managers))
  OBVIOUS
<1>2. Managers \in Seq(Sources)
  OBVIOUS
<1>3. /\ Tail(turn) \in {<<>>} \cup {SubSeq(Managers, k, Len(Managers)) : k \in 1..Len(Managers)}
      /\ Tail(turn) \in Seq(Sources) /\ Head(turn) \in Sources
  BY <1>1, <1>2, Leftover
<1> QED
  BY <1>3

(* A check that begins has every manager before it. *)
LEMMA NewTurn ==
    /\ Managers \in {<<>>} \cup {SubSeq(Managers, i, Len(Managers)) : i \in 1..Len(Managers)}
    /\ Managers \in Seq(Sources) /\ <<>> \in Seq(Sources)
<1>1. CASE Managers = <<>>
  BY <1>1
<1>2. CASE Managers # <<>>
  <2>1. Managers = SubSeq(Managers, 1, Len(Managers)) /\ 1 \in 1..Len(Managers)
    BY <1>2
  <2> QED
    BY <2>1
<1> QED
  BY <1>1, <1>2

(* The time of the last check is at least that of every app. *)
LEMMA NowIs ==
    ASSUME lastCheck \in [Packages -> 0..MaxChecks]
    PROVE  Now \in 0..MaxChecks /\ \A a \in Packages : lastCheck[a] <= Now
<1> DEFINE S == {n \in 0..MaxChecks : \A a \in Packages : lastCheck[a] <= n}
<1>1. S \in SUBSET Nat /\ MaxChecks \in S
  OBVIOUS
<1>2. PICK n \in S : \A k \in S : n <= k
  BY <1>1, Least
<1>3. \E m \in 0..MaxChecks :
        /\ \A a \in Packages : lastCheck[a] <= m
        /\ \A k \in 0..MaxChecks : (\A a \in Packages : lastCheck[a] <= k) => m <= k
  BY <1>2
<1> QED
  BY <1>3 DEF Now

(* It holds before the first check. *)
LEMMA CheckInitInv == CheckInit => CheckInv
<1> SUFFICES ASSUME CheckInit PROVE CheckInv
  OBVIOUS
<1>1. CheckTypeOK
  BY DEF CheckInit, CheckTypeOK
<1>2. CheckShapes
  BY <1>1, NewTurn DEF CheckInit, CheckShapes
<1>3. Covered /\ OffersReal /\ NotOfferedAgain /\ OvertookLater /\ SweepFair
  BY DEF CheckInit, Covered, OffersReal, NotOfferedAgain, OvertookLater, SweepFair
<1> QED
  BY <1>2, <1>3 DEF CheckInv

(* A step that offers nothing new and leaves the times alone.              *)
LEMMA NothingNew ==
    ASSUME CheckInv, CheckShapes', offers' \subseteq offers,
           checkAt' = "idle" => offers' = {}, checkAt' \in {"idle", "managers"} => DOMAIN batch' = {},
           checkAt' = "asked" => checkAt = "asked",
           offers' # {} => seenIds' = seenIds /\ managed' = managed /\ batch' = batch /\ skips' = skips,
           DOMAIN batch' \cap managed' = {}, checkAt = "asked" => batch' = batch \/ checkAt' # "asked",
           UNCHANGED <<lastCheck, overtook>>,
           \A o \in offers' : settled'[o.id] = settled[o.id]
    PROVE  CheckInv'
<1> USE DEF CheckInv
<1>1. Covered'
  BY DEF Covered
<1>2. OffersReal'
  BY DEF OffersReal, Skip, Known
<1>3. NotOfferedAgain'
  BY DEF NotOfferedAgain
<1>4. OvertookLater' /\ SweepFair'
  BY DEF OvertookLater, SweepFair
<1> QED
  BY <1>1, <1>2, <1>3, <1>4

(* Steps that offer and cover nothing. *)
LEMMA QuietSteps ==
    ASSUME CheckInv,
           \/ \E t \in Packages \cup {"none"} : StartCheck(t)
           \/ NextManager \/ NoAiPass \/ NoAnswer \/ CheckEnds \/ EndCheck
           \/ \E a \in Packages, on \in BOOLEAN : SetSkipped(a, on)
    PROVE  CheckInv'
<1> USE DEF CheckInv
<1>0. CheckShapes /\ CheckTypeOK /\ Covered
  BY DEF CheckShapes
<1>1. ASSUME NEW t \in Packages \cup {"none"}, StartCheck(t) PROVE CheckInv'
  <2>1. CheckShapes'
    BY <1>0, <1>1, NewTurn DEF StartCheck, CheckShapes, CheckTypeOK
  <2> QED
    BY <1>1, <2>1, NothingNew DEF StartCheck
<1>2. CASE NextManager
  <2>1. CheckShapes'
    BY <1>0, <1>2, NextTurn DEF NextManager, CheckShapes, CheckTypeOK
  <2> QED
    BY <1>0, <1>2, <2>1, NothingNew DEF NextManager, Covered
<1>3. CASE NoAiPass \/ NoAnswer
  <2>1. CheckShapes'
    BY <1>0, <1>3 DEF NoAiPass, NoAnswer, CheckShapes, CheckTypeOK
  <2> QED
    BY <1>0, <1>3, <2>1, NothingNew DEF NoAiPass, NoAnswer, Covered
<1>4. CASE CheckEnds
  <2>1. CheckShapes'
    BY <1>0, <1>4 DEF CheckEnds, CheckShapes, CheckTypeOK
  <2> QED
    BY <1>0, <1>4, <2>1, NothingNew DEF CheckEnds, Covered
<1>5. CASE EndCheck
  <2>1. CheckShapes'
    BY <1>0, <1>5, NewTurn DEF EndCheck, CheckShapes, CheckTypeOK
  <2> QED
    BY <1>0, <1>5, <2>1, NothingNew DEF EndCheck, Covered
<1>6. ASSUME NEW a \in Packages, NEW on \in BOOLEAN, SetSkipped(a, on) PROVE CheckInv'
  <2>1. CheckShapes'
    BY <1>0, <1>6 DEF SetSkipped, checkPart, CheckShapes, CheckTypeOK
  <2> QED
    BY <1>0, <1>6, <2>1, NothingNew DEF SetSkipped, IdleCheck, checkPart, Covered
<1> QED
  BY <1>1, <1>2, <1>3, <1>4, <1>5, <1>6

(* A row of a manager's listing: it is offered when nothing covers it.     *)
LEMMA PushKeeps == ASSUME CheckInv, NEW a \in Packages, Push(a, version[a]) PROVE CheckInv'
<1> USE DEF CheckInv
<1> DEFINE new == [id |-> a, by |-> Head(turn), from |-> version[a], to |-> "listed"]
<1>1. /\ checkAt = "managers" /\ turn # <<>> /\ managed' = managed \cup {a}
      /\ UNCHANGED <<checkAt, turn, batch, target, machine, version, skips, lastCheck, overtook, settled>>
  BY DEF Push
<1>2. Head(turn) \in Sources /\ Head(turn) # "native" /\ version[a] \in Versions \cup {Unknown} /\ Base[a] \in Packages
  BY <1>1, NextTurn DEF CheckShapes, CheckTypeOK
<1>3. new \in Offered /\ new.id = a /\ new.by # "native" /\ new.from = version[a]
  BY <1>2 DEF Offered
<1>4. \/ /\ ~Skip(a) /\ {a, Base[a]} \cap seenIds = {} /\ Known(version[a])
         /\ seenIds' = seenIds \cup {a, Base[a]} /\ offers' = offers \cup {new}
      \/ UNCHANGED <<seenIds, offers>>
  BY DEF Push
<1> HIDE DEF new
<1>5. CheckShapes'
  BY <1>1, <1>2, <1>3, <1>4 DEF CheckShapes, CheckTypeOK
<1>6. DOMAIN batch = {}
  BY <1>1 DEF Covered
<1>7. \A o \in offers : o.by # "native"
  BY <1>6 DEF OffersReal
<1>8. Covered'
  BY <1>1, <1>3, <1>4, <1>6 DEF Covered
<1>9. OffersReal'
  <2>1. CASE UNCHANGED <<seenIds, offers>>
    BY <1>1, <1>7, <2>1 DEF OffersReal, Skip, Known
  <2>2. CASE /\ ~Skip(a) /\ {a, Base[a]} \cap seenIds = {} /\ Known(version[a])
             /\ offers' = offers \cup {new}
    <3>1. \A o \in offers : o.id # a /\ Base[o.id] # Base[a]
      BY <1>7, <2>2 DEF Covered
    <3>2. \A o \in offers' : ~Skip(o.id)' /\ Known(o.from)
      BY <1>1, <1>3, <2>2 DEF OffersReal, Skip, Known
    <3>3. \A o \in offers' : \A p \in offers' \ {o} : p.id # o.id /\ Base[p.id] # Base[o.id]
      BY <1>3, <1>7, <2>2, <3>1 DEF OffersReal
    <3>4. \A o \in offers' : o.by # "native"
      BY <1>3, <1>7, <2>2
    <3> QED
      BY <3>2, <3>3, <3>4 DEF OffersReal, Known
  <2> QED
    BY <1>4, <2>1, <2>2
<1>10. NotOfferedAgain'
  BY <1>1, <1>3, <1>4, <1>7 DEF NotOfferedAgain
<1>11. OvertookLater' /\ SweepFair'
  BY <1>1 DEF OvertookLater, SweepFair
<1> QED
  BY <1>5, <1>8, <1>9, <1>10, <1>11

(* The batch: no app in it was checked since one left out was.             *)
LEMMA BatchKeeps ==
    ASSUME CheckInv, NEW B \in SUBSET Packages, NEW w \in BOOLEAN, NEW r \in BOOLEAN, NEW t \in BOOLEAN,
           SelectBatch(B, w, r, t)
    PROVE  CheckInv'
<1> USE DEF CheckInv
<1> DEFINE all == Inventory(w, r)
           apps == IF target = "none" THEN all ELSE all \cap {target}
           times == IF t THEN lastCheck ELSE [a \in Packages |-> 0]
<1>1. /\ checkAt = "managers" /\ turn = <<>> /\ StalestOf(apps, B, times)
      /\ batch' = [b \in B |-> version[b]]
      /\ checkAt' = IF B = {} THEN "done" ELSE "asked"
      /\ overtook' = [a \in Packages |-> IF t /\ a \in apps THEN overtook[a] ELSE {}]
      /\ UNCHANGED <<turn, offers, seenIds, managed, target, machine, version, skips, lastCheck, settled>>
  BY DEF SelectBatch
<1>2. B \subseteq all /\ all \cap managed = {}
  BY <1>1 DEF StalestOf, Inventory, FromWinget, FromRegistry
<1>3. CheckShapes'
  BY <1>1 DEF CheckShapes, CheckTypeOK
<1>4. \A o \in offers : o.by # "native"
  BY <1>1 DEF OffersReal, Covered
<1>5. DOMAIN batch' = B /\ B \cap managed' = {}
  BY <1>1, <1>2
<1>6. Covered'
  BY <1>1, <1>4, <1>5 DEF Covered
<1>7. OffersReal' /\ NotOfferedAgain'
  BY <1>1, <1>4 DEF OffersReal, NotOfferedAgain, Skip, Known
<1>8. OvertookLater'
  BY <1>1 DEF OvertookLater, CheckShapes
<1>9. SweepFair'
  <2> SUFFICES ASSUME NEW a \in Packages \ B, NEW b \in B, b \in overtook'[a] PROVE FALSE
    BY <1>5 DEF SweepFair
  <2>1. t /\ a \in apps /\ b \in overtook[a]
    BY <1>1
  <2>2. lastCheck[b] <= lastCheck[a]
    BY <1>1, <2>1 DEF StalestOf
  <2>3. lastCheck[b] > lastCheck[a] /\ lastCheck[a] \in Nat /\ lastCheck[b] \in Nat
    BY <2>1 DEF OvertookLater, CheckShapes, CheckTypeOK
  <2> QED
    BY <2>2, <2>3
<1> QED
  BY <1>3, <1>6, <1>7, <1>8, <1>9

(* The answer: the batch has the latest time of all.                       *)
LEMMA AnswerKeeps == ASSUME CheckInv, Answer PROVE CheckInv'
<1> USE DEF CheckInv
<1>1. /\ checkAt' = "answered" /\ Now < MaxChecks /\ checkAt = "asked"
      /\ lastCheck' = [a \in Packages |-> IF a \in DOMAIN batch THEN Now + 1 ELSE lastCheck[a]]
      /\ overtook' = [a \in Packages |-> IF a \in DOMAIN batch THEN {} ELSE overtook[a] \cup DOMAIN batch]
      /\ UNCHANGED <<turn, offers, seenIds, managed, batch, target, machine, version, skips, settled>>
  BY DEF Answer, RecordChecks
<1>2. /\ lastCheck \in [Packages -> 0..MaxChecks] /\ Now \in 0..MaxChecks
      /\ \A a \in Packages : lastCheck[a] <= Now
      /\ DOMAIN batch \subseteq Packages /\ overtook \in [Packages -> SUBSET Packages]
  BY NowIs DEF CheckShapes, CheckTypeOK
<1>3. lastCheck' \in [Packages -> 0..MaxChecks]
  BY <1>1, <1>2
<1>4. CheckShapes'
  BY <1>1, <1>2, <1>3 DEF CheckShapes, CheckTypeOK
<1>5. Covered' /\ OffersReal' /\ NotOfferedAgain' /\ SweepFair'
  BY <1>1 DEF Covered, OffersReal, NotOfferedAgain, SweepFair, Skip, Known
<1>6. OvertookLater'
  <2> SUFFICES ASSUME NEW a \in Packages, NEW b \in overtook'[a] PROVE lastCheck'[b] > lastCheck'[a]
    BY DEF OvertookLater
  <2>1. a \notin DOMAIN batch /\ b \in overtook[a] \cup DOMAIN batch /\ b \in Packages
    BY <1>1, <1>2
  <2>2. lastCheck'[a] = lastCheck[a] /\ lastCheck[a] \in Nat /\ lastCheck[b] \in Nat /\ Now \in Nat
        /\ lastCheck[a] <= Now
    BY <1>1, <1>2, <2>1
  <2>3. CASE b \in DOMAIN batch
    BY <1>1, <2>1, <2>2, <2>3
  <2>4. CASE b \notin DOMAIN batch
    BY <1>1, <2>1, <2>2, <2>4 DEF OvertookLater
  <2> QED
    BY <2>3, <2>4
<1> QED
  BY <1>4, <1>5, <1>6

(* A reported update of an installed app is offered when it is newer.      *)
LEMMA ReportKeeps ==
    ASSUME CheckInv, NEW name, NEW latest \in Versions, Report(name, latest) PROVE CheckInv'
<1> USE DEF CheckInv
<1>1. PICK a \in Resolved(name) :
         /\ Known(batch[a]) /\ IsNewer(latest, batch[a]) /\ ~Skip(a) /\ a \notin seenIds
         /\ seenIds' = seenIds \cup {a}
         /\ offers' = offers \cup {[id |-> a, by |-> "native", from |-> batch[a], to |-> latest]}
  BY DEF Report
<1>2. /\ checkAt = "answered"
      /\ UNCHANGED <<checkAt, turn, managed, batch, target, machine, version, skips, lastCheck, overtook, settled>>
  BY DEF Report
<1>3. a \in DOMAIN batch /\ a \in Packages /\ batch[a] \in Versions \cup {Unknown} /\ a \notin managed
  BY DEF Resolved, CheckShapes, CheckTypeOK, Covered
<1> DEFINE new == [id |-> a, by |-> "native", from |-> batch[a], to |-> latest]
<1>4. /\ new \in Offered /\ new.id = a /\ new.by = "native" /\ new.from = batch[a] /\ new.to = latest
      /\ offers' = offers \cup {new}
  <2>1. new \in Offered
    BY <1>3 DEF Offered
  <2> QED
    BY <1>1, <2>1
<1> HIDE DEF new
<1>5. CheckShapes'
  BY <1>1, <1>2, <1>3, <1>4 DEF CheckShapes, CheckTypeOK
<1>6. Covered'
  BY <1>1, <1>2, <1>3, <1>4 DEF Covered
<1>7. \A o \in offers : o.id # a
  BY <1>1 DEF Covered
<1>8. OffersReal'
  <2>1. \A o \in offers' : ~Skip(o.id)' /\ Known(o.from)
    BY <1>1, <1>2, <1>4 DEF OffersReal, Skip, Known
  <2>2. \A o \in offers' : \A p \in offers' \ {o} : p.id # o.id
    BY <1>4, <1>7 DEF OffersReal
  <2>3. \A o \in offers' : \A p \in offers' \ {o} : "native" \notin {o.by, p.by} => Base[p.id] # Base[o.id]
    BY <1>4 DEF OffersReal
  <2>4. \A o \in offers' : o.by = "native" => o.id \in DOMAIN batch' /\ o.id \notin managed'
    BY <1>2, <1>3, <1>4 DEF OffersReal
  <2> QED
    BY <2>1, <2>2, <2>3, <2>4 DEF OffersReal, Known
<1>9. NotOfferedAgain'
  <2>1. ASSUME NEW done \in settled[a], VerdictOn(batch[a], done) = "verified" PROVE latest # done
    <3>1. AnyVersion(done) /\ AnyVersion(batch[a])
      BY <1>3, <2>1, KnownVersions DEF CheckShapes
    <3> QED
      BY <1>1, <2>1, <3>1, VerifiedIsNotNewer
  <2> QED
    BY <1>2, <1>4, <2>1 DEF NotOfferedAgain
<1>10. OvertookLater' /\ SweepFair'
  BY <1>2 DEF OvertookLater, SweepFair
<1> QED
  BY <1>5, <1>6, <1>8, <1>9, <1>10

(* An install takes the only offer of its app away.                        *)
LEMMA InstallKeeps ==
    ASSUME CheckInv, NEW o \in offers, NEW found \in Versions, Install(o, found) PROVE CheckInv'
<1> USE DEF CheckInv
<1>1. /\ checkAt = "collected" /\ o.by = "native" /\ offers' = offers \ {o}
      /\ version' = [version EXCEPT ![o.id] = found]
      /\ settled' = [settled EXCEPT ![o.id] = IF VerdictOn(found, o.to) = "verified" THEN @ \cup {o.to} ELSE @]
      /\ UNCHANGED <<checkAt, turn, seenIds, managed, batch, target, machine, skips, lastCheck, overtook>>
  BY DEF Install
<1>2. o.to \in Versions /\ o.id \in Packages
  BY <1>1 DEF Covered, CheckShapes, Offered
<1>3. CheckShapes'
  <2>1. version' \in [Packages -> Versions \cup {Unknown}] /\ settled' \in [Packages -> SUBSET Versions]
    BY <1>1, <1>2 DEF CheckShapes, CheckTypeOK
  <2> QED
    BY <1>1, <2>1 DEF CheckShapes, CheckTypeOK
<1>4. \A p \in offers' : settled'[p.id] = settled[p.id]
  <2>1. \A p \in offers' : p.id # o.id /\ p.id \in Packages
    BY <1>1 DEF OffersReal, CheckShapes, Offered
  <2> QED
    BY <1>1, <2>1 DEF CheckShapes
<1>5. DOMAIN batch \cap managed = {}
  BY DEF Covered
<1> QED
  BY <1>1, <1>3, <1>4, <1>5, NothingNew

(* Every step keeps the invariant. *)
LEMMA CheckNextInv == CheckInv /\ [CheckNext]_checkVars => CheckInv'
<1> SUFFICES ASSUME CheckInv, [CheckNext]_checkVars PROVE CheckInv'
  OBVIOUS
<1>1. CASE CheckNext
  BY <1>1, QuietSteps, PushKeeps, BatchKeeps, AnswerKeeps, ReportKeeps, InstallKeeps DEF CheckNext
<1>2. CASE UNCHANGED checkVars
  BY <1>2 DEF checkVars, checkPart, CheckInv, CheckShapes, CheckTypeOK, Covered, OffersReal, NotOfferedAgain,
              OvertookLater, SweepFair, Skip, Known
<1> QED
  BY <1>1, <1>2

(* A check keeps its invariant, for any packages, managers and versions. *)
THEOREM CheckInvariance == CheckSpec => []CheckInv
  BY CheckInitInv, CheckNextInv, PTL DEF CheckSpec

(* What is offered is not ignored, has a version and is covered by no      *)
(* other offer; what was verified is not offered again while it stays      *)
(* installed; and the AI is asked first of the apps that wait longest.     *)
THEOREM CheckIsSound == CheckSpec => []CheckSound
<1>1. CheckInv => CheckSound
  BY DEF CheckInv, CheckShapes, CheckSound
<1> QED
  BY <1>1, CheckInvariance, PTL

-----------------------------------------------------------------------------
(* The heal of one app *)

(* The staging directory. *)
StagedFiles == [dir : BOOLEAN, digest : {"none", "vendor", "other", "changed"},
                checked : {"none", "vendor", "other"}, kind : Installers \cup {"none"},
                silent : BOOLEAN]

(* The types HealingTypeOK leaves out, and what a heal under way has left. *)
HealShapes ==
    /\ staged \in StagedFiles
    /\ offer.methods \in Seq(Methods)
    /\ stage # "idle" => method \in Methods /\ count < MaxAttempts

(* The last failure does not forbid the attempt that follows it. *)
MayGoOn == stage \notin {"idle", "judge"} => ~StopsHealing(category)

(* What waits to be launched has been compared with the vendor's hash. *)
ComparedHash == stage = "launch" /\ plan.sha = "given" => staged.checked = "vendor"

HealingInv ==
    /\ HealingTypeOK /\ HealShapes /\ MayGoOn /\ ComparedHash
    /\ RemediesJustified /\ StagingReclaimed

(* The foremost of the methods left is one of them. *)
LEMMA ForemostIsUntried ==
    ASSUME NEW c, NEW gone, c.methods \in Seq(Methods),
           \E i \in DOMAIN c.methods : c.methods[i] \notin gone
    PROVE  Foremost(c, gone) \in Methods \ gone
<1> DEFINE quick == {i \in Untried(c, gone) : c.methods[i] \notin c.slow}
           from  == IF quick = {} THEN Untried(c, gone) ELSE quick
<1>1. from # {} /\ from \subseteq Untried(c, gone) /\ from \in SUBSET Nat
  BY DEF Untried
<1>2. PICK i \in from : \A k \in from : i <= k
  <2> HIDE DEF from
  <2> QED
    BY <1>1, Least
<1>3. /\ (CHOOSE i_1 \in from : \A k \in from : i_1 <= k) \in Untried(c, gone)
      /\ Foremost(c, gone) = c.methods[CHOOSE i_1 \in from : \A k \in from : i_1 <= k]
  BY <1>1, <1>2 DEF Foremost
<1> HIDE DEF from
<1> QED
  BY <1>3 DEF Untried

(* An empty staging directory. *)
LEMMA NoFileShape == NoFile \in StagedFiles /\ ~NoFile.dir
  BY DEF NoFile, StagedFiles

(* The service starts with no heal and nothing staged. *)
LEMMA HealingBegins == HealingInit => HealingInv
<1> SUFFICES ASSUME HealingInit PROVE HealingInv
  OBVIOUS
<1>1. HealingTypeOK
  <2>1. 0 \in 0..MaxAttempts
    BY HealingAssumption
  <2> QED
    BY <2>1 DEF HealingInit, HealingTypeOK, NoFile, Remedies
<1>2. HealShapes
  BY NoFileShape DEF HealingInit, HealShapes, NoOffer
<1> QED
  BY <1>1, <1>2, NoFileShape DEF HealingInit, HealingInv, MayGoOn, ComparedHash, RemediesJustified, StagingReclaimed

(* Nothing of the invariant is in an idle heal but the types. *)
LEMMA IdleFits ==
    ASSUME HealingInv, GoIdle, triedWith' \in SUBSET Methods, count' \in 0..MaxAttempts,
           category' \in Categories \cup {"none", "ok"}, leftover' \in BOOLEAN,
           staged' \in StagedFiles, staged'.dir => leftover'
    PROVE  HealingInv'
<1>1. HealingTypeOK'
  BY DEF GoIdle, HealingTypeOK, StagedFiles, Remedies
<1>2. HealShapes'
  BY DEF GoIdle, HealShapes, NoOffer
<1> QED
  BY <1>1, <1>2 DEF GoIdle, HealingInv, MayGoOn, ComparedHash, RemediesJustified, StagingReclaimed

(* An attempt that ends leaves no installer behind. *)
LEMMA EndFits ==
    ASSUME HealingInv, stage \notin {"idle", "judge", "decide"}, NEW c \in Categories \cup {"ok"},
           EndAttempt(c), UNCHANGED <<corrected, firstRead>>,
           staged' \in StagedFiles, leftover' \in BOOLEAN, staged'.dir => leftover'
    PROVE  HealingInv'
<1>1. HealingTypeOK'
  BY DEF HealingInv, EndAttempt, HealingTypeOK, StagedFiles
<1>2. HealShapes'
  BY DEF HealingInv, EndAttempt, HealShapes
<1> QED
  BY <1>1, <1>2 DEF EndAttempt, HealingInv, MayGoOn, ComparedHash, RemediesJustified, StagingReclaimed

(* Within an attempt, only the stage and what the attempt holds change. *)
LEMMA WithinFits ==
    ASSUME HealingInv, stage \notin {"idle", "judge", "decide"},
           stage' \in {"command", "plan", "download", "launch", "verify"},
           UNCHANGED <<offer, triedWith, count, method, remedy, category>>,
           corrected' \in BOOLEAN, firstRead' \in {"none", "unverified", "mismatch"},
           staged' \in StagedFiles, leftover' \in BOOLEAN, ComparedHash',
           staged'.dir => leftover' \/ stage' \in {"download", "launch"}
    PROVE  HealingInv'
<1>1. HealingTypeOK'
  BY DEF HealingInv, HealingTypeOK, StagedFiles
<1>2. HealShapes'
  BY DEF HealingInv, HealShapes
<1> QED
  BY <1>1, <1>2 DEF HealingInv, MayGoOn, RemediesJustified, StagingReclaimed

(* classify_error always gives a category. *)
LEMMA Classified == \A code, says : Classify(code, says) \in Categories
<1> SUFFICES ASSUME NEW code, NEW says PROVE Classify(code, says) \in Categories
  OBVIOUS
<1> DEFINE first == "hash" \in says
           second == "hash" \notin says /\ "signature" \in says
           third == says \cap Terminal = {} /\ "modified" \in says
           fourth == says \cap (Terminal \cup {"modified"}) = {} /\ (code = "3010" \/ "reboot" \in says)
<1> QED
  BY DEF Classify, Categories, Terminal

(* Outside the two stages that need it, no installer is staged. *)
LEMMA NotStaged ==
    ASSUME HealingInv, stage \notin {"download", "launch"}
    PROVE  staged \in StagedFiles /\ leftover \in BOOLEAN /\ (staged.dir => leftover)
  BY DEF HealingInv, HealingTypeOK, HealShapes, StagingReclaimed

(* A removal that fails is one that left the directory. *)
LEMMA RemovalIs ==
    ASSUME HealingInv, RemoveStagingDir
    PROVE  staged' \in StagedFiles /\ leftover' \in BOOLEAN /\ (staged'.dir => leftover')
  BY NoFileShape DEF RemoveStagingDir, HealingInv, HealingTypeOK, StagedFiles, NoFile

(* A heal begins with a method the candidate has and no remedy. *)
LEMMA TakeKeeps ==
    ASSUME HealingInv, NEW c \in Offers, TakeApp(c) PROVE HealingInv'
<1>1. c.methods \in Seq(Methods) /\ c.methods # <<>>
  BY HealingAssumption DEF TakeApp
<1>2. \E i \in DOMAIN c.methods : c.methods[i] \notin {}
  <2>1. 1 \in DOMAIN c.methods
    BY <1>1
  <2> QED
    BY <2>1
<1>3. method' \in Methods
  BY <1>1, <1>2, ForemostIsUntried DEF TakeApp
<1>4. 0 \in 0..MaxAttempts /\ 0 < MaxAttempts
  BY HealingAssumption
<1>5. HealingTypeOK'
  BY <1>3, <1>4 DEF TakeApp, HealingInv, HealingTypeOK, Remedies
<1>6. HealShapes'
  BY <1>1, <1>3, <1>4 DEF TakeApp, HealingInv, HealShapes
<1>7. MayGoOn' /\ ComparedHash' /\ RemediesJustified'
  BY DEF TakeApp, MayGoOn, ComparedHash, RemediesJustified, StopsHealing, Terminal
<1>8. StagingReclaimed'
  BY NotStaged DEF TakeApp, StagingReclaimed
<1> QED
  BY <1>5, <1>6, <1>7, <1>8 DEF HealingInv

(* dispatch ends the attempt or gives it to its method. *)
LEMMA DispatchKeeps ==
    ASSUME HealingInv,
           DispatchKillFails \/ DispatchRefused \/ \E machineWide \in BOOLEAN : Dispatch(machineWide)
    PROVE  HealingInv'
<1>1. CASE DispatchKillFails
  BY <1>1, NotStaged, EndFits DEF DispatchKillFails, Categories
<1>2. CASE DispatchRefused
  <2>1. PICK c \in Categories : EndAttempt(c)
    BY <1>2 DEF DispatchRefused, Categories
  <2> QED
    BY <1>2, <2>1, NotStaged, EndFits DEF DispatchRefused
<1>3. ASSUME NEW machineWide \in BOOLEAN, Dispatch(machineWide) PROVE HealingInv'
  <2>1. stage' \in {"plan", "command"} /\ ComparedHash'
    BY <1>3 DEF Dispatch, ComparedHash
  <2> QED
    BY <1>3, <2>1, NotStaged, WithinFits DEF Dispatch
<1> QED
  BY <1>1, <1>2, <1>3

(* A package manager answers, and winget is run again or the attempt ends. *)
LEMMA CommandsKeep == ASSUME HealingInv, Commands PROVE HealingInv'
<1> PICK code \in Codes, says \in Outputs :
        CommandSucceeds(code) \/ WingetAgain(code, says) \/ CommandFails(code, says)
  BY DEF Commands
<1>0. stage = "command" /\ corrected \in BOOLEAN /\ firstRead \in {"none", "unverified", "mismatch"}
  BY DEF CommandSucceeds, WingetAgain, CommandFails, HealingInv, HealingTypeOK
<1>1. CASE CommandSucceeds(code)
  <2>1. ComparedHash' /\ stage' = "verify"
    BY <1>1 DEF CommandSucceeds, Reread, ComparedHash
  <2> QED
    BY <1>0, <1>1, <2>1, NotStaged, WithinFits DEF CommandSucceeds, Reread
<1>2. CASE WingetAgain(code, says)
  <2>1. ComparedHash' /\ stage' = "command"
    BY <1>0, <1>2 DEF WingetAgain, ComparedHash
  <2> QED
    BY <1>0, <1>2, <2>1, NotStaged, WithinFits DEF WingetAgain
<1>3. CASE CommandFails(code, says)
  BY <1>0, <1>3, NotStaged, EndFits, Classified DEF CommandFails
<1> QED
  BY <1>1, <1>2, <1>3

(* The AI answers for an installer. *)
LEMMA PlansKeep == ASSUME HealingInv, Plans PROVE HealingInv'
<1> PICK raw \in RawPlans : AskAgain(raw) \/ PlanRefused(raw) \/ PlanAccepted(raw)
  BY DEF Plans
<1>0. stage = "plan" /\ leftover \in BOOLEAN /\ corrected \in BOOLEAN
      /\ firstRead \in {"none", "unverified", "mismatch"}
  BY DEF AskAgain, PlanRefused, PlanAccepted, HealingInv, HealingTypeOK
<1>1. CASE AskAgain(raw)
  <2>1. ComparedHash' /\ stage' = "plan"
    BY <1>0, <1>1 DEF AskAgain, ComparedHash
  <2> QED
    BY <1>0, <1>1, <2>1, NotStaged, WithinFits DEF AskAgain
<1>2. CASE PlanRefused(raw)
  BY <1>0, <1>2, NotStaged, EndFits DEF PlanRefused, Categories
<1>3. CASE PlanAccepted(raw)
  <2>1. ComparedHash' /\ stage' = "download" /\ staged' \in StagedFiles
    BY <1>3, NoFileShape DEF PlanAccepted, ComparedHash, StagedFiles
  <2> QED
    BY <1>0, <1>3, <2>1, WithinFits DEF PlanAccepted
<1> QED
  BY <1>1, <1>2, <1>3

(* A download fails, is refused by the gates or is staged. *)
LEMMA DownloadsKeep == ASSUME HealingInv, Downloads PROVE HealingInv'
<1>0. corrected \in BOOLEAN /\ leftover \in BOOLEAN /\ firstRead \in {"none", "unverified", "mismatch"}
  BY DEF HealingInv, HealingTypeOK
<1>1. ASSUME NEW why \in DOMAIN Failures, DownloadFails(why) PROVE HealingInv'
  <2>1. Failures[why] \in Categories
    BY <1>1 DEF Failures, Categories
  <2> QED
    BY <1>1, <2>1, RemovalIs, EndFits DEF DownloadFails
<1>2. ASSUME NEW sent, NEW signer, NEW policy, IntegrityFails(sent, signer, policy) PROVE HealingInv'
  BY <1>2, RemovalIs, EndFits DEF IntegrityFails, Categories, Terminal
<1>3. ASSUME NEW sent \in {"vendor", "other"}, NEW signer, NEW policy, NEW kind \in Installers,
             Stage(sent, signer, policy, kind)
      PROVE  HealingInv'
  <2>1. Silent(kind, plan) \in BOOLEAN
    BY DEF Silent
  <2>2. staged' \in StagedFiles /\ staged'.checked = sent
    BY <1>3, <2>1 DEF Stage, StagedFiles
  <2>3. ComparedHash' /\ stage = "download" /\ stage' = "launch"
    BY <1>3, <2>2 DEF Stage, HashOk, ComparedHash, attempt
  <2>4. UNCHANGED <<offer, triedWith, count, method, remedy, category, corrected, firstRead, leftover>>
    BY <1>3 DEF Stage, attempt
  <2> QED
    BY <1>0, <2>2, <2>3, <2>4, WithinFits
<1> QED
  BY <1>1, <1>2, <1>3 DEF Downloads

(* A staged installer changes on disk, is refused, fails or succeeds. *)
LEMMA LaunchKeeps ==
    ASSUME HealingInv, Changed \/ LaunchRefused \/ LaunchFails \/ LaunchSucceeds
    PROVE  HealingInv'
<1>0. /\ corrected \in BOOLEAN /\ firstRead \in {"none", "unverified", "mismatch"} /\ staged \in StagedFiles
      /\ leftover \in BOOLEAN
  BY DEF HealingInv, HealingTypeOK, HealShapes
<1>1. CASE Changed
  <2>1. staged' \in StagedFiles /\ staged'.checked = staged.checked
    BY <1>0, <1>1 DEF Changed, StagedFiles
  <2>2. ComparedHash' /\ stage = "launch" /\ stage' = "launch"
    BY <1>1, <2>1 DEF Changed, HealingInv, ComparedHash, attempt
  <2>3. UNCHANGED <<offer, triedWith, count, method, remedy, category, corrected, firstRead, leftover>>
    BY <1>1 DEF Changed, attempt
  <2> QED
    BY <1>0, <2>1, <2>2, <2>3, WithinFits
<1>2. CASE LaunchRefused
  <2>1. PICK c \in Categories : EndAttempt(c)
    BY <1>2 DEF LaunchRefused, Categories, Terminal
  <2> QED
    BY <1>2, <2>1, RemovalIs, EndFits DEF LaunchRefused
<1>3. CASE LaunchFails
  BY <1>3, RemovalIs, EndFits DEF LaunchFails, Categories
<1>4. CASE LaunchSucceeds
  <2>1. ComparedHash' /\ stage' = "verify"
    BY <1>4 DEF LaunchSucceeds, ComparedHash
  <2> QED
    BY <1>0, <1>4, <2>1, RemovalIs, WithinFits DEF LaunchSucceeds
<1> QED
  BY <1>1, <1>2, <1>3, <1>4

(* A version is read back. *)
LEMMA ReadKeeps == ASSUME HealingInv, NEW read, ReadVersion(read) PROVE HealingInv'
<1>0. corrected \in BOOLEAN /\ stage = "verify"
  BY DEF ReadVersion, HealingInv, HealingTypeOK
<1>1. CASE read # "none" /\ Verdict(read) # "mismatch"
  BY <1>0, <1>1, NotStaged, EndFits DEF ReadVersion
<1>2. CASE ~(read # "none" /\ Verdict(read) # "mismatch") /\ firstRead = "none"
  <2>1. ComparedHash' /\ stage' = "verify"
    BY <1>0, <1>2 DEF ReadVersion, ComparedHash
  <2> QED
    BY <1>0, <1>2, <2>1, NotStaged, WithinFits DEF ReadVersion
<1>3. CASE ~(read # "none" /\ Verdict(read) # "mismatch") /\ firstRead # "none"
  <2>1. PICK c \in Categories \cup {"ok"} : EndAttempt(c)
    BY <1>3 DEF ReadVersion, Success, Categories
  <2> QED
    BY <1>0, <1>3, <2>1, NotStaged, EndFits DEF ReadVersion
<1> QED
  BY <1>1, <1>2, <1>3

(* heal counts the attempt, and goes on only after a failure that allows it. *)
LEMMA JudgeKeeps == ASSUME HealingInv, Judge PROVE HealingInv'
<1>1. /\ stage = "judge" /\ method \in Methods /\ count < MaxAttempts /\ count \in 0..MaxAttempts
      /\ category \in Categories \cup {"none", "ok"} /\ leftover \in BOOLEAN /\ triedWith \subseteq Methods
  BY DEF Judge, HealingInv, HealingTypeOK, HealShapes
<1>2. count' \in 0..MaxAttempts /\ triedWith' \in SUBSET Methods /\ UNCHANGED <<category, staged, leftover>>
  BY <1>1, HealingAssumption DEF Judge
<1>3. CASE category = "ok" \/ StopsHealing(category) \/ count + 1 >= MaxAttempts
  BY <1>1, <1>2, <1>3, NotStaged, IdleFits DEF Judge
<1>4. CASE ~(category = "ok" \/ StopsHealing(category) \/ count + 1 >= MaxAttempts)
  <2>1. /\ stage' = "decide" /\ count' < MaxAttempts
        /\ UNCHANGED <<offer, method, remedy, wg, plan, corrected, firstRead>>
    BY <1>1, <1>4, HealingAssumption DEF Judge
  <2>2. HealingTypeOK'
    BY <1>2, <2>1 DEF HealingInv, HealingTypeOK
  <2>3. HealShapes'
    BY <1>1, <1>2, <2>1 DEF HealingInv, HealShapes
  <2>4. MayGoOn' /\ ComparedHash' /\ RemediesJustified'
    BY <1>2, <1>4, <2>1 DEF MayGoOn, ComparedHash, RemediesJustified, StopsHealing
  <2>5. StagingReclaimed'
    BY <1>1, <1>2, <2>1, NotStaged DEF StagingReclaimed
  <2> QED
    BY <2>2, <2>3, <2>4, <2>5 DEF HealingInv
<1> QED
  BY <1>3, <1>4

(* The next step the updater may take: a method it has, a remedy that answers the failure. *)
Allowed(next) ==
    \/ next.step = "give_up" \/ next.remedy = "after_reboot"
    \/ /\ next.method \in Methods /\ next.remedy \in Remedies
       /\ CASE next.remedy \in {"kill", "unlock"} -> category = "lock"
            [] next.remedy = "force" -> category = "needs_force"
            [] OTHER -> next.remedy = "none"

(* The deterministic step is allowed. *)
LEMMA LadderAllowed == ASSUME HealingInv PROVE Allowed(Ladder)
<1>1. CASE StopsHealing(category) \/ Available \subseteq triedWith
  BY <1>1 DEF Ladder, Allowed, GiveUp
<1>2. CASE ~(StopsHealing(category) \/ Available \subseteq triedWith)
  <2>1. \E i \in DOMAIN offer.methods : offer.methods[i] \notin triedWith
    BY <1>2 DEF Available
  <2>2. Foremost(offer, triedWith) \in Methods
    BY <2>1, ForemostIsUntried DEF HealingInv, HealShapes
  <2> QED
    BY <1>2, <2>2 DEF Ladder, Allowed, SwitchTo, Remedies
<1> QED
  BY <1>1, <1>2

(* So is whatever Rust leaves of an AI proposal. *)
LEMMA ValidatedAllowed == ASSUME HealingInv, NEW p \in Proposals PROVE Allowed(Validated(p))
<1>0. Allowed(Ladder)
  BY LadderAllowed
<1>1. CASE StopsHealing(category)
  BY <1>0, <1>1 DEF Validated
<1>2. CASE ~StopsHealing(category) /\ p.step = "give_up"
  BY <1>2 DEF Validated, Allowed, GiveUp
<1>3. CASE ~StopsHealing(category) /\ p.step # "give_up"
  <2>1. CASE Validated(p) = Ladder
    BY <1>0, <2>1
  <2>2. CASE Validated(p) = p /\ p.method \in Available
             /\ (IF p.step = "switch" THEN p.method \notin triedWith ELSE RemedyOk(p.remedy, p.method))
    <3>1. p.method \in Methods
      BY <2>2 DEF Available, HealingInv, HealShapes
    <3>2. CASE p.step = "switch"
      <4>1. p.remedy = "none"
        BY <3>2 DEF Proposals, GiveUp, SwitchTo, RetryWith
      <4> QED
        BY <2>2, <3>1, <4>1 DEF Allowed, Remedies
    <3>3. CASE p.step # "switch"
      BY <2>2, <3>1, <3>3 DEF Allowed, RemedyOk, Remedies
    <3> QED
      BY <3>2, <3>3
  <2> QED
    BY <1>3, <2>1, <2>2 DEF Validated
<1> QED
  BY <1>1, <1>2, <1>3

(* Taking an allowed step. *)
LEMMA TakeNextKeeps ==
    ASSUME HealingInv, stage = "decide", NEW next, Allowed(next), Take(next) PROVE HealingInv'
<1>0. /\ count \in 0..MaxAttempts /\ triedWith \in SUBSET Methods
      /\ category \in Categories \cup {"none", "ok"} /\ leftover \in BOOLEAN
  BY DEF HealingInv, HealingTypeOK
<1>1. CASE next.step = "give_up" \/ next.remedy = "after_reboot"
  BY <1>0, <1>1, NotStaged, IdleFits DEF Take
<1>2. CASE ~(next.step = "give_up" \/ next.remedy = "after_reboot")
  <2>1. /\ stage' = "dispatch" /\ method' = next.method /\ remedy' = next.remedy
        /\ UNCHANGED <<offer, triedWith, count, category, wg, plan, corrected, firstRead, staged, leftover>>
    BY <1>2 DEF Take
  <2>2. HealingTypeOK'
    BY <1>2, <2>1 DEF HealingInv, HealingTypeOK, Allowed
  <2>3. HealShapes'
    BY <1>2, <2>1 DEF HealingInv, HealShapes, Allowed
  <2>4. MayGoOn' /\ ComparedHash'
    BY <2>1 DEF HealingInv, MayGoOn, ComparedHash, StopsHealing
  <2>5. RemediesJustified'
    BY <1>2, <2>1 DEF Allowed, RemediesJustified
  <2>6. StagingReclaimed'
    BY <2>1, NotStaged DEF StagingReclaimed
  <2> QED
    BY <2>2, <2>3, <2>4, <2>5, <2>6 DEF HealingInv
<1> QED
  BY <1>1, <1>2

(* Every step of a heal, the watchdog's abort and a restart keep it.       *)
THEOREM HealingInvariance == HealingSpec => []HealingInv
<1>1. HealingInit => HealingInv
  BY HealingBegins
<1>2. HealingInv /\ [HealingNext]_healVars => HealingInv'
  <2> SUFFICES ASSUME HealingInv, [HealingNext]_healVars PROVE HealingInv'
    OBVIOUS
  <2>1. CASE \E c \in Offers : TakeApp(c)
    BY <2>1, TakeKeeps
  <2>2. CASE DispatchKillFails \/ DispatchRefused \/ \E machineWide \in BOOLEAN : Dispatch(machineWide)
    BY <2>2, DispatchKeeps
  <2>3. CASE Commands \/ Plans \/ Downloads
    BY <2>3, CommandsKeep, PlansKeep, DownloadsKeep
  <2>4. CASE Changed \/ LaunchRefused \/ LaunchFails \/ LaunchSucceeds
    BY <2>4, LaunchKeeps
  <2>5. CASE \E read \in {"none", "old", "new", "odd"} : ReadVersion(read)
    BY <2>5, ReadKeeps
  <2>6. CASE Judge
    BY <2>6, JudgeKeeps
  <2>7. CASE DecideAlone
    BY <2>7, LadderAllowed, TakeNextKeeps DEF DecideAlone
  <2>8. CASE \E p \in Proposals : DecideByAi(p)
    BY <2>8, ValidatedAllowed, TakeNextKeeps DEF DecideByAi
  <2>9. CASE Abort \/ CleanUp
    <3>1. /\ GoIdle /\ triedWith' = {} /\ count' = 0 /\ category' = "none"
          /\ leftover' \in BOOLEAN /\ staged' \in StagedFiles /\ (staged'.dir => leftover')
      BY <2>9, NoFileShape DEF Abort, CleanUp, HealingInv, HealingTypeOK, HealShapes
    <3>2. 0 \in 0..MaxAttempts
      BY HealingAssumption
    <3> QED
      BY <3>1, <3>2, IdleFits
  <2>10. CASE UNCHANGED healVars
    BY <2>10 DEF healVars, attempt, HealingInv, HealingTypeOK, HealShapes, MayGoOn, ComparedHash,
                 RemediesJustified, StagingReclaimed, StopsHealing
  <2> QED
    BY <2>1, <2>2, <2>3, <2>4, <2>5, <2>6, <2>7, <2>8, <2>9, <2>10 DEF HealingNext
<1> QED
  BY <1>1, <1>2, PTL DEF HealingSpec

(* heal stops at an integrity failure, a reboot or an app already current  *)
(* and after the configured attempts; a remedy answers the failure that    *)
(* called for it; what runs passed the gates; what was staged is removed,  *)
(* but by the watchdog and by a removal that fails.                        *)
THEOREM HealingIsSound == HealingSpec => HealingSound
<1>1. HealingInv => IntegrityFinal
  BY DEF HealingInv, HealingTypeOK, HealShapes, MayGoOn, IntegrityFinal
<1>2. HealingInv => HealingTypeOK /\ RemediesJustified /\ StagingReclaimed
  BY DEF HealingInv
<1>3. HealingInv /\ [HealingNext]_healVars
      => [LaunchFails \/ LaunchSucceeds =>
            /\ staged.digest = staged.checked
            /\ plan.sha = "given" => staged.checked = "vendor"]_healVars
  BY DEF HealingInv, ComparedHash, LaunchFails, LaunchSucceeds, Unchanged
<1> QED
  BY <1>1, <1>2, <1>3, HealingInvariance, PTL DEF HealingSpec, HealingSound, RunsWhatWasChecked
=============================================================================
