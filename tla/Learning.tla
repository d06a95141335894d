------------------------------ MODULE Learning ------------------------------
(***************************************************************************)
(* What Eir learns about its machine (learn/, feedback/mod.rs).  Detectors *)
(* count evidence in the audit tables and keep facts: an app that updates  *)
(* itself is skipped, a failing method is tried last, an ineffective fix   *)
(* or a rejected action is trusted less.  The update cycle and the         *)
(* decision loop write facts, the user pins, disables, forgets and clears  *)
(* them, and an AI call may word one; all share one table.                 *)
(***************************************************************************)
EXTENDS Integers, Sequences, FiniteSets

CONSTANTS
    Actions,             \* fixes: [type, label, key, target]
    Attempts,            \* outcomes of updates: [app, method, ok, category, late]
    BaseOf,              \* app |-> its identity without a package suffix
    Histories,           \* what earlier runs, of other builds maybe, have left:
                   \* [attempts, feedback, rejections, facts]
    Quorum, PenaltyCap,  \* observations for a fact, largest penalty in percent
    MaxEvidence, MaxCycles, MaxOps, MaxCalls \* bounds

InForce0 == {"active", "user_pinned"}
ByUser == {"user_pinned", "user_disabled"}

\* Where a fact comes from: those about updates name an app and rest on no
\* refused installer; those about fixes have one name, a type, label or key.
Sourced(x) ==
    IF x.kind \in {"self_updater", "method"}
    THEN /\ \A a \in Actions : x.subject[1] \notin {a.label, a.type}
         /\ \A y \in x.basis : y.row.category # "hash_mismatch"
    ELSE x.kind \in {"fix", "rejected"} /\ x.subject = <<x.subject[1]>>

\* A row of learned_facts.
FactFits(f) ==
    /\ f = [id |-> f.id, kind |-> f.kind, subject |-> f.subject, amount |-> f.amount,
            status |-> f.status, tried |-> f.tried, text |-> f.text, basis |-> f.basis]
    /\ f.id \in Nat /\ f.amount \in Int /\ f.tried \in BOOLEAN
    /\ f.status \in InForce0 \cup ByUser \cup {"expired"} /\ Sourced(f)

Same(f, c) == f.kind = c.kind /\ f.subject = c.subject

\* What an earlier run can have left.
HistoryFits(h) ==
    /\ \A x \in h.attempts : x.row \in Attempts
    /\ IsFiniteSet(h.rejections) /\ \A x \in h.rejections : x.subject = <<x.subject[1]>>
    /\ IsFiniteSet(h.facts)
    /\ \A f \in h.facts : FactFits(f) /\ f.id <= Cardinality(h.facts)
    /\ \A f, g \in h.facts : (Same(f, g) \/ f.id = g.id) => f = g

\* A label starts with the type of its fix, and no app is named like a fix.
ASSUME LearningAssumption ==
    /\ {Quorum, PenaltyCap, MaxEvidence, MaxCycles, MaxOps, MaxCalls} \subseteq Nat \ {0}
    /\ \A a, b \in Actions : b.label \in {a.label, a.type} => b.type = a.type
    /\ \A r \in Attempts, a \in Actions : BaseOf[r.app] \notin {a.label, a.type}
    /\ \A h \in Histories : HistoryFits(h)

VARIABLES
    attempts,          \* update_attempts in the window: set of [n, cycle, row]
    feedback,          \* execution_feedback: set of [n, act, ok, age, res]
    rejections,        \* approval_rejections in the window: set of [n, subject]
    facts,             \* learned_facts, a subject is a sequence: [id, kind, subject, amount, status, tried, text, basis]
    nextFact,          \* the AUTOINCREMENT key
    cycleOn, cycle,    \* the update cycle: under way, its number
    job,               \* its detectors: [at, kind, todo, current, stale, later]
    labelFlag, label,  \* labelling, the task that words a fact: [at, id]
    calls,             \* history: the facts the AI was asked about
    chosen,            \* history: what the user made of a fact: [id, status]
    ops, seen          \* user operations so far, rows of evidence so far

evidence == <<attempts, feedback, rejections, seen>>
factVars == <<facts, nextFact>>
labelVars == <<labelFlag, label, calls>>
learnVars == <<evidence, factVars, cycleOn, cycle, job, labelVars, chosen, ops>>

-----------------------------------------------------------------------------
(* The detectors, functions of the evidence *)

\* action_type: the variant a label starts with; a key has no such start.
ActionType(subject) ==
    IF \E a \in Actions : <<a.label>> = subject
    THEN (CHOOSE a \in Actions : <<a.label>> = subject).type ELSE subject[1]

SecurityTypes == {"FirewallEnable", "DefenderSignatureUpdate", "DefenderRealtimeEnable"}
IsSecurity(subject) == ActionType(subject) \in SecurityTypes

Fact(kind, subject, basis) == [kind |-> kind, subject |-> subject, basis |-> basis]

\* Mutant: any run that was cut short counts, a refused installer too.
CutShort(r) == ~r.ok /\ r.late

\* is_timeout: the abort of a tampered installer has the same exit code.
IsTimeout(r) == ~r.ok /\ r.category = "network_transient" /\ r.late

HasSucceeded(rows, app) == \E x \in rows : BaseOf[x.row.app] = app /\ x.row.ok

SelfUpdaters(rows) ==
    LET late(app) == {x \in rows : BaseOf[x.row.app] = app /\ IsTimeout(x.row)}
    IN  {Fact("self_updater", <<app>>, late(app)) :
            app \in {a \in {BaseOf[x.row.app] : x \in rows} :
                       /\ ~HasSucceeded(rows, a)
                       /\ Cardinality({x.cycle : x \in late(a)}) >= Quorum}}

MethodFaults == {"installer_failed", "verify_failed", "not_found", "needs_force", "permission_denied"}
IsMethodFault(r) == ~r.ok /\ r.category \in MethodFaults

FailingMethods(rows) ==
    LET of(p) == {x \in rows : <<BaseOf[x.row.app], x.row.method>> = p}
        faults(p) == {x \in of(p) : IsMethodFault(x.row)}
    IN  {Fact("method", p, faults(p)) :
            p \in {q \in {<<BaseOf[x.row.app], x.row.method>> : x \in rows} :
                     /\ \A x \in of(q) : ~x.row.ok
                     /\ Cardinality(faults(q)) >= Quorum
                     /\ HasSucceeded(rows, q[1])}}

\* Only the outcome of a service fix can be measured.
ServiceFixes == {"ServiceRestart", "ServiceStart"}
Ineffective(rows) ==
    LET judged(t, res) == {x \in rows : x.ok /\ x.act.type = t /\ x.res = res}
    IN  {Fact("fix", <<t>>, judged(t, "no")) :
            t \in {t \in ServiceFixes : judged(t, "yes") = {} /\ Cardinality(judged(t, "no")) >= Quorum}}

Rejected(rows) ==
    LET of(s) == {x \in rows : x.subject = s}
    IN  {Fact("rejected", s, of(s)) : s \in {s \in {x.subject : x \in rows} : Cardinality(of(s)) >= Quorum}}

InWindow(rows) == {x \in rows : x.age # "old"}

-----------------------------------------------------------------------------
(* The table of facts *)

\* upsert_fact: an override of the user is kept.
Reinforced(f, c) ==
    [f EXCEPT !.amount = PenaltyCap, !.basis = c.basis,
              !.status = IF @ \in ByUser THEN @ ELSE "active"]

Added(c, id) ==
    [id |-> id, kind |-> c.kind, subject |-> c.subject, amount |-> PenaltyCap,
     status |-> "active", tried |-> FALSE, text |-> FALSE, basis |-> c.basis]

\* What a table becomes when some candidates are written, in any order.
Upserts(t, cs) ==
    LET new  == {c \in cs : \A f \in t.facts : ~Same(f, c)}
        last == t.next + Cardinality(new)
        old  == {IF \E c \in cs : Same(f, c) THEN Reinforced(f, CHOOSE c \in cs : Same(f, c)) ELSE f :
                    f \in t.facts}
    IN  {[facts |-> old \cup {Added(c, id[c]) : c \in new}, next |-> last] :
            id \in {id \in [new -> t.next .. last - 1] : \A c, d \in new : id[c] = id[d] => c = d}}

\* expire_unsupported, first statement: the candidates to expire.
StaleFacts(fs, kind, current) ==
    {f.subject : f \in {f \in fs : f.kind = kind /\ f.status = "active"
                                    /\ \A c \in current : c.subject # f.subject}}

\* Mutant: the second statement trusts the first.
ExpireListed(fs, kind, subjects) ==
    {IF f.kind = kind /\ f.subject \in subjects THEN [f EXCEPT !.status = "expired"] ELSE f : f \in fs}

\* ... second statement, for some of them, which looks at the status again.
ExpireFacts(fs, kind, subjects) ==
    {IF f.kind = kind /\ f.subject \in subjects /\ f.status = "active"
     THEN [f EXCEPT !.status = "expired"] ELSE f : f \in fs}

-----------------------------------------------------------------------------
(* What the facts do: LearnedFacts::load and its users *)

InForceNow == {f \in facts : f.status \in InForce0}
Penalised(kind) == {f \in InForceNow : f.kind = kind /\ ~IsSecurity(f.subject)}

Bounded(amount) == IF amount < 0 THEN 0 ELSE IF amount > PenaltyCap THEN PenaltyCap ELSE amount
PenaltyOf(kind, subjects) ==
    LET fs == {f \in Penalised(kind) : f.subject \in subjects}
    IN  IF fs = {} THEN 0 ELSE Bounded((CHOOSE f \in fs : TRUE).amount)

\* The label of an action goes before its key.
BySubject(a) ==
    IF \E f \in Penalised("rejected") : f.subject = <<a.label>>
    THEN PenaltyOf("rejected", {<<a.label>>}) ELSE PenaltyOf("rejected", {<<a.key>>})

\* Mutant: each of the two penalties is capped, their sum is not.
SumOfPenalties(a) ==
    IF IsSecurity(<<a.label>>) THEN 0 ELSE PenaltyOf("fix", {<<a.type>>}) + BySubject(a)

ConfidencePenalty(a) ==
    IF IsSecurity(<<a.label>>) THEN 0 ELSE Bounded(PenaltyOf("fix", {<<a.type>>}) + BySubject(a))

\* prompt_section: what the diagnosis is told, by kind and subject.
PromptFacts ==
    {<<f.kind, f.subject>> :
        f \in {f \in InForceNow : f.kind \in {"self_updater", "method"}}
                \cup Penalised("fix") \cup Penalised("rejected")}

-----------------------------------------------------------------------------
(* Evidence *)

Idle0 == [at |-> "idle", kind |-> "", todo |-> {}, current |-> {}, stale |-> {}, later |-> {}]
NoLabel == [at |-> "none", id |-> 0]

LearnInit ==
    /\ \E h \in Histories :
        /\ attempts = h.attempts /\ feedback = h.feedback /\ rejections = h.rejections /\ facts = h.facts
    /\ seen = 0 /\ nextFact = 1 + Cardinality(facts)
    /\ cycleOn = FALSE /\ cycle = 0 /\ job = Idle0
    /\ labelFlag = FALSE /\ label = NoLabel /\ calls = <<>> /\ chosen = {} /\ ops = 0

Row == seen < MaxEvidence /\ seen' = seen + 1

\* The executor worker has run a fix (feedback::record, action_target).
RecordFeedback(a) ==
    /\ Row
    /\ \E ok \in BOOLEAN :
        feedback' = feedback \cup {[n |-> -seen, act |-> a, ok |-> ok, age |-> "new", res |-> "none"]}
    /\ UNCHANGED <<attempts, rejections, factVars, cycleOn, cycle, job, labelVars, chosen, ops>>

\* The user rejects a card; rows before migration 0020 have no key.
RecordRejection(a) ==
    /\ Row
    /\ \E s \in {<<a.key>>, <<a.label>>} : rejections' = rejections \cup {[n |-> -seen, subject |-> s]}
    /\ UNCHANGED <<attempts, feedback, factVars, cycleOn, cycle, job, labelVars, chosen, ops>>

\* Two minutes pass, or a month, after which no evidence is in the window.
Settle ==
    /\ \E x \in feedback : x.age = "new"
    /\ feedback' = {IF x.age = "new" THEN [x EXCEPT !.age = "settled"] ELSE x : x \in feedback}
    /\ UNCHANGED <<attempts, rejections, seen, factVars, cycleOn, cycle, job, labelVars, chosen, ops>>

Month ==
    /\ attempts # {} \/ InWindow(feedback) # {} \/ rejections # {}
    /\ job.at = "idle"
    /\ attempts' = {} /\ rejections' = {} /\ feedback' = {[x EXCEPT !.age = "old"] : x \in feedback}
    /\ UNCHANGED <<seen, factVars, cycleOn, cycle, job, labelVars, chosen, ops>>

\* update_after_states, one transaction: the rows that have settled and are
\* not measured yet are judged by the snapshot of this cycle.
Measured(x, failed) ==
    IF x.act.target = "" THEN "unknown" ELSE IF x.act.target \in failed THEN "no" ELSE "yes"

MeasureFeedback(failed) ==
    LET due == {x \in feedback : x.res = "none" /\ x.age # "new"}
    IN  /\ due # {}
        /\ feedback' = (feedback \ due) \cup {[x EXCEPT !.res = Measured(x, failed)] : x \in due}
        /\ UNCHANGED <<attempts, rejections, seen, factVars, cycleOn, cycle, job, labelVars, chosen, ops>>

\* prune_old: after 90 days.
PruneFeedback ==
    /\ InWindow(feedback) # feedback /\ feedback' = InWindow(feedback)
    /\ UNCHANGED <<attempts, rejections, seen, factVars, cycleOn, cycle, job, labelVars, chosen, ops>>

-----------------------------------------------------------------------------
(* analyse_issues runs on the decision loop, and so do the user's commands *)

\* One detector: every candidate is kept, but those whose write fails, then
\* what no longer has evidence expires, up to a write that fails.  A read that
\* fails skips the detector.
Detected(t, kind, found) ==
    {t} \cup UNION {{[grown EXCEPT !.facts = ExpireFacts(@, kind, gone)] :
                        gone \in SUBSET StaleFacts(grown.facts, kind, found)} :
                    grown \in UNION {Upserts(t, kept) : kept \in SUBSET found}}

Table(t) == facts' = t.facts /\ nextFact' = t.next

AnalyseIssues ==
    /\ \E t \in Detected([facts |-> facts, next |-> nextFact], "fix", Ineffective(InWindow(feedback))) :
          \E u \in Detected(t, "rejected", Rejected(rejections)) : Table(u)
    /\ UNCHANGED <<evidence, cycleOn, cycle, job, labelVars, chosen, ops>>

\* set_learned_fact, with the id of a card that may be out of date.
ChosenNow(id, status) == {c \in chosen : c.id # id} \cup {[id |-> id, status |-> status]}

SetLearnedFact(id, op) ==
    /\ ops < MaxOps /\ ops' = ops + 1
    /\ \E f \in facts : f.id = id
    /\ IF op = "forget"
       THEN facts' = {f \in facts : f.id # id} /\ UNCHANGED chosen
       ELSE LET status == IF op = "pin" THEN "user_pinned" ELSE "user_disabled"
            IN  /\ facts' = {IF f.id = id THEN [f EXCEPT !.status = status] ELSE f : f \in facts}
                /\ chosen' = ChosenNow(id, status)
    /\ UNCHANGED <<evidence, nextFact, cycleOn, cycle, job, labelVars>>

\* ClearUpdateHistory waits for the cycle; overrides of the user stay.
ClearUpdateHistory ==
    /\ ops < MaxOps /\ ops' = ops + 1 /\ ~cycleOn
    /\ facts' = {f \in facts : f.status \notin {"active", "expired"}}
    /\ UNCHANGED <<evidence, nextFact, cycleOn, cycle, job, labelVars, chosen>>

-----------------------------------------------------------------------------
(* analyse_updates runs in the task of the update cycle *)

StartCycle ==
    /\ ~cycleOn /\ cycle < MaxCycles /\ cycleOn' = TRUE /\ cycle' = cycle + 1
    /\ UNCHANGED <<evidence, factVars, job, labelVars, chosen, ops>>

RecordAttempt(r) ==
    /\ cycleOn /\ job.at = "idle" /\ Row
    /\ attempts' = attempts \cup {[n |-> -seen, cycle |-> cycle, row |-> r]}
    /\ UNCHANGED <<feedback, rejections, factVars, cycleOn, cycle, job, labelVars, chosen, ops>>

\* The attempts are read once, for both detectors.
ReadAttempts ==
    /\ cycleOn /\ job.at = "idle"
    /\ LET found == SelfUpdaters(attempts)
       IN  job' = [at |-> "keep", kind |-> "self_updater", todo |-> found, current |-> found,
                   stale |-> {}, later |-> FailingMethods(attempts)]
    /\ UNCHANGED <<evidence, factVars, cycleOn, cycle, labelVars, chosen, ops>>

JobStep == UNCHANGED <<evidence, cycleOn, cycle, labelVars, chosen, ops>>

KeepFact ==
    /\ job.at = "keep"
    /\ \E c \in job.todo :
        /\ job' = [job EXCEPT !.todo = @ \ {c}]
        /\ \/ \E t \in Upserts([facts |-> facts, next |-> nextFact], {c}) : Table(t)
           \/ UNCHANGED factVars
    /\ JobStep

SelectStale ==
    /\ job.at = "keep" /\ job.todo = {}
    /\ \E stale \in {StaleFacts(facts, job.kind, job.current), {}} :
        job' = [job EXCEPT !.at = "expire", !.stale = stale]
    /\ UNCHANGED factVars /\ JobStep

Expire ==
    /\ job.at = "expire"
    /\ \E subject \in job.stale :
        /\ job' = [job EXCEPT !.stale = @ \ {subject}]
        /\ facts' = ExpireFacts(facts, job.kind, {subject})
    /\ UNCHANGED nextFact /\ JobStep

NextDetector ==
    /\ job.at = "expire" /\ job.stale = {} /\ job.kind = "self_updater"
    /\ job' = [at |-> "keep", kind |-> "method", todo |-> job.later, current |-> job.later,
               stale |-> {}, later |-> {}]
    /\ UNCHANGED factVars /\ JobStep

\* The cycle ends, or it is aborted by its watchdog or a read that fails.
EndLearning ==
    /\ cycleOn /\ cycleOn' = FALSE /\ job' = Idle0
    /\ UNCHANGED <<evidence, factVars, cycle, labelVars, chosen, ops>>

-----------------------------------------------------------------------------
(* The labeller: at most one task, at most one question per fact *)

LabelStep == UNCHANGED <<evidence, nextFact, cycleOn, cycle, job, chosen, ops>>

DispatchLabel ==
    /\ ~labelFlag /\ labelFlag' = TRUE /\ label' = [at |-> "query", id |-> 0]
    /\ UNCHANGED <<facts, calls>> /\ LabelStep

\* The guard lowers the flag however the task ends, after 3 minutes at most.
LabelEnds ==
    /\ label.at # "none" /\ label' = NoLabel /\ labelFlag' = FALSE
    /\ UNCHANGED <<facts, calls>> /\ LabelStep

\* next_unlabelled
Unlabelled == {f \in InForceNow : ~f.tried}
QueryLabel ==
    /\ label.at = "query"
    /\ \E f \in Unlabelled : label' = [at |-> "mark", id |-> f.id]
    /\ UNCHANGED <<facts, labelFlag, calls>> /\ LabelStep

\* Mutant: a fact counts as tried only when it was worded.
MarkLater(fs, id) == fs

\* mark_label_attempted, before the question.
Marked(fs, id) == {IF f.id = id THEN [f EXCEPT !.tried = TRUE] ELSE f : f \in fs}

MarkLabel ==
    /\ label.at = "mark" /\ label' = [label EXCEPT !.at = "ask"]
    /\ facts' = Marked(facts, label.id)
    /\ UNCHANGED <<labelFlag, calls>> /\ LabelStep

AskLabel ==
    /\ label.at = "ask" /\ Len(calls) < MaxCalls
    /\ label' = [label EXCEPT !.at = "store"] /\ calls' = Append(calls, label.id)
    /\ UNCHANGED <<facts, labelFlag>> /\ LabelStep

\* set_ai_explanation: of a fact the user may have forgotten meanwhile.
StoreLabel ==
    /\ label.at = "store" /\ label' = NoLabel /\ labelFlag' = FALSE
    /\ facts' = {IF f.id = label.id THEN [f EXCEPT !.tried = TRUE, !.text = TRUE] ELSE f : f \in facts}
    /\ UNCHANGED calls /\ LabelStep

\* A crash loses the tasks and the flags; the tables stay.
LearnCrash ==
    /\ cycleOn \/ labelFlag
    /\ cycleOn' = FALSE /\ job' = Idle0 /\ label' = NoLabel /\ labelFlag' = FALSE
    /\ UNCHANGED <<evidence, factVars, cycle, calls, chosen, ops>>

LearnNext ==
    \/ \E a \in Actions : RecordFeedback(a) \/ RecordRejection(a)
    \/ Settle \/ Month \/ PruneFeedback
    \/ \E failed \in SUBSET ({a.target : a \in Actions} \ {""}) : MeasureFeedback(failed)
    \/ AnalyseIssues
    \/ \E id \in 1 .. nextFact - 1, op \in {"pin", "disable", "forget"} : SetLearnedFact(id, op)
    \/ ClearUpdateHistory
    \/ StartCycle \/ ReadAttempts \/ KeepFact \/ SelectStale \/ Expire \/ NextDetector \/ EndLearning
    \/ \E r \in Attempts : RecordAttempt(r)
    \/ DispatchLabel \/ LabelEnds \/ QueryLabel \/ MarkLabel \/ AskLabel \/ StoreLabel
    \/ LearnCrash

LearnSpec == LearnInit /\ [][LearnNext]_learnVars

-----------------------------------------------------------------------------
(* Properties *)

\* One fact of a kind and subject, ids are not used twice, the flags are held.
LearnTypeOK ==
    /\ \A f, g \in facts : (Same(f, g) \/ f.id = g.id) => f = g
    /\ \A f \in facts : f.id < nextFact /\ f.status \in InForce0 \cup ByUser \cup {"expired"}
    /\ labelFlag = (label.at # "none") /\ (job.at # "idle" => cycleOn)
    /\ job.todo \subseteq job.current

\* What the user made of a fact lasts: no detector, in whatever order its
\* statements and the user's come, puts it back or lets it expire.
UserWins == \A f \in facts, c \in chosen : f.id = c.id => f.status = c.status

\* A refused installer never teaches Eir to skip the app or to avoid the
\* method that caught it.
TamperTeachesNothing ==
    \A f \in {f \in facts : f.kind \in {"self_updater", "method"}} :
        \A x \in f.basis : x.row.category # "hash_mismatch"

\* Whatever facts are found, a fix loses at most Cap, a protective fix nothing.
OnlyCautious ==
    \A a \in Actions : ConfidencePenalty(a) \in 0 .. (IF a.type \in SecurityTypes THEN 0 ELSE PenaltyCap)

\* The AI is asked about a fact at most once, crash, time-out or not.
AskedOnce == \A i, j \in DOMAIN calls : calls[i] = calls[j] => i = j

\* "security actions are never penalised (in the gate AND the prompt)": no fact
\* that names one by its type or its label reaches the prompt.  A rejection is
\* kept under the key of the action, which the prompt does not recognise.
PromptSparesSecurity ==
    \A p \in PromptFacts : \A a \in Actions :
        a.type \in SecurityTypes => p[2][1] \notin {a.label, a.type}

\* One property for the runs: what is learned is sound.
LearningSound ==
    /\ LearnTypeOK /\ UserWins /\ TamperTeachesNothing
    /\ OnlyCautious /\ AskedOnce /\ PromptSparesSecurity
=============================================================================
