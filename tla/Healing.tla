------------------------------- MODULE Healing -------------------------------
(***************************************************************************)
(* How the updater heals one app (heal in updater/orchestrator.rs): the    *)
(* methods in order, each attempt by winget, choco, the Store or an AI-    *)
(* found installer (updater/methods, plan.rs, download.rs), the version    *)
(* read back (verify.rs), the category Rust gives a failure (domain.rs)    *)
(* and the diagnostician whose proposal Rust disposes of (diagnose.rs).    *)
(*                                                                         *)
(* A URL, a plan, an output or a version is the facts the code tests in    *)
(* it.  The winget command, the installer, the web and the AI answer here  *)
(* as they like.                                                           *)
(***************************************************************************)
EXTENDS Integers, Sequences, FiniteSets

CONSTANTS
    Offers,       \* candidates: [methods, id, target, ai, slow]
    RawPlans,     \* what the AI answers when asked for an installer
    Outputs,      \* sets of messages an output may hold at once
    MaxAttempts   \* max_attempts_per_app


VARIABLES
    stage,     \* where the attempt is
    offer,     \* the candidate
    triedWith, \* methods tried, in `tried`
    count,     \* attempts.len()
    method,    \* the method of this attempt
    remedy,    \* the remedy applied before it
    category,  \* of the attempt that just ended; "ok" is success
    wg,        \* attempt_with of winget: context, flags and place in it
    plan,      \* the validated plan of a native attempt
    corrected, \* make_plan has asked a second time
    staged,    \* the installer in the staging directory
    firstRead, \* the verdict of the first version read
    leftover   \* history: the watchdog, a removal or a clean-up that failed has
               \* left a staging directory behind

attempt == <<method, remedy, category, wg, plan, corrected, firstRead>>
healVars == <<stage, offer, triedWith, count, attempt, staged, leftover>>

-----------------------------------------------------------------------------
(* Types: domain.rs *)

Methods == {"winget", "choco", "scoop", "msstore", "native"}
Terminal == {"hash", "signature"}              \* is_terminal
Categories == Terminal \cup {"not_found", "network", "installer", "verify",
    "denied", "lock", "needs_force", "reboot", "current", "blocked", "unknown"}
Remedies == {"none", "force", "kill", "kill_other", "unlock", "after_reboot"}
SupportsForce == {"winget", "choco"}
HasManagerLock == {"choco", "scoop"}
Codes == {"0", "3010", "5", "-1", "1"}          \* exit codes, by what tests them

ASSUME HealingAssumption ==
    /\ MaxAttempts \in Nat \ {0}
    /\ \A c \in Offers : c.methods \in Seq(Methods)

NoPlan == [kind |-> "none"]
NoFile == [dir |-> FALSE, digest |-> "none", checked |-> "none", kind |-> "none",
           silent |-> FALSE]
NoWinget == [service |-> FALSE, force |-> FALSE, exact |-> TRUE, step |-> "none"]
NoOffer == [methods |-> <<>>, id |-> FALSE, target |-> FALSE, ai |-> FALSE,
            slow |-> {}]

HealingTypeOK ==
    /\ stage \in {"idle", "dispatch", "command", "plan", "download", "launch",
                  "verify", "judge", "decide"}
    /\ triedWith \subseteq Methods /\ count \in 0..MaxAttempts
    /\ method \in Methods \cup {"none"} /\ remedy \in Remedies
    /\ category \in Categories \cup {"none", "ok"}
    /\ corrected \in BOOLEAN /\ leftover \in BOOLEAN
    /\ firstRead \in {"none", "unverified", "mismatch"}
    /\ staged.dir \in BOOLEAN

HealingInit ==
    /\ stage = "idle" /\ offer = NoOffer
    /\ triedWith = {} /\ count = 0
    /\ method = "none" /\ remedy = "none" /\ category = "none"
    /\ wg = NoWinget /\ plan = NoPlan /\ corrected = FALSE
    /\ staged = NoFile /\ firstRead = "none" /\ leftover = FALSE

-----------------------------------------------------------------------------
(* Rust classifies: classify_error reads the code and the whole output, in *)
(* this order.                                                             *)

Classify(code, says) ==
    CASE "hash" \in says -> "hash"
      [] "hash" \notin says /\ "signature" \in says -> "signature"
      [] says \cap Terminal = {} /\ "modified" \in says -> "needs_force"
      [] says \cap (Terminal \cup {"modified"}) = {} /\
             (code = "3010" \/ "reboot" \in says) -> "reboot"
      [] OTHER ->
         IF "lock" \in says THEN "lock"
         ELSE IF "denied" \in says \/ code = "5" THEN "denied"
         ELSE IF "network" \in says THEN "network"
         ELSE IF "current" \in says THEN "current"
         ELSE IF "no_package" \in says THEN "not_found"
         ELSE IF code \notin {"0", "3010"} THEN "installer" ELSE "unknown"

\* stops_healing
StopsHealing(c) == c \in Terminal \cup {"current", "reboot"}

-----------------------------------------------------------------------------
(* One app is taken *)

\* The methods of a candidate, as places in the configured order.
Untried(c, gone) == {i \in DOMAIN c.methods : c.methods[i] \notin gone}

\* The first of them, those learned to fail for this app behind the rest.
Foremost(c, gone) ==
    LET quick == {i \in Untried(c, gone) : c.methods[i] \notin c.slow}
        from  == IF quick = {} THEN Untried(c, gone) ELSE quick
    IN  c.methods[CHOOSE i \in from : \A k \in from : i <= k]

\* A candidate no method is left for is not attempted.
TakeApp(c) ==
    /\ stage = "idle" /\ c.methods # <<>>
    /\ offer' = c /\ triedWith' = {} /\ count' = 0
    /\ method' = Foremost(c, {}) /\ remedy' = "none"
    /\ stage' = "dispatch"
    /\ category' = "none" /\ wg' = NoWinget /\ plan' = NoPlan
    /\ corrected' = FALSE /\ firstRead' = "none"
    /\ UNCHANGED <<staged, leftover>>

\* The attempt is over; heal judges it.
EndAttempt(c) ==
    /\ stage' = "judge" /\ category' = c
    /\ UNCHANGED <<offer, triedWith, count, method, remedy>>

\* dispatch: the remedy, then the method.  A refused or failed kill ends the attempt.
DispatchKillFails ==
    /\ stage = "dispatch" /\ remedy = "kill"
    /\ EndAttempt("lock")
    /\ UNCHANGED <<wg, plan, corrected, firstRead, staged, leftover>>

Forced == remedy = "force" \/ (remedy = "unlock" /\ method \in SupportsForce)

\* What needs no command ends here: no package id, Scoop under SYSTEM, no AI.
DispatchRefused ==
    /\ stage = "dispatch"
    /\ \/ method \in {"winget", "msstore"} /\ ~offer.id /\ EndAttempt("not_found")
       \/ method = "choco" /\ EndAttempt("not_found")    \* no choco.exe any more
       \/ method = "scoop" /\ EndAttempt("blocked")
       \/ method = "native" /\ ~offer.ai /\ EndAttempt("not_found")
    /\ UNCHANGED <<wg, plan, corrected, firstRead, staged, leftover>>

\* A machine-wide package is upgraded by the service itself, any other as the user.
Dispatch(machineWide) ==
    /\ stage = "dispatch"
    /\ method \in {"winget", "msstore"} => offer.id
    /\ method = "native" => offer.ai
    /\ method # "scoop"
    /\ machineWide => method = "winget"
    /\ wg' = [service |-> machineWide, force |-> Forced, exact |-> TRUE, step |-> "first"]
    /\ stage' = IF method = "native" THEN "plan" ELSE "command"
    /\ corrected' = FALSE /\ plan' = NoPlan /\ firstRead' = "none"
    /\ UNCHANGED <<offer, triedWith, count, method, remedy, category, staged,
                   leftover>>

-----------------------------------------------------------------------------
(* Package managers: winget.rs, choco.rs, msstore.rs *)

Succeeded(code) == IF method = "choco" THEN code \in {"0", "3010"} ELSE code = "0"

Reread == /\ stage' = "verify" /\ firstRead' = "none"
          /\ UNCHANGED <<offer, triedWith, count, method, remedy, category, wg,
                         plan, corrected, staged, leftover>>

CommandSucceeds(code) ==
    /\ stage = "command" /\ Succeeded(code)
    /\ Reread

\* winget's next run after this reply; "none" when attempt_with gives up.
\* Steps come in this order, each at most once: out of the service's context,
\* with --force for a modified portable, without --exact for a cut-off id.
NextWinget(code, says) ==
    LET missing == "no_package" \in says
    IN  IF wg.step = "first" /\ wg.service /\ (code = "-1" \/ missing)
        THEN [wg EXCEPT !.service = FALSE, !.step = "user"]
        ELSE IF wg.step \in {"first", "user"} /\ ~wg.force /\ "modified" \in says
        THEN [wg EXCEPT !.force = TRUE, !.step = "forced"]
        ELSE IF wg.step # "inexact" /\ missing
        THEN [wg EXCEPT !.force = Forced, !.exact = FALSE, !.step = "inexact"]
        ELSE [wg EXCEPT !.step = "none"]

WingetAgain(code, says) ==
    /\ stage = "command" /\ method = "winget" /\ ~Succeeded(code)
    /\ NextWinget(code, says).step # "none"
    /\ wg' = NextWinget(code, says)
    /\ UNCHANGED <<stage, offer, triedWith, count, method, remedy, category,
                   plan, corrected, firstRead, staged, leftover>>

CommandFails(code, says) ==
    /\ stage = "command" /\ ~Succeeded(code)
    /\ method = "winget" => NextWinget(code, says).step = "none"
    /\ EndAttempt(Classify(code, says))
    /\ UNCHANGED <<wg, plan, corrected, firstRead, staged, leftover>>

-----------------------------------------------------------------------------
(* The native method: plan.rs, native.rs *)

\* brand_label: the label left of the public suffix, of a host as its labels.
MultiSuffixes == {<<"co", "uk">>, <<"com", "au">>}
BrandLabel(host) ==
    LET n == Len(host)
        suffix == IF n >= 2 /\ SubSeq(host, n - 1, n) \in MultiSuffixes THEN 2 ELSE 1
    IN  IF n > suffix THEN host[n - suffix] ELSE "none"

\* host_acceptable: a release host, or exactly the app's brand.
HostAcceptable(u) == u.host = <<"github", "com">> \/ BrandLabel(u.host) = "brand"

\* url_acceptable, for the first URL, every redirect and the last.
UrlAcceptable(u) ==
    /\ u.https /\ u.bare /\ u.named             \* no credentials, port, IP, IDN
    /\ HostAcceptable(u)
    /\ u.host = <<"github", "com">> => u.repo   \* github_repo_correlates

Archives == {"zip", "7z", "tar", "tar.gz"}
Installers == {"exe", "msi"}

\* validate_plan: everything an AI answer must have to be a plan at all.
ValidPlan(raw) ==
    /\ raw.parsed /\ UrlAcceptable(raw.url)
    /\ raw.kind \in Archives \cup Installers
    /\ raw.sha # "malformed"
    /\ raw.version # "none"
    /\ raw.inner = "none" \/ (raw.kind \in Archives /\ raw.inner = "safe")

\* sanitise_args: an MSI always gets its quiet switches.
Silent(kind, raw) == raw.silent \/ kind = "msi"

PlanRunnable(raw) == raw.kind # "exe" \/ Silent("exe", raw)

\* plan_reaches_target, by classify_version.
ReachesTarget(raw) == ~offer.target \/ raw.version = "reaches"

Usable(raw) == ValidPlan(raw) /\ ReachesTarget(raw)

\* make_plan: one second question, when the answer is unusable and something
\* in it, or the guidance, names a GitHub repository.
AskAgain(raw) ==
    /\ stage = "plan" /\ ~corrected
    /\ ~Usable(raw) /\ raw.github
    /\ corrected' = TRUE
    /\ UNCHANGED <<stage, offer, triedWith, count, method, remedy, category, wg,
                   plan, firstRead, staged, leftover>>

PlanRefused(raw) ==
    /\ stage = "plan"
    /\ IF Usable(raw) THEN ~PlanRunnable(raw) ELSE corrected \/ ~raw.github
    /\ EndAttempt("not_found")
    /\ UNCHANGED <<wg, plan, corrected, firstRead, staged, leftover>>

\* stage_dir: a directory of its own, beside any left over, locked to SYSTEM and
\* administrators, or refused.
PlanAccepted(raw) ==
    /\ stage = "plan" /\ Usable(raw) /\ PlanRunnable(raw)
    /\ stage' = "download" /\ plan' = raw
    /\ staged' = [NoFile EXCEPT !.dir = TRUE]
    /\ UNCHANGED <<offer, triedWith, count, method, remedy, category, wg,
                   corrected, firstRead, leftover>>

-----------------------------------------------------------------------------
(* download.rs: download_and_check *)

\* What can end a download; each message is classified like an output.
Failures == [refused |-> "unknown", http |-> "network", page |-> "unknown",
             large |-> "unknown", broken |-> "network", entry |-> "not_found",
             unsafe |-> "unknown"]

\* Mutant: the staging directory stays behind.
KeepStagingDir == UNCHANGED <<staged, leftover>>

\* remove_staging_dir: a directory that is still in use, by an installer that was
\* only told to stop, stays until a clean-up; the failure is logged, no more.
RemoveStagingDir ==
    \/ staged' = NoFile /\ UNCHANGED leftover
    \/ staged' = [NoFile EXCEPT !.dir = TRUE] /\ leftover' = TRUE

\* Any rejection removes the directory.
DownloadFails(why) ==
    /\ stage = "download"
    /\ why \in {"entry", "unsafe"} => plan.kind \in Archives
    /\ RemoveStagingDir
    /\ EndAttempt(Failures[why])
    /\ UNCHANGED <<wg, plan, corrected, firstRead>>

\* Mutant: the vendor's hash is not compared.
HashAnything(sent) == TRUE

\* verify_downloaded_hash, of the downloaded artifact, archive or not.
HashOk(sent) == plan.sha = "given" => sent = "vendor"

\* signature_gate under the configured policy.
SignatureOk(signer, policy) ==
    \/ policy = "allow_unsigned"
    \/ policy = "require_valid" /\ signer # "unsigned"
    \/ policy = "require_publisher_match" /\ signer = "publisher" /\ plan.publisher

IntegrityFails(sent, signer, policy) ==
    /\ stage = "download"
    /\ ~HashOk(sent) \/ ~SignatureOk(signer, policy)
    /\ RemoveStagingDir
    /\ EndAttempt(IF HashOk(sent) THEN "signature" ELSE "hash")
    /\ UNCHANGED <<wg, plan, corrected, firstRead>>

\* select_candidate took the one installer an archive holds; its own digest
\* is what the launch compares.
Stage(sent, signer, policy, kind) ==
    /\ stage = "download" /\ HashOk(sent) /\ SignatureOk(signer, policy)
    /\ kind = IF plan.kind \in Installers THEN plan.kind ELSE kind
    /\ staged' = [dir |-> TRUE, digest |-> sent, checked |-> sent, kind |-> kind,
                  silent |-> Silent(kind, plan)]
    /\ stage' = "launch"
    /\ UNCHANGED <<offer, triedWith, count, attempt, leftover>>

\* The staged file changes on disk between the checks and the launch.
Changed ==
    /\ stage = "launch" /\ staged.digest = staged.checked
    /\ staged' = [staged EXCEPT !.digest = "changed"]
    /\ UNCHANGED <<stage, offer, triedWith, count, attempt, leftover>>

\* Mutant: the file is run as it is.
LaunchAnything == TRUE

\* run_installer hashes the file again before it starts it.
Unchanged == staged.digest = staged.checked

\* An archive's .exe without a known silent switch is not run: it would wait
\* for a user nobody has.  Nor is a file that has changed, or cannot be read.
LaunchRefused ==
    /\ stage = "launch"
    /\ \/ ~staged.silent /\ EndAttempt("not_found")
       \/ staged.silent /\ ~Unchanged /\ EndAttempt("hash")
       \/ staged.silent /\ EndAttempt("installer")
    /\ RemoveStagingDir
    /\ UNCHANGED <<wg, plan, corrected, firstRead>>

\* The installer fails, cannot start or is stopped after its ten minutes.
LaunchFails ==
    /\ stage = "launch" /\ staged.silent /\ Unchanged
    /\ RemoveStagingDir
    /\ EndAttempt("installer")
    /\ UNCHANGED <<wg, plan, corrected, firstRead>>

LaunchSucceeds ==
    /\ stage = "launch" /\ staged.silent /\ Unchanged
    /\ stage' = "verify" /\ firstRead' = "none"
    /\ RemoveStagingDir
    /\ UNCHANGED <<offer, triedWith, count, method, remedy, category, wg, plan,
                   corrected>>

-----------------------------------------------------------------------------
(* verify.rs: two reads at most, only a mismatch or no version is read again *)

\* classify_version, against the version the attempt was to install: that of the
\* plan (expected_version), which may be newer than the target, or the target,
\* which may be unknown.
Verdict(read) == IF read = "odd" \/ (method # "native" /\ ~offer.target) THEN "unverified"
                 ELSE IF read = "old" THEN "mismatch" ELSE "verified"

Success(verdict) == IF verdict = "mismatch" THEN "verify" ELSE "ok"

ReadVersion(read) ==
    /\ stage = "verify"
    /\ IF read # "none" /\ Verdict(read) # "mismatch"
       THEN /\ EndAttempt("ok")
            /\ UNCHANGED firstRead
       ELSE IF firstRead = "none"
       THEN /\ firstRead' = IF read = "none" THEN "unverified" ELSE "mismatch"
            /\ UNCHANGED <<stage, offer, triedWith, count, method, remedy,
                           category>>
       ELSE /\ EndAttempt(IF read = "none" THEN Success(firstRead) ELSE "verify")
            /\ UNCHANGED firstRead
    /\ UNCHANGED <<wg, plan, corrected, staged, leftover>>

-----------------------------------------------------------------------------
(* heal judges the attempt and decides the next *)

GoIdle == /\ stage' = "idle" /\ offer' = NoOffer
          /\ method' = "none" /\ remedy' = "none"
          /\ wg' = NoWinget /\ plan' = NoPlan
          /\ corrected' = FALSE /\ firstRead' = "none"

Judge ==
    LET done == category = "ok" \/ StopsHealing(category) \/ count + 1 >= MaxAttempts
    IN  /\ stage = "judge"
        /\ triedWith' = triedWith \cup {method}
        /\ count' = count + 1
        /\ IF done
           THEN GoIdle
           ELSE /\ stage' = "decide"
                /\ UNCHANGED <<offer, method, remedy, wg, plan, corrected, firstRead>>
        /\ UNCHANGED <<category, staged, leftover>>

Available == {offer.methods[i] : i \in DOMAIN offer.methods}

GiveUp == [step |-> "give_up", method |-> "none", remedy |-> "none"]
SwitchTo(m) == [step |-> "switch", method |-> m, remedy |-> "none"]
RetryWith(m, r) == [step |-> "retry", method |-> m, remedy |-> r]

\* deterministic_next and next_method: the first available method not tried.
Ladder ==
    IF StopsHealing(category) \/ Available \subseteq triedWith THEN GiveUp
    ELSE SwitchTo(Foremost(offer, triedWith))

\* Mutant: any remedy the diagnostician names is applied.
AnyRemedy(r, m) == TRUE

\* remedy_ok: "kill" names a killable process the error names, "kill_other" does not.
RemedyOk(r, m) ==
    \/ r = "force" /\ category = "needs_force" /\ m \in SupportsForce
    \/ r = "unlock" /\ category = "lock" /\ m \in HasManagerLock
    \/ r = "after_reboot" /\ category = "reboot"
    \/ r = "kill" /\ category = "lock"

\* validate_next_step: an invalid proposal falls back to the ladder.
Validated(p) ==
    CASE StopsHealing(category) -> Ladder
      [] ~StopsHealing(category) /\ p.step = "give_up" -> GiveUp
      [] OTHER ->
         IF /\ p.method \in Available
            /\ IF p.step = "switch" THEN p.method \notin triedWith
               ELSE RemedyOk(p.remedy, p.method)
         THEN p ELSE Ladder

\* to_proposed: an unreadable answer gives up, an incomplete retry too.
Proposals == {GiveUp} \cup {SwitchTo(m) : m \in Methods}
             \cup {RetryWith(m, r) : m \in Methods, r \in Remedies \ {"none"}}

Take(next) ==
    IF next.step = "give_up" \/ next.remedy = "after_reboot"
    THEN /\ GoIdle
         /\ UNCHANGED <<triedWith, count, category, staged, leftover>>
    ELSE /\ stage' = "dispatch" /\ method' = next.method /\ remedy' = next.remedy
         /\ UNCHANGED <<offer, triedWith, count, category, wg, plan, corrected,
                        firstRead, staged, leftover>>

\* diagnose with an answer.
DecideByAi(p) == stage = "decide" /\ offer.ai /\ Take(Validated(p))

\* No AI is configured, or it did not answer.
DecideAlone == stage = "decide" /\ Take(Ladder)

-----------------------------------------------------------------------------
\* abort_task of the cycle's watchdog, wherever the heal is.
Abort ==
    /\ stage # "idle"
    /\ GoIdle
    /\ triedWith' = {} /\ count' = 0 /\ category' = "none"
    /\ leftover' = (leftover \/ staged.dir)
    /\ UNCHANGED staged

\* cleanup_stale_staging at the start of the service, wherever the last run ended:
\* its failure is ignored.
CleanUp ==
    /\ GoIdle
    /\ triedWith' = {} /\ count' = 0 /\ category' = "none"
    /\ \/ staged' = NoFile /\ leftover' = FALSE
       \/ leftover' = (leftover \/ staged.dir) /\ UNCHANGED staged

-----------------------------------------------------------------------------
Commands == \E code \in Codes, says \in Outputs :
    CommandSucceeds(code) \/ WingetAgain(code, says) \/ CommandFails(code, says)

Plans == \E raw \in RawPlans : AskAgain(raw) \/ PlanRefused(raw) \/ PlanAccepted(raw)

Downloads ==
    \/ \E why \in DOMAIN Failures : DownloadFails(why)
    \/ \E sent \in {"vendor", "other"}, signer \in {"unsigned", "someone", "publisher"},
          policy \in {"allow_unsigned", "require_valid", "require_publisher_match"} :
           \/ IntegrityFails(sent, signer, policy)
           \/ \E kind \in Installers : Stage(sent, signer, policy, kind)

HealingNext ==
    \/ \E c \in Offers : TakeApp(c)
    \/ DispatchKillFails \/ DispatchRefused
    \/ \E machineWide \in BOOLEAN : Dispatch(machineWide)
    \/ Commands \/ Plans \/ Downloads
    \/ Changed \/ LaunchRefused \/ LaunchFails \/ LaunchSucceeds
    \/ \E read \in {"none", "old", "new", "odd"} : ReadVersion(read)
    \/ Judge \/ DecideAlone
    \/ \E p \in Proposals : DecideByAi(p)
    \/ Abort \/ CleanUp

HealingSpec == HealingInit /\ [][HealingNext]_healVars

-----------------------------------------------------------------------------
(* Properties *)

(* Once an attempt ended with a wrong hash or signature, a pending reboot  *)
(* or an app already current, no further attempt follows for that app, and *)
(* there are never more than the configured number (orchestrator.rs:170).  *)
IntegrityFinal ==
    stage \notin {"idle", "judge"} /\ count > 0 =>
        ~StopsHealing(category) /\ count < MaxAttempts

(* What runs is the file that passed the hash and the signature gates, and *)
(* the vendor's hash where one was given (native.rs:378).                  *)
RunsWhatWasChecked ==
    [][LaunchFails \/ LaunchSucceeds =>
          /\ staged.digest = staged.checked
          /\ plan.sha = "given" => staged.checked = "vendor"]_healVars

(* A remedy answers the failure that called for it: a process is killed    *)
(* only after an attempt that found a lock and named it, force is used     *)
(* only where the method refused without (domain.rs:300).                  *)
RemediesJustified ==
    stage = "dispatch" => CASE remedy \in {"kill", "unlock"} -> category = "lock"
                            [] remedy = "force" -> category = "needs_force"
                            [] OTHER -> remedy = "none"

(* Every way out of an attempt removes its staging directory: one that no  *)
(* installer needs is left only by the watchdog, or by a removal or a      *)
(* clean-up at the start that failed, until a clean-up works               *)
(* (download.rs:106, native.rs:284).                                       *)
StagingReclaimed == staged.dir /\ ~leftover => stage \in {"download", "launch"}

\* One property for the runs: the heal of an app is sound.
HealingSound ==
    /\ [](HealingTypeOK /\ IntegrityFinal /\ RemediesJustified /\ StagingReclaimed)
    /\ RunsWhatWasChecked
=============================================================================
