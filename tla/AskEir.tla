------------------------------- MODULE AskEir -------------------------------
(***************************************************************************)
(* "Ask Eir": questions and "Investigate & fix" requests from the tray and *)
(* from eirctl, the answer task and its fold, the Ask history every client *)
(* is shown (main.rs, ask.rs), the attachments the tray holds for the next *)
(* question (ask_attach.rs, eir-ui/main.rs, ui/main.js), and eirctl, which *)
(* after the acceptance of its request watches that history                *)
(* (eir-cli/unix.rs).                                                      *)
(***************************************************************************)
EXTENDS Integers, Sequences

CONSTANTS
    Questions, Problems,   \* what may be asked, and be investigated
    Nobody,                \* no request
    AskGap, FixGap,        \* seconds between two of a kind: 15 and 60
    EntryCap, HistoryCap,  \* entries kept, entries a prompt repeats
    AttCap,                \* attachments of one question
    MaxNow                 \* bound: the clock

ASSUME AskAssumption ==
    /\ Nobody \notin Questions \cup Problems /\ Questions \cap Problems = {}
    /\ {AskGap, FixGap, EntryCap, HistoryCap, AttCap, MaxNow} \subseteq Nat \ {0}

VARIABLES
    now,           \* seconds
    askRunning, lastAskAt,
    answering,     \* the answer task's question and history
    askError,      \* st.ask.error: "none", "rejected", "failed"
    entries,       \* st.ask_entries, newest first
    wanted, wantedAt,   \* st.investigation, last_investigate_at
    carried,       \* investigation_in_flight
    askPaused,
    asked,         \* the requests made so far: each is made once
    pendingAtts,   \* the tray's AskAttachments, as a number
    picking,       \* remaining count a file dialog was opened with, 0 if none
    sending,       \* the tray's ask_eir in flight: question, attachments, answer
    ctl            \* eirctl: its request, how far it is, when accepted, what it printed

serviceVars == <<askRunning, lastAskAt, answering, askError, entries, wanted, wantedAt, carried>>
trayAskVars == <<pendingAtts, picking, sending>>
askVars == <<now, serviceVars, askPaused, asked, trayAskVars, ctl>>

Idle == [q |-> Nobody, n |-> 0, told |-> "no"]

AskInit ==
    /\ now = 1 /\ askRunning = FALSE /\ lastAskAt = 0
    /\ answering = [q |-> Nobody, history |-> <<>>] /\ askError = "none" /\ entries = <<>>
    /\ wanted = Nobody /\ wantedAt = 0 /\ carried = FALSE /\ askPaused = FALSE /\ asked = {}
    /\ pendingAtts = 0 /\ picking = 0 /\ sending = Idle
    /\ ctl = [r |-> Nobody, at |-> "start", sent |-> 0, printed |-> Nobody]

-----------------------------------------------------------------------------
(* The handlers of the decision loop *)

Newest(n, s) == SubSeq(s, 1, IF Len(s) < n THEN Len(s) ELSE n)

\* push_ask_entry, bound_answer
Pushed(r) == Newest(EntryCap, <<[q |-> r, at |-> now]>> \o entries)

\* ask_rejection_reason, attachment_rejection_reason; `good` for the text.
AskRejected(good, n) ==
    \/ ~good \/ n > AttCap \/ askRunning
    \/ lastAskAt # 0 /\ now - lastAskAt < AskGap

\* build_prompt: the question, and the newest exchanges.
Prompt(q) == [q |-> q, history |-> Newest(HistoryCap, entries)]

\* AskEir: a rejection is shown to every client, an acceptance starts the task.
HandleAsk(q, rejected) ==
    /\ IF rejected
       THEN askError' = "rejected" /\ UNCHANGED <<askRunning, answering>>
       ELSE askRunning' = TRUE /\ answering' = Prompt(q) /\ askError' = "none"
    /\ UNCHANGED <<now, lastAskAt, entries, wanted, wantedAt, carried, askPaused>>

\* investigate_rejection_reason
FixRejected(good) ==
    \/ ~good \/ askPaused \/ wanted # Nobody
    \/ wantedAt # 0 /\ now - wantedAt < FixGap

\* Investigate: the Ask view, and an error it shows, stay as they are.
HandleFix(p, rejected) ==
    /\ IF rejected THEN UNCHANGED <<wanted, wantedAt>> ELSE wanted' = p /\ wantedAt' = now
    /\ UNCHANGED <<now, askRunning, lastAskAt, answering, askError, entries, carried, askPaused>>

\* Mutant: the fold of an answer drops the notice of a rejected one.
NoNotice == "none"

Carry == askError

\* ask_done_rx: answered, or failed, empty, panicked or out of time.
FoldAnswer(ok) ==
    /\ askRunning
    /\ askRunning' = FALSE /\ lastAskAt' = now
    /\ answering' = [q |-> Nobody, history |-> <<>>]
    /\ IF ok THEN entries' = Pushed(answering.q) /\ askError' = Carry
       ELSE askError' = "failed" /\ UNCHANGED entries
    /\ UNCHANGED <<now, wanted, wantedAt, carried, askPaused, asked, trayAskVars, ctl>>

\* The cycle that starts an analysis gives it the request.
StartInvestigation ==
    /\ wanted # Nobody /\ ~carried /\ ~askPaused
    /\ carried' = TRUE
    /\ UNCHANGED <<now, askRunning, lastAskAt, answering, askError, entries, wanted, wantedAt,
                   askPaused, asked, trayAskVars, ctl>>

\* finish_investigation, for an analysis that succeeded or failed.
FinishInvestigation ==
    /\ carried
    /\ carried' = FALSE /\ wanted' = Nobody
    /\ entries' = Pushed(wanted)
    /\ askError' = Carry
    /\ UNCHANGED <<now, askRunning, lastAskAt, answering, wantedAt, askPaused, asked, trayAskVars,
                   ctl>>

ClearAsk ==
    /\ ~askRunning
    /\ entries' = <<>> /\ lastAskAt' = 0 /\ askError' = "none"
    /\ UNCHANGED <<now, askRunning, answering, wanted, wantedAt, carried, askPaused, asked,
                   trayAskVars, ctl>>

TogglePause ==
    /\ askPaused' = ~askPaused
    /\ UNCHANGED <<now, serviceVars, asked, trayAskVars, ctl>>

Second ==
    /\ now < MaxNow
    /\ now' = now + 1
    /\ UNCHANGED <<serviceVars, askPaused, asked, trayAskVars, ctl>>

-----------------------------------------------------------------------------
(* The tray *)

\* Mutant: only a dialog stops another.
PickingOnly == picking # 0

\* main.js: a send and a pick exclude each other.
Busy == sending # Idle \/ picking # 0

\* add_ask_attachments: the room is read before the dialog opens.
OpenPicker ==
    /\ ~Busy /\ pendingAtts < AttCap
    /\ picking' = AttCap - pendingAtts
    /\ UNCHANGED <<now, serviceVars, askPaused, asked, pendingAtts, sending, ctl>>

\* What the user picked, and what is still under the cap.
ClosePicker(n) ==
    /\ picking # 0 /\ n <= picking
    /\ picking' = 0
    /\ pendingAtts' = IF pendingAtts + n <= AttCap THEN pendingAtts + n
                      ELSE IF pendingAtts < AttCap THEN AttCap ELSE pendingAtts
    /\ UNCHANGED <<now, serviceVars, askPaused, asked, sending, ctl>>

RemoveAttachment ==
    /\ ~Busy /\ pendingAtts # 0
    /\ pendingAtts' = pendingAtts - 1
    /\ UNCHANGED <<now, serviceVars, askPaused, asked, picking, sending, ctl>>

\* ask_eir: take_ask_attachments, and the command is on its way.
TrayAsk(q) ==
    /\ ~Busy /\ q \notin asked
    /\ sending' = [q |-> q, n |-> pendingAtts, told |-> "no"]
    /\ pendingAtts' = 0
    /\ asked' = asked \cup {q}
    /\ UNCHANGED <<now, serviceVars, askPaused, picking, ctl>>

TrayAskHandled(good) ==
    /\ sending.q # Nobody /\ sending.told = "no"
    /\ LET rejected == AskRejected(good, sending.n)
       IN  /\ HandleAsk(sending.q, rejected)
           /\ sending' = [sending EXCEPT !.told = IF rejected THEN "rejected" ELSE "accepted"]
    /\ UNCHANGED <<asked, pendingAtts, picking, ctl>>

\* Accepted, or not: rejected, never sent, or no answer in time.
TrayTold(ok) ==
    /\ sending.q # Nobody /\ (ok => sending.told = "accepted")
    /\ sending' = Idle
    /\ pendingAtts' = IF ok THEN pendingAtts ELSE sending.n + pendingAtts
    /\ UNCHANGED <<now, serviceVars, askPaused, asked, picking, ctl>>

TrayFix(p, good) ==
    /\ p \notin asked
    /\ asked' = asked \cup {p}
    /\ HandleFix(p, FixRejected(good))
    /\ UNCHANGED <<trayAskVars, ctl>>

-----------------------------------------------------------------------------
(* eirctl ask and eirctl investigate: cmd_ask_or_investigate *)

CtlAsk(q, good) ==
    /\ ctl.at = "start" /\ q \notin asked
    /\ asked' = asked \cup {q}
    /\ HandleAsk(q, AskRejected(good, 0))
    /\ ctl' = [ctl EXCEPT !.r = q, !.at = IF AskRejected(good, 0) THEN "refused" ELSE "accepted"]
    /\ UNCHANGED trayAskVars

CtlFix(p, good) ==
    /\ ctl.at = "start" /\ p \notin asked
    /\ asked' = asked \cup {p}
    /\ HandleFix(p, FixRejected(good))
    /\ ctl' = [ctl EXCEPT !.r = p, !.at = IF FixRejected(good) THEN "refused" ELSE "accepted"]
    /\ UNCHANGED trayAskVars

\* It reads the acceptance, and then its own clock.
CtlAccepted ==
    /\ ctl.at = "accepted"
    /\ ctl' = [ctl EXCEPT !.at = "waiting", !.sent = now]
    /\ UNCHANGED <<now, serviceVars, askPaused, asked, trayAskVars>>

\* The newest entry ends the wait if it is from since then, and for an
\* investigation if it is one; otherwise an error that is shown does.
CtlReads ==
    /\ ctl.at = "waiting" /\ ~askRunning
    /\ IF /\ entries # <<>> /\ Head(entries).at >= ctl.sent
          /\ ctl.r \in Problems => Head(entries).q \in Problems
       THEN ctl' = [ctl EXCEPT !.at = "answered", !.printed = Head(entries).q]
       ELSE askError # "none" /\ ctl' = [ctl EXCEPT !.at = "failed"]
    /\ UNCHANGED <<now, serviceVars, askPaused, asked, trayAskVars>>

\* The deadline, five minutes by default, or the connection is gone.
CtlGivesUp ==
    /\ ctl.at \in {"accepted", "waiting"}
    /\ ctl' = [ctl EXCEPT !.at = "timed_out"]
    /\ UNCHANGED <<now, serviceVars, askPaused, asked, trayAskVars>>

AskNext ==
    \/ \E ok \in BOOLEAN : FoldAnswer(ok) \/ TrayAskHandled(ok) \/ TrayTold(ok)
    \/ StartInvestigation \/ FinishInvestigation \/ ClearAsk \/ TogglePause \/ Second
    \/ OpenPicker \/ RemoveAttachment \/ \E n \in 0..AttCap : ClosePicker(n)
    \/ \E q \in Questions : TrayAsk(q) \/ \E good \in BOOLEAN : CtlAsk(q, good)
    \/ \E p \in Problems, good \in BOOLEAN : TrayFix(p, good) \/ CtlFix(p, good)
    \/ CtlAccepted \/ CtlReads \/ CtlGivesUp

AskSpec == AskInit /\ [][AskNext]_askVars

-----------------------------------------------------------------------------
(* Properties *)

AskTypeOK ==
    /\ sending.n + pendingAtts \in 0..(2 * AttCap)
    /\ now \in 1..MaxNow /\ askError \in {"none", "rejected", "failed"}
    /\ Len(entries) <= EntryCap /\ Len(answering.history) <= HistoryCap
    /\ askRunning <=> answering.q # Nobody
    /\ carried => wanted # Nobody

(* The notice of a question rejected while another was being answered is   *)
(* there until a question is accepted or fails, or the history is cleared  *)
(* (main.rs:2224); a request to investigate leaves the loop only with its  *)
(* entry in the history (main.rs:871).                                     *)
NothingUnsaid ==
    [][/\ askError = "rejected" /\ askError' = "none" =>
              entries' = <<>> \/ (askRunning' /\ ~askRunning)
       /\ wanted # Nobody /\ wanted' # wanted => entries' # <<>> /\ Head(entries').q = wanted
      ]_askVars

(* "Hard cap on the pending-attachment list (across multiple picks)"       *)
(* (ask_attach.rs:26): neither a pick nor a restored batch passes it, so   *)
(* that the next question is not rejected for what it carries.             *)
PendingCapped == pendingAtts <= AttCap

(* One property for the runs: Ask Eir is sound.                            *)
AskSound == [](AskTypeOK /\ PendingCapped) /\ NothingUnsaid
=============================================================================
