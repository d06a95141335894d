-------------------------- MODULE DecisionLoop_proofs --------------------------
(***************************************************************************)
(* Proofs about DecisionLoop, for any entries and faults and any debounce  *)
(* and minimum gap with Debounce < MinGap.                                 *)
(***************************************************************************)
EXTENDS DecisionLoop, TLAPS

(* Of the pending reaction: unless the user or the end of a game has set   *)
(* it, it is as far away as the last analysis is recent; and every         *)
(* analysis began in a pass.                                               *)
Paced ==
    /\ sinceCycle <= sinceStart
    /\ reactIn # NoReaction /\ ~urgent => reactIn + sinceStart >= MinGap

IInv == TypeOK /\ FlagsExact /\ ErrorsAwaited /\ Paced

USE ClassesAssumption, PacingAssumption

-----------------------------------------------------------------------------
(* Types of what the parts of a pass leave behind *)

LEMMA AnalysisRecord ==
    ASSUME NEW at \in {"none", "working", "ok", "failed"}, NEW fp \in SUBSET Parts,
           NEW report \in BOOLEAN
    PROVE  LET a == [at |-> at, fp |-> fp, report |-> report] IN
           a \in Analysis /\ a.at = at /\ a.fp = fp /\ a.report = report
  BY DEF Analysis

LEMMA NoAnalysisIs ==
    NoAnalysis \in Analysis /\ NoAnalysis.at = "none" /\ NoAnalysis.report = FALSE
  BY DEF NoAnalysis, Analysis

LEMMA FingerprintType == TypeOK => Fingerprint \subseteq Parts /\ KnownFp \subseteq Parts
  BY DEF TypeOK, Fingerprint, KnownFp, Parts

LEMMA Fits == 0 \in 0..MinGap /\ Debounce \in 0..MinGap /\ 0..MinGap \subseteq Int
  OBVIOUS

(* The reaction a trigger schedules is in the future and not too soon.     *)
LEMMA LaterFits ==
    ASSUME NEW s \in 0..MinGap
    PROVE  /\ Later(Debounce, MinGap - s) \in 0..MinGap
           /\ Later(Debounce, MinGap - s) >= MinGap - s
  BY DEF Later

-----------------------------------------------------------------------------
(* One pass keeps the invariant. *)

LEMMA PassIInv ==
    ASSUME IInv, Body, ping' \in BOOLEAN, trayNews' \in BOOLEAN,
           ping => ping' \/ ~running
    PROVE  IInv'
<1> USE DEF IInv
<1>1. /\ sinceCycle' = 0 /\ wasGaming' = gaming
      /\ UNCHANGED <<faults, heartbeat, paused, tray, provider, wanted, gaming>>
  BY DEF Body
<1>2. \/ running /\ UNCHANGED <<reactIn, urgent>>
      \/ ~running /\ reactIn' = NoReaction /\ urgent' = FALSE
  BY DEF Body, CancelReaction
<1>3. reactIn' \in Deadline /\ urgent' \in BOOLEAN
  BY <1>2 DEF TypeOK, Deadline
<1>4. Fingerprint \subseteq Parts /\ KnownFp \subseteq Parts
  BY FingerprintType
<1>5. CASE Gated \/ Unprovided \/ BailsOut
  <2>1. /\ lastFp' = KnownFp /\ held' \in BOOLEAN
        /\ UNCHANGED <<buffered, running, analysis, wantedRuns, sinceStart, owed>>
        /\ ~running => held'
        /\ held => held'
    BY <1>5 DEF Gated, Unprovided, BailsOut, TypeOK
  <2>2. TypeOK'
    BY <1>1, <1>3, <1>4, <2>1, Fits DEF TypeOK
  <2>3. FlagsExact'
    BY <1>1, <2>1 DEF FlagsExact
  <2>4. ErrorsAwaited'
    BY <1>2, <2>1 DEF ErrorsAwaited
  <2>5. Paced'
    BY <1>1, <1>2, <2>1 DEF Paced, TypeOK
  <2> QED
    BY <2>2, <2>3, <2>4, <2>5
<1>6. CASE Drains /\ (Begins \/ Skips)
  <2>1. ~running /\ buffered' = {} /\ held' = FALSE /\ reactIn' = NoReaction
    BY <1>2, <1>6 DEF Drains
  <2>2. CASE Begins
    <3>1. /\ analysis' \in Analysis /\ analysis'.at = "working" /\ analysis'.report = wanted
      BY <1>4, <2>2, AnalysisRecord DEF Begins, TypeOK
    <3>2. /\ lastFp' = KnownFp /\ running' = TRUE /\ wantedRuns' = wanted
          /\ sinceStart' = 0 /\ owed' = FALSE
      BY <2>2 DEF Begins
    <3>3. TypeOK'
      BY <1>1, <1>3, <1>4, <2>1, <3>1, <3>2, Fits DEF TypeOK
    <3>4. FlagsExact' /\ ErrorsAwaited' /\ Paced'
      BY <1>1, <2>1, <3>1, <3>2 DEF FlagsExact, ErrorsAwaited, Paced, TypeOK
    <3> QED
      BY <3>3, <3>4
  <2>3. CASE Skips
    <3>1. /\ lastFp' \subseteq Parts
          /\ UNCHANGED <<running, analysis, wantedRuns, sinceStart, owed>>
      BY <1>4, <2>3 DEF Skips
    <3>2. TypeOK'
      BY <1>1, <1>3, <2>1, <3>1, Fits DEF TypeOK
    <3>3. FlagsExact' /\ ErrorsAwaited' /\ Paced'
      BY <1>1, <2>1, <3>1 DEF FlagsExact, ErrorsAwaited, Paced, TypeOK
    <3> QED
      BY <3>2, <3>3
  <2> QED
    BY <1>6, <2>2, <2>3
<1> QED
  BY <1>5, <1>6 DEF Body

-----------------------------------------------------------------------------
(* The inductive invariant *)

LEMMA InitIInv == Init => IInv
<1> SUFFICES ASSUME Init PROVE IInv
  OBVIOUS
<1>1. NoReaction \in Deadline /\ 0 \in 0..MinGap /\ MinGap \in 0..MinGap
  BY DEF Deadline
<1>2. TypeOK
  BY <1>1, NoAnalysisIs DEF Init, TypeOK
<1>3. FlagsExact /\ ErrorsAwaited
  BY NoAnalysisIs DEF Init, FlagsExact, ErrorsAwaited
<1>4. Paced
  BY DEF Init, Paced
<1> QED
  BY <1>2, <1>3, <1>4 DEF IInv

LEMMA NextIInv == IInv /\ [Next]_vars => IInv'
<1> SUFFICES ASSUME IInv, [Next]_vars PROVE IInv'
  OBVIOUS
<1> USE DEF machine, pacing, thinking, gates, request, games
<1>1. ASSUME NEW e \in Errors \cup Warnings, See(e) PROVE IInv'
  <2>1. TypeOK'
    BY <1>1 DEF See, IInv, TypeOK
  <2>2. FlagsExact' /\ Paced'
    BY <1>1 DEF See, IInv, FlagsExact, Paced
  <2>3. ErrorsAwaited'
    BY <1>1 DEF See, IInv, ErrorsAwaited
  <2> QED
    BY <2>1, <2>2, <2>3 DEF IInv
<1>2. ASSUME NEW now \in SUBSET Faults, SeeFaults(now) PROVE IInv'
  BY <1>2 DEF SeeFaults, IInv, TypeOK, FlagsExact, ErrorsAwaited, Paced
<1>3. CASE TickPass
  <2>1. ping' \in BOOLEAN /\ trayNews' \in BOOLEAN /\ (ping => ping')
    BY <1>3 DEF TickPass, IInv, TypeOK
  <2> QED
    BY <1>3, <2>1, PassIInv DEF TickPass
<1>4. CASE ReactionPass
  BY <1>4, PassIInv DEF ReactionPass, IInv, TypeOK
<1>5. CASE TrayArm
  <2>1. CASE Body /\ UNCHANGED ping
    <3>1. ping' \in BOOLEAN /\ trayNews' \in BOOLEAN /\ (ping => ping')
      BY <1>5, <2>1 DEF TrayArm, IInv, TypeOK
    <3> QED
      BY <2>1, <3>1, PassIInv
  <2>2. CASE UNCHANGED <<machine, pacing, thinking, paused, tray, provider,
                              request, games, held>>
    <3>1. /\ ping' = ping /\ trayNews' \in BOOLEAN /\ held' = held
          /\ UNCHANGED <<buffered, faults, reactIn, urgent, sinceCycle, sinceStart, running, analysis,
                         lastFp, heartbeat, paused, tray, provider, wanted, wantedRuns, gaming, wasGaming, owed>>
      BY <1>5, <2>2 DEF TrayArm, IInv, TypeOK
    <3>2. TypeOK'
      BY <3>1 DEF IInv, TypeOK
    <3>3. FlagsExact' /\ ErrorsAwaited' /\ Paced'
      BY <3>1 DEF IInv, FlagsExact, ErrorsAwaited, Paced
    <3> QED
      BY <3>2, <3>3 DEF IInv
  <2> QED
    BY <1>5, <2>1, <2>2 DEF TrayArm
<1>6. CASE TriggerArm
  <2>1. /\ UNCHANGED <<buffered, faults, sinceCycle, urgent, sinceStart,
                       thinking, gates, request, games, held>>
        /\ ping' = FALSE
    BY <1>6 DEF TriggerArm
  <2>2. /\ reactIn' \in 0..MinGap
        /\ ~urgent => reactIn' + sinceStart >= MinGap
    <3>1. /\ sinceCycle \in 0..MinGap /\ sinceStart \in 0..MinGap /\ sinceCycle <= sinceStart
      BY DEF IInv, TypeOK, Paced
    <3>2. CASE reactIn = NoReaction
      BY <1>6, <3>1, <3>2, LaterFits DEF TriggerArm
    <3>3. CASE reactIn # NoReaction
      BY <1>6, <3>3 DEF TriggerArm, IInv, TypeOK, Deadline, Paced
    <3> QED
      BY <3>2, <3>3
  <2>3. TypeOK'
    BY ZenonT(30), <2>1, <2>2 DEF IInv, TypeOK, Deadline
  <2>4. reactIn' # NoReaction
    BY <2>2 DEF NoReaction
  <2>5. FlagsExact' /\ ErrorsAwaited' /\ Paced'
    BY <2>1, <2>2, <2>4 DEF IInv, FlagsExact, ErrorsAwaited, Paced
  <2> QED
    BY <2>3, <2>5 DEF IInv
<1>7. CASE AnalysisEnds
  <2>1. /\ analysis' \in Analysis /\ analysis'.at # "none" /\ analysis.at # "none"
        /\ analysis'.report = analysis.report
    BY <1>7 DEF AnalysisEnds, IInv, TypeOK, Analysis
  <2> QED
    BY <1>7, <2>1 DEF AnalysisEnds, IInv, TypeOK, FlagsExact, ErrorsAwaited, Paced
<1>8. CASE FoldAnalysis
  <2>1. lastFp' \subseteq Parts /\ heartbeat' \in BOOLEAN
    BY <1>8 DEF FoldAnalysis, IInv, TypeOK, Analysis
  <2>2. analysis' \in Analysis /\ analysis'.at = "none" /\ running' = FALSE /\ wantedRuns' = FALSE
    BY <1>8, NoAnalysisIs DEF FoldAnalysis
  <2> QED
    BY <1>8, <2>1, <2>2 DEF FoldAnalysis, IInv, TypeOK, FlagsExact, ErrorsAwaited, Paced
<1>9. CASE Investigate
  <2>1. 0 \in Deadline /\ 0 # NoReaction
    BY DEF Deadline, NoReaction
  <2> QED
    BY <1>9, <2>1 DEF Investigate, IInv, TypeOK, FlagsExact, ErrorsAwaited, Paced
<1>10. CASE TogglePause
  <2>1. 0 \in Deadline /\ 0 # NoReaction
    BY DEF Deadline, NoReaction
  <2>2. CASE reactIn' = 0 /\ urgent' = TRUE
    BY <1>10, <2>1, <2>2
    DEF TogglePause, IInv, TypeOK, FlagsExact, ErrorsAwaited, Paced
  <2>3. CASE UNCHANGED <<reactIn, urgent>>
    BY <1>10, <2>3 DEF TogglePause, IInv, TypeOK, FlagsExact, ErrorsAwaited, Paced
  <2> QED
    BY <1>10, <2>2, <2>3 DEF TogglePause
<1>11. CASE GameStarts
  BY <1>11 DEF GameStarts, IInv, TypeOK, FlagsExact, ErrorsAwaited, Paced
<1>12. CASE GameEnds
  <2>1. Debounce \in Deadline /\ Debounce # NoReaction
    BY DEF Deadline, NoReaction
  <2>2. CASE reactIn' = Debounce /\ urgent' = TRUE
    BY <1>12, <2>1, <2>2
    DEF GameEnds, IInv, TypeOK, FlagsExact, ErrorsAwaited, Paced
  <2>3. CASE UNCHANGED <<reactIn, urgent>>
    BY <1>12, <2>3 DEF GameEnds, IInv, TypeOK, FlagsExact, ErrorsAwaited, Paced
  <2> QED
    BY <1>12, <2>2, <2>3 DEF GameEnds
<1>13. CASE LeaseLapses
  <2>1. TypeOK'
    BY ZenonT(30), <1>13 DEF LeaseLapses, IInv, TypeOK
  <2>2. FlagsExact' /\ ErrorsAwaited' /\ Paced'
    BY <1>13 DEF LeaseLapses, IInv, FlagsExact, ErrorsAwaited, Paced
  <2> QED
    BY <2>1, <2>2 DEF IInv
<1>14. CASE TrayChanges
  BY <1>14 DEF TrayChanges, IInv, TypeOK, FlagsExact, ErrorsAwaited, Paced
<1>15. CASE Elapses
  <2>1. /\ reactIn' \in Deadline /\ (reactIn' = NoReaction <=> reactIn = NoReaction)
        /\ sinceCycle' \in 0..MinGap /\ sinceStart' \in 0..MinGap
        /\ sinceCycle' <= sinceStart'
    BY <1>15 DEF Elapses, IInv, TypeOK, Deadline, NoReaction, Paced
  <2>2. reactIn # NoReaction /\ ~urgent => reactIn' + sinceStart' >= MinGap
    BY <1>15 DEF Elapses, IInv, TypeOK, Deadline, NoReaction, Paced
  <2> QED
    BY <1>15, <2>1, <2>2 DEF Elapses, IInv, TypeOK, FlagsExact, ErrorsAwaited, Paced
<1>16. CASE HeartbeatDue
  BY <1>16 DEF HeartbeatDue, IInv, TypeOK, FlagsExact, ErrorsAwaited, Paced
<1>17. CASE ConfigureProvider
  BY <1>17 DEF ConfigureProvider, IInv, TypeOK, FlagsExact, ErrorsAwaited, Paced
<1>18. CASE UNCHANGED vars
  BY <1>18 DEF vars, IInv, TypeOK, FlagsExact, ErrorsAwaited, Paced
<1> QED
  BY <1>1, <1>2, <1>3, <1>4, <1>5, <1>6, <1>7, <1>8, <1>9, <1>10, <1>11, <1>12, <1>13,
     <1>14, <1>15, <1>16, <1>17, <1>18
  DEF Next, Collect, Pass, Command, Environment

(* The inductive invariant holds throughout. *)
THEOREM Invariance == Spec => []IInv
  BY InitIInv, NextIInv, PTL DEF Spec

-----------------------------------------------------------------------------
(* What it is for *)

(* The variables keep their types. *)
THEOREM TypeCorrect == Spec => []TypeOK
  BY Invariance, PTL DEF IInv

(* analysis_running and investigation_in_flight are exact. *)
THEOREM FlagsAreExact == Spec => []FlagsExact
  BY Invariance, PTL DEF IInv

(* No error that a collector pinged for is left to the scheduled tick,     *)
(* unless a pause, a missing tray or a missing AI provider cut a pass off. *)
THEOREM ErrorsAreAwaited == Spec => []ErrorsAwaited
  BY Invariance, PTL DEF IInv

(* A reaction to collectors alone keeps REACTIVE_MIN_GAP from the start of *)
(* the last analysis.                                                      *)
THEOREM ReactionsAreSpaced == Spec => ReactionsSpaced
<1>1. IInv /\ [Next]_vars => [ReactionPass /\ ~urgent => sinceStart >= MinGap]_vars
  BY DEF IInv, Paced, TypeOK, ReactionPass, NoReaction
<1> QED
  BY <1>1, Invariance, PTL DEF Spec, ReactionsSpaced

(* A request is answered only by the analysis that carried it. *)
THEOREM OwnAnswers == Spec => AnsweredByItsOwn
<1>1. IInv /\ [Next]_vars => [wanted /\ ~wanted' => analysis.report]_vars
  <2> SUFFICES ASSUME IInv, Next, wanted, ~wanted' PROVE analysis.report
    OBVIOUS
  <2>1. FoldAnalysis
    BY DEF Next, Collect, Pass, Command, Environment, See, SeeFaults, TickPass, ReactionPass,
           TrayArm, Body, TriggerArm, AnalysisEnds, Investigate, TogglePause,
           ConfigureProvider, GameStarts, GameEnds, LeaseLapses, TrayChanges, Elapses, HeartbeatDue, request
  <2> QED
    BY <2>1 DEF FoldAnalysis, IInv, FlagsExact, TypeOK
<1> QED
  BY <1>1, Invariance, PTL DEF Spec, AnsweredByItsOwn

=============================================================================
