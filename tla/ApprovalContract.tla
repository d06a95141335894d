--------------------------- MODULE ApprovalContract ---------------------------
(***************************************************************************)
(* What the approval queue promises about each action it has shown to the  *)
(* user: it starts only on a decision taken on that very card, that        *)
(* decision pays for one start, and after an interruption the card comes   *)
(* back for a new decision instead of being replayed.                      *)
(***************************************************************************)
CONSTANT Ids

VARIABLE phase

Phases == {"unborn", "open", "granted", "started", "lost", "closed"}

TypeOK == phase \in [Ids -> Phases]

Init == phase = [i \in Ids |-> "unborn"]

Step(i, from, to) == phase[i] \in from /\ phase' = [phase EXCEPT ![i] = to]

(* The action is proposed and shown. *)
Show(i) == Step(i, {"unborn"}, "open")

(* The user approves it. *)
Grant(i) == Step(i, {"open"}, "granted")

(* The executor begins. *)
Start(i) == Step(i, {"granted"}, "started")

(* Rejected, ignored, refused by the safety checks, or carried out. *)
Close(i) == Step(i, {"open", "granted", "started"}, "closed")

(* It failed to run: the user is asked again. *)
Return(i) == Step(i, {"started"}, "open")

(* The service loses sight of some of the decisions it holds. *)
Lose == \E S \in SUBSET Ids :
           /\ \A i \in S : phase[i] \in {"granted", "started"}
           /\ phase' = [i \in Ids |-> IF i \in S THEN "lost" ELSE phase[i]]

(* A restart asks again about every decision lost before it. *)
Recover == /\ \A i \in Ids : phase[i] \notin {"granted", "started"}
           /\ phase' = [i \in Ids |-> IF phase[i] = "lost" THEN "open" ELSE phase[i]]

Next == \/ \E i \in Ids : Show(i) \/ Grant(i) \/ Start(i) \/ Close(i) \/ Return(i)
        \/ Lose
        \/ Recover

Spec == Init /\ [][Next]_phase

=============================================================================
