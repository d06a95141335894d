---------------------------- MODULE MCDecisionLoop ----------------------------
(***************************************************************************)
(* Instances of DecisionLoop for TLC.  The minimum gap is two units, so    *)
(* that a ping can come before, at and after the point where the gap and   *)
(* the debounce meet.                                                      *)
(***************************************************************************)
EXTENDS DecisionLoop

CONSTANTS crash, slow, service

=============================================================================
