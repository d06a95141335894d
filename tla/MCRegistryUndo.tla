---------------------------- MODULE MCRegistryUndo ----------------------------
(***************************************************************************)
(* An instance of RegistryUndo for TLC: two resets of one value, which is  *)
(* absent or has one of two contents.                                      *)
(***************************************************************************)
EXTENDS RegistryUndo

CONSTANTS absent, v1, v2, r1, r2

=============================================================================
