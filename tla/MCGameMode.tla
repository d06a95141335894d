------------------------------ MODULE MCGameMode ------------------------------
(***************************************************************************)
(* An instance of GameMode for TLC: two ordinary plans beside High, and    *)
(* room for three edges in the channel.                                      *)
(***************************************************************************)
EXTENDS GameMode

CONSTANTS balanced, saver, high

=============================================================================
