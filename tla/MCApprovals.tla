----------------------------- MODULE MCApprovals -----------------------------
(***************************************************************************)
(* Small instances of Approvals for TLC: two or three rows, a whitelisted  *)
(* key a user can also request, a script and a registry reset.             *)
(***************************************************************************)
EXTENDS Approvals, TLC

CONSTANTS i1, i2, kw, kr, ks

RowSymmetry == Permutations(Ids)

=============================================================================
