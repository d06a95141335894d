------------------------------- MODULE MCUpdates -------------------------------
EXTENDS Updates, TLC
Symmetry == Permutations(Apps)
=============================================================================
