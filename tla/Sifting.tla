------------------------------- MODULE Sifting -------------------------------
(***************************************************************************)
(* The elements a sequence has at some of its places, in their order: what *)
(* the code's filters, retains and removals of lists leave.                *)
(***************************************************************************)
EXTENDS Naturals, Sequences, FiniteSets

Rank(S, i) == Cardinality({j \in S : j <= i})
Ranked(S, n) == CHOOSE i \in S : Rank(S, i) = n

Sifted(s, places) == [n \in 1 .. Cardinality(places) |-> s[Ranked(places, n)]]
=============================================================================
