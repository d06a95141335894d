--------------------------- MODULE Sifting_proofs ----------------------------
(***************************************************************************)
(* What Sifted leaves of a sequence, and the least number of a set, which  *)
(* the other proofs use.                                                   *)
(***************************************************************************)
EXTENDS Sifting, FiniteSetTheorems, SequenceTheorems, WellFoundedInduction, TLAPS

(* Any set of naturals that is not empty has a least element.              *)
LEMMA Least ==
    ASSUME NEW S \in SUBSET Nat, S # {} PROVE \E x \in S : \A y \in S : x <= y
<1>1. PICK x \in S : \A y \in S : ~(<<y, x>> \in OpToRel(<, Nat))
  BY NatLessThanWellFounded, WFMin
<1>2. ASSUME NEW y \in S PROVE x <= y
  <2>1. x \in Nat /\ y \in Nat /\ ~(y < x)
    BY <1>1 DEF OpToRel
  <2> QED
    BY <2>1
<1> QED
  BY <1>2

LEMMA RankGrows ==
    ASSUME NEW S \in SUBSET Nat, IsFiniteSet(S), NEW i \in S, NEW j \in S, i < j
    PROVE  Rank(S, i) < Rank(S, j) /\ Rank(S, i) \in Nat /\ Rank(S, j) \in Nat
<1> DEFINE A == {k \in S : k <= i}
           B == {k \in S : k <= j}
<1>1. A \subseteq B /\ IsFiniteSet(B) /\ A # B
  <2>1. IsFiniteSet(B)
    BY FS_Subset
  <2>2. j \in B /\ j \notin A
    OBVIOUS
  <2>3. ASSUME NEW k \in A PROVE k \in B
    <3>1. k \in Nat /\ i \in Nat /\ j \in Nat /\ k <= i
      OBVIOUS
    <3> QED
      BY <3>1
  <2> HIDE DEF A, B
  <2> QED
    BY <2>1, <2>2, <2>3
<1>2. IsFiniteSet(A) /\ Cardinality(A) < Cardinality(B)
  <2> HIDE DEF A, B
  <2>1. IsFiniteSet(A) /\ Cardinality(A) <= Cardinality(B) /\ Cardinality(A) # Cardinality(B)
    BY <1>1, FS_Subset
  <2>2. Cardinality(A) \in Nat /\ Cardinality(B) \in Nat
    BY <1>1, <2>1, FS_CardinalityType
  <2> QED
    BY <2>1, <2>2
<1>3. Cardinality(A) \in Nat /\ Cardinality(B) \in Nat
  BY <1>1, <1>2, FS_CardinalityType
<1> QED
  BY <1>2, <1>3 DEF Rank

(* After the first few places there is one with the next rank.             *)
LEMMA NextRank ==
    ASSUME NEW S \in SUBSET Nat, IsFiniteSet(S), NEW A \in SUBSET S, A # S,
           \A x \in A, y \in S \ A : x < y
    PROVE  \E j \in S : Rank(S, j) = Cardinality(A) + 1
<1>1. PICK j \in S \ A : \A y \in S \ A : j <= y
  <2>1. S \ A \in SUBSET Nat /\ S \ A # {}
    OBVIOUS
  <2> QED
    BY <2>1, Least
<1>2. {k \in S : k <= j} = A \cup {j}
  <2>1. ASSUME NEW k \in S PROVE k <= j <=> k \in A \cup {j}
    <3>1. CASE k \in A
      <4>1. k < j /\ k \in Nat /\ j \in Nat
        BY <1>1, <3>1
      <4> QED
        BY <3>1, <4>1
    <3>2. CASE k \notin A
      <4>1. j <= k /\ k \in Nat /\ j \in Nat
        BY <1>1, <3>2
      <4> QED
        BY <3>2, <4>1
    <3> QED
      BY <3>1, <3>2
  <2> QED
    BY <2>1, <1>1
<1>3. IsFiniteSet(A) /\ j \notin A
  BY <1>1, FS_Subset
<1>4. Cardinality(A \cup {j}) = Cardinality(A) + 1
  BY <1>3, FS_AddElement
<1> QED
  BY <1>1, <1>2, <1>4 DEF Rank

LEMMA RankedIs ==
    ASSUME NEW S \in SUBSET Nat, IsFiniteSet(S), NEW n \in 1 .. Cardinality(S)
    PROVE  Ranked(S, n) \in S /\ Rank(S, Ranked(S, n)) = n
<1>0. Cardinality(S) \in Nat
  BY FS_CardinalityType
<1> DEFINE Good(m) == \E i \in S : Rank(S, i) = m
           Bad == {m \in 1 .. Cardinality(S) : ~Good(m)}
<1>1. Bad = {}
  <2>1. SUFFICES ASSUME Bad # {} PROVE FALSE
    OBVIOUS
  <2>2. PICK m \in Bad : \A k \in Bad : m <= k
    <3>1. Bad \in SUBSET Nat
      BY <1>0
    <3> HIDE DEF Bad
    <3> QED
      BY <2>1, <3>1, Least
  <2>3. m \in Nat /\ 1 <= m /\ m <= Cardinality(S) /\ ~Good(m)
    BY <1>0
  <2>4. PICK A \in SUBSET S : Cardinality(A) = m - 1 /\ \A x \in A, y \in S \ A : x < y
    <3>1. CASE m = 1
      <4>1. Cardinality({}) = m - 1
        BY <3>1, FS_EmptySet
      <4> QED
        BY <4>1
    <3>2. CASE m # 1
      <4>1. m - 1 \in 1 .. Cardinality(S) /\ ~(m <= m - 1)
        BY <1>0, <2>3, <3>2
      <4>2. Good(m - 1)
        BY <2>2, <4>1
      <4>3. PICK i \in S : Rank(S, i) = m - 1
        BY <4>2
      <4>4. \A x \in {k \in S : k <= i}, y \in S \ {k \in S : k <= i} : x < y
        <5> SUFFICES ASSUME NEW x \in {k \in S : k <= i}, NEW y \in S \ {k \in S : k <= i} PROVE x < y
          OBVIOUS
        <5>1. x \in Nat /\ y \in Nat /\ i \in Nat /\ x <= i /\ ~(y <= i)
          OBVIOUS
        <5> QED
          BY <5>1
      <4> QED
        BY <4>3, <4>4 DEF Rank
    <3> QED
      BY <3>1, <3>2
  <2>5. A # S
    BY <1>0, <2>3, <2>4
  <2>6. PICK j \in S : Rank(S, j) = m - 1 + 1
    BY <2>4, <2>5, NextRank
  <2> QED
    BY <2>3, <2>6
<1>2. \E i \in S : Rank(S, i) = n
  BY <1>1
<1> QED
  BY <1>2 DEF Ranked

LEMMA RankedGrows ==
    ASSUME NEW S \in SUBSET Nat, IsFiniteSet(S), NEW m \in 1 .. Cardinality(S),
           NEW n \in 1 .. Cardinality(S), m < n
    PROVE  Ranked(S, m) < Ranked(S, n)
<1>0. Cardinality(S) \in Nat
  BY FS_CardinalityType
<1>1. PICK i, j : i = Ranked(S, m) /\ j = Ranked(S, n)
  OBVIOUS
<1>2. i \in S /\ j \in S /\ Rank(S, i) = m /\ Rank(S, j) = n
  BY <1>1, RankedIs
<1>3. ~(j < i)
  <2> SUFFICES ASSUME j < i PROVE FALSE
    OBVIOUS
  <2>1. n < m
    BY <1>2, RankGrows
  <2> QED
    BY <1>0, <2>1
<1>4. i # j /\ i \in Nat /\ j \in Nat
  BY <1>0, <1>2
<1> QED
  BY <1>1, <1>3, <1>4

(* The places of a sequence.                                               *)
LEMMA PlacesOf ==
    ASSUME NEW T, NEW s \in Seq(T), NEW I \in SUBSET DOMAIN s
    PROVE  /\ I \in SUBSET Nat /\ IsFiniteSet(I)
           /\ Cardinality(I) \in 0 .. Len(s) /\ Len(s) \in Nat
<1>1. IsFiniteSet(1 .. Len(s)) /\ Cardinality(1 .. Len(s)) = Len(s)
  <2>1. 1 \in Int /\ Len(s) \in Nat
    OBVIOUS
  <2> QED
    BY <2>1, FS_Interval
<1>2. I \subseteq 1 .. Len(s)
  OBVIOUS
<1>3. IsFiniteSet(I) /\ Cardinality(I) <= Len(s) /\ Cardinality(I) \in Nat
  BY <1>1, <1>2, FS_Subset, FS_CardinalityType
<1> QED
  BY <1>2, <1>3

LEMMA SiftedIs ==
    ASSUME NEW T, NEW s \in Seq(T), NEW I \in SUBSET DOMAIN s
    PROVE  /\ Sifted(s, I) \in Seq(T)
           /\ Len(Sifted(s, I)) \in 0 .. Len(s)
           /\ \A n \in 1 .. Len(Sifted(s, I)) : \E i \in I : Sifted(s, I)[n] = s[i]
           /\ \A m, n \in 1 .. Len(Sifted(s, I)) :
                 m < n => \E i, j \in I : i < j /\ Sifted(s, I)[m] = s[i] /\ Sifted(s, I)[n] = s[j]
<1>1. I \in SUBSET Nat /\ IsFiniteSet(I) /\ Cardinality(I) \in 0 .. Len(s) /\ Len(s) \in Nat
  BY PlacesOf
<1>2. PICK c, r : c = Cardinality(I) /\ r = Sifted(s, I)
  OBVIOUS
<1>3. c \in Nat /\ c \in 0 .. Len(s) /\ r = [n \in 1 .. c |-> s[Ranked(I, n)]]
  BY <1>1, <1>2 DEF Sifted
<1>4. \A n \in 1 .. c : Ranked(I, n) \in I /\ r[n] = s[Ranked(I, n)]
  BY <1>1, <1>2, <1>3, RankedIs
<1>5. \A n \in 1 .. c : s[Ranked(I, n)] \in T
  BY <1>4
<1>6. r \in Seq(T) /\ Len(r) = c
  BY <1>3, <1>5, IsASeq, LenProperties
<1>7. \A m, n \in 1 .. c : m < n => Ranked(I, m) < Ranked(I, n)
  BY <1>1, <1>2, RankedGrows
<1>8. \A m, n \in 1 .. c : m < n => \E i, j \in I : i < j /\ r[m] = s[i] /\ r[n] = s[j]
  BY <1>4, <1>7
<1> QED
  BY <1>2, <1>3, <1>4, <1>6, <1>8

LEMMA RankInto ==
    ASSUME NEW S \in SUBSET Nat, IsFiniteSet(S), NEW i \in S
    PROVE  Rank(S, i) \in 1 .. Cardinality(S) /\ Ranked(S, Rank(S, i)) = i
<1> DEFINE A == {k \in S : k <= i}
<1>1. IsFiniteSet(A) /\ Cardinality(A) <= Cardinality(S)
  BY FS_Subset
<1>2. i \in A
  OBVIOUS
<1>3. Cardinality(A) \in Nat /\ Cardinality(A) # 0 /\ Cardinality(S) \in Nat
  <2> HIDE DEF A
  <2> QED
    BY <1>1, <1>2, FS_EmptySet, FS_CardinalityType
<1>4. Rank(S, i) \in 1 .. Cardinality(S)
  BY <1>1, <1>3 DEF Rank
<1>5. PICK j : j = Ranked(S, Rank(S, i))
  OBVIOUS
<1>6. j \in S /\ Rank(S, j) = Rank(S, i)
  BY <1>4, <1>5, RankedIs
<1>7. ~(i < j) /\ ~(j < i)
  <2>1. i < j => Rank(S, i) < Rank(S, j)
    BY <1>6, RankGrows
  <2>2. j < i => Rank(S, j) < Rank(S, i)
    BY <1>6, RankGrows
  <2>3. Rank(S, i) \in Nat
    BY <1>3 DEF Rank
  <2> QED
    BY <1>6, <2>1, <2>2, <2>3
<1>8. i \in Nat /\ j \in Nat
  BY <1>6
<1> QED
  BY <1>4, <1>5, <1>7, <1>8

(* What stands at a place that is kept is kept.                            *)
LEMMA SiftedHas ==
    ASSUME NEW T, NEW s \in Seq(T), NEW I \in SUBSET DOMAIN s, NEW i \in I
    PROVE  \E n \in 1 .. Len(Sifted(s, I)) : Sifted(s, I)[n] = s[i]
<1>1. I \in SUBSET Nat /\ IsFiniteSet(I) /\ Cardinality(I) \in Nat
  BY PlacesOf
<1>2. PICK c, r : c = Cardinality(I) /\ r = Sifted(s, I)
  OBVIOUS
<1>3. r = [n \in 1 .. c |-> s[Ranked(I, n)]] /\ c \in Nat
  BY <1>1, <1>2 DEF Sifted
<1>4. r \in Seq(T) /\ Len(r) = c
  <2>1. \A n \in 1 .. c : s[Ranked(I, n)] \in T
    <3> TAKE n \in 1 .. c
    <3>1. Ranked(I, n) \in I
      BY <1>1, <1>2, RankedIs
    <3> QED
      BY <3>1
  <2> QED
    BY <1>3, <2>1, IsASeq, LenProperties
<1>5. PICK n : n = Rank(I, i)
  OBVIOUS
<1>6. n \in 1 .. c /\ Ranked(I, n) = i
  BY <1>1, <1>2, <1>5, RankInto
<1> QED
  BY <1>2, <1>3, <1>4, <1>6

LEMMA SiftedAll ==
    ASSUME NEW T, NEW s \in Seq(T) PROVE Sifted(s, DOMAIN s) = s
<1>1. PICK I : I = DOMAIN s
  OBVIOUS
<1>2. I \in SUBSET Nat /\ IsFiniteSet(I) /\ I = 1 .. Len(s) /\ Len(s) \in Nat
  BY <1>1, PlacesOf
<1>3. \A n \in 0 .. Len(s) : Cardinality(1 .. n) = n
  <2> TAKE n \in 0 .. Len(s)
  <2>1. 1 \in Int /\ n \in Nat
    BY <1>2
  <2> QED
    BY <2>1, FS_Interval
<1>4. \A n \in 1 .. Len(s) : Rank(I, n) = n
  <2> TAKE n \in 1 .. Len(s)
  <2>1. {j \in I : j <= n} = 1 .. n
    BY <1>2
  <2>2. n \in 0 .. Len(s)
    BY <1>2
  <2> QED
    BY <1>3, <2>1, <2>2 DEF Rank
<1>5. Cardinality(I) = Len(s)
  BY <1>2, <1>3
<1>6. \A n \in 1 .. Len(s) : Ranked(I, n) = n
  <2> TAKE n \in 1 .. Len(s)
  <2>1. Ranked(I, n) \in I /\ Rank(I, Ranked(I, n)) = n
    BY <1>2, <1>5, RankedIs
  <2> QED
    BY <1>2, <1>4, <2>1
<1>7. Sifted(s, I) = [n \in 1 .. Len(s) |-> s[n]]
  BY <1>5, <1>6 DEF Sifted
<1> QED
  BY <1>1, <1>7
=============================================================================
