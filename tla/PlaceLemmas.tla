----------------------------- MODULE PlaceLemmas -----------------------------
(* Lemmas about the places of a sequence that are kept and about the        *)
(* entries at them, in their order.                                         *)
EXTENDS Places, FiniteSetTheorems, SequenceTheorems, WellFoundedInduction, TLAPS

(* Induction over numbers is by the least number of a set.                  *)
LEMMA LeastNatural ==
    ASSUME NEW T \in SUBSET Nat, T # {}
    PROVE  \E n \in T : \A m \in T : n <= m
  <1> DEFINE F == {1 .. n : n \in T}
  <1>1. F \subseteq FiniteSubsetsOf(Nat)
    BY FS_Interval DEF FiniteSubsetsOf
  <1>2. F # {}
    OBVIOUS
  <1>3. PICK X \in F : \A Y \in F : ~(<<Y, X>> \in StrictSubsetOrdering(Nat))
    BY <1>1, <1>2, FS_StrictSubsetOrderingWellFounded, WFMin
  <1>4. PICK n \in T : X = 1 .. n
    OBVIOUS
  <1>5. ASSUME NEW m \in T, m < n PROVE FALSE
    <2>1. 1 .. m \in F /\ (1 .. m) \subseteq (1 .. n) /\ n \in 1 .. n /\ n \notin 1 .. m
      BY <1>5
    <2>2. <<1 .. m, X>> \in StrictSubsetOrdering(Nat)
      BY <1>1, <1>4, <2>1 DEF StrictSubsetOrdering, FiniteSubsetsOf
    <2> QED BY <1>3, <2>1, <2>2
  <1> QED BY <1>4, <1>5

LEMMA NoMoreThan ==
    ASSUME NEW S, NEW T, IsFiniteSet(T), NEW f \in [S -> T],
           \A x, y \in S : f[x] = f[y] => x = y
    PROVE  Cardinality(S) <= Cardinality(T)
  <1>1. f \in Injection(S, T)
    BY DEF Injection, IsInjective
  <1> QED BY <1>1, FS_Injection

LEMMA FiniteImage ==
    ASSUME NEW S, IsFiniteSet(S), NEW f, DOMAIN f = S
    PROVE  IsFiniteSet({f[x] : x \in S})
  <1>1. PICK T : T = {f[x] : x \in S}
    OBVIOUS
  <1>2. PICK g : g = [x \in S |-> f[x]]
    OBVIOUS
  <1>3. g \in Surjection(S, T)
    BY <1>1, <1>2 DEF Surjection
  <1> QED BY <1>1, <1>3, FS_Surjection

(* How many of the places come no later than i.                             *)
Rank(places, i) == Cardinality({j \in places : j <= i})

PlaceOf(places, n) == CHOOSE i \in places : Rank(places, i) = n

LEMMA Subsets ==
    ASSUME NEW n \in Nat, NEW K \in SUBSET (1 .. n)
    PROVE  /\ IsFiniteSet(K) /\ Cardinality(K) \in 0 .. n
           /\ \A i : Rank(K, i) \in 0 .. Cardinality(K)
  <1>1. IsFiniteSet(1 .. n) /\ Cardinality(1 .. n) = n
    BY FS_Interval
  <1>2. IsFiniteSet(K) /\ Cardinality(K) <= n /\ Cardinality(K) \in Nat
    BY <1>1, FS_Subset, FS_CardinalityType
  <1>3. ASSUME NEW i PROVE Rank(K, i) \in 0 .. Cardinality(K)
    <2> DEFINE L == {j \in K : j <= i}
    <2>1. L \in SUBSET K
      OBVIOUS
    <2> HIDE DEF L
    <2>2. IsFiniteSet(L) /\ Cardinality(L) <= Cardinality(K) /\ Cardinality(L) \in Nat
      BY <1>2, <2>1, FS_Subset, FS_CardinalityType
    <2> QED BY <1>2, <2>2 DEF L, Rank
  <1> QED BY <1>2, <1>3

(* The places below n, and n itself or not.                                 *)
LEMMA OneMorePlace ==
    ASSUME NEW n \in Nat, NEW K \in SUBSET (1 .. n)
    PROVE  /\ Cardinality(K \cup {n + 1}) = Cardinality(K) + 1
           /\ \A i \in K : Rank(K \cup {n + 1}, i) = Rank(K, i)
           /\ Rank(K \cup {n + 1}, n + 1) = Cardinality(K) + 1
  <1>1. IsFiniteSet(K) /\ n + 1 \notin K /\ \A i \in K : i \in Nat /\ i <= n
    BY Subsets
  <1>2. Cardinality(K \cup {n + 1}) = Cardinality(K) + 1
    BY <1>1, FS_AddElement
  <1>3. \A i \in K : {j \in K \cup {n + 1} : j <= i} = {j \in K : j <= i}
    BY <1>1
  <1>4. {j \in K \cup {n + 1} : j <= n + 1} = K \cup {n + 1}
    <2>1. \A j \in K \cup {n + 1} : j <= n + 1
      BY <1>1
    <2> QED BY <2>1, Zenon
  <1> QED BY <1>2, <1>3, <1>4 DEF Rank

LEMMA RanksDiffer ==
    ASSUME NEW n \in Nat, NEW K \in SUBSET (1 .. n), NEW i \in K, NEW j \in K, i < j
    PROVE  Rank(K, i) < Rank(K, j) /\ Rank(K, i) >= 1
  <1> DEFINE I == {k \in K : k <= i}
             J == {k \in K : k <= j}
  <1>0. \A k \in K : k \in Nat
    OBVIOUS
  <1>1. I \in SUBSET J /\ j \in J /\ j \notin I /\ i \in I /\ J \in SUBSET K
    <2>1. /\ i <= i /\ j <= j /\ ~(j <= i)
          /\ \A k \in K : k <= i => k <= j
      BY <1>0
    <2> QED BY <2>1, Zenon
  <1>2. Rank(K, i) = Cardinality(I) /\ Rank(K, j) = Cardinality(J)
    BY DEF Rank
  <1> HIDE DEF I, J
  <1>3. IsFiniteSet(J) /\ IsFiniteSet(I)
    BY <1>1, Subsets, FS_Subset
  <1>4. Cardinality(I) <= Cardinality(J) /\ Cardinality(I) # Cardinality(J)
    BY <1>1, <1>3, FS_Subset
  <1>5. Cardinality(I) \in Nat /\ Cardinality(J) \in Nat /\ Cardinality(I) # 0
    BY <1>1, <1>3, FS_CardinalityType, FS_EmptySet
  <1> QED BY <1>2, <1>4, <1>5

(* The places are numbered by their ranks.                                  *)
LEMMA PlacesInOrder ==
    ASSUME NEW n \in Nat, NEW K \in SUBSET (1 .. n)
    PROVE  /\ \A i \in K : Rank(K, i) \in 1 .. Cardinality(K) /\ PlaceOf(K, Rank(K, i)) = i
           /\ \A r \in 1 .. Cardinality(K) : PlaceOf(K, r) \in K /\ Rank(K, PlaceOf(K, r)) = r
  <1> DEFINE C == Cardinality(K)
             f == [i \in K |-> Rank(K, i)]
  <1>1. IsFiniteSet(K) /\ C \in Nat
    BY Subsets
  <1>2. ASSUME NEW i \in K PROVE Rank(K, i) \in 1 .. C
    <2> DEFINE I == {k \in K : k <= i}
    <2>1. I \in SUBSET K /\ i \in I
      OBVIOUS
    <2> HIDE DEF I
    <2>2. IsFiniteSet(I) /\ Cardinality(I) # 0
      BY <1>1, <2>1, FS_Subset, FS_EmptySet
    <2>3. Rank(K, i) # 0
      BY <2>2 DEF I, Rank
    <2> QED BY <1>1, <2>3, Subsets
  <1>3. ASSUME NEW i \in K, NEW j \in K, Rank(K, i) = Rank(K, j) PROVE i = j
    <2>1. i \in Nat /\ j \in Nat /\ Rank(K, i) \in Nat
      BY <1>1, <1>2
    <2>2. ASSUME i < j PROVE FALSE
      <3>1. Rank(K, i) < Rank(K, j)
        BY <2>2, RanksDiffer
      <3> QED BY <1>3, <2>1, <3>1
    <2>3. ASSUME j < i PROVE FALSE
      <3>1. Rank(K, j) < Rank(K, i)
        BY <2>3, RanksDiffer
      <3> QED BY <1>3, <2>1, <3>1
    <2> QED BY <2>1, <2>2, <2>3
  <1>4. f \in Injection(K, 1 .. C)
    BY <1>2, <1>3 DEF Injection, IsInjective
  <1>5. f \in Surjection(K, 1 .. C)
    <2>1. IsFiniteSet(1 .. C) /\ Cardinality(1 .. C) = C
      BY <1>1, FS_Interval
    <2> HIDE DEF f
    <2> QED BY <1>1, <1>4, <2>1, FS_Injection
  <1>6. \A r \in 1 .. C : \E i \in K : Rank(K, i) = r
    BY <1>5 DEF Surjection
  <1>7. \A i \in K : PlaceOf(K, Rank(K, i)) = i
    BY <1>3 DEF PlaceOf
  <1>8. \A r \in 1 .. C : PlaceOf(K, r) \in K /\ Rank(K, PlaceOf(K, r)) = r
    BY <1>6 DEF PlaceOf
  <1> QED BY <1>2, <1>7, <1>8
-----------------------------------------------------------------------------
LEMMA EntriesCounted ==
    ASSUME NEW s, NEW K
    PROVE  DOMAIN EntriesAt(s, K) = 1 .. Cardinality(K)
  BY DEF EntriesAt

LEMMA EntriesInOrder ==
    ASSUME NEW S, NEW s \in Seq(S), NEW K \in SUBSET (1 .. Len(s))
    PROVE  /\ EntriesAt(s, K) \in Seq(S) /\ Len(EntriesAt(s, K)) = Cardinality(K)
           /\ \A r \in 1 .. Cardinality(K) : EntriesAt(s, K)[r] = s[PlaceOf(K, r)]
  <1> DEFINE C == Cardinality(K)
             e == [r \in 1 .. C |-> s[PlaceOf(K, r)]]
  <1>1. Len(s) \in Nat /\ C \in Nat
    BY LenProperties, Subsets
  <1>2. EntriesAt(s, K) = e
    BY DEF EntriesAt, PlaceOf, Rank
  <1>3. \A r \in 1 .. C : s[PlaceOf(K, r)] \in S
    BY <1>1, PlacesInOrder, ElementOfSeq
  <1> HIDE DEF C
  <1>4. e \in [1 .. C -> S]
    BY <1>3
  <1>5. e \in Seq(S) /\ Len(e) = C
    <2> HIDE DEF e
    <2> QED BY <1>1, <1>4
  <1> QED BY <1>2, <1>5 DEF C
=============================================================================
