------------------------ MODULE ConservativeRepairProofs ------------------------
(* Theorems about the conservative repair: a candidate that was accepted,   *)
(* by the repair or by the fill after it, is free of every defect the plan  *)
(* said it would remove.                                                    *)
EXTENDS ConservativeRepair, PlaceLemmas

-----------------------------------------------------------------------------
(* Faces and their corners.                                                 *)

LEMMA SmallSets ==
    /\ \A a, b : IsFiniteSet({a, b}) /\ Cardinality({a, b}) < 3
    /\ \A a : IsFiniteSet({a}) /\ Cardinality({a}) < 3
  <1>1. ASSUME NEW a, NEW b PROVE IsFiniteSet({a, b}) /\ Cardinality({a, b}) < 3
    <2>1. {a, b} = {a} \cup {b}
      OBVIOUS
    <2>2. IsFiniteSet({a}) /\ Cardinality({a}) = 1
      BY FS_Singleton
    <2>3. /\ IsFiniteSet({a} \cup {b})
          /\ Cardinality({a} \cup {b}) = IF b \in {a} THEN 1 ELSE 1 + 1
      BY <2>2, FS_AddElement
    <2> QED BY <2>1, <2>3
  <1>2. ASSUME NEW a PROVE IsFiniteSet({a}) /\ Cardinality({a}) < 3
    BY FS_Singleton
  <1> QED BY <1>1, <1>2

LEMMA UsableCorners ==
    ASSUME NEW faces, NEW f, ~IsRepeated(faces, f)
    PROVE  /\ faces[f][1] # faces[f][2] /\ faces[f][2] # faces[f][3]
           /\ faces[f][1] # faces[f][3]
  <1> DEFINE a == faces[f][1]
             b == faces[f][2]
             c == faces[f][3]
  <1>1. ~(Cardinality({a, b, c}) < 3)
    BY DEF IsRepeated, Corners
  <1> HIDE DEF a, b, c
  <1>2. ASSUME a = b \/ b = c \/ a = c PROVE FALSE
    <2>1. {a, b, c} = {a, b} \/ {a, b, c} = {b, c} \/ {a, b, c} = {a, c}
      BY <1>2
    <2> QED BY <1>1, <2>1, SmallSets
  <1> QED BY <1>2 DEF a, b, c

(* The three turns of a face.                                               *)
LEMMA Turns ==
    ASSUME NEW a, NEW b
    PROVE  SameCyclicOrientation(a, b) <=>
             \/ b[1] = a[3] /\ b[2] = a[1] /\ b[3] = a[2]
             \/ b[1] = a[1] /\ b[2] = a[2] /\ b[3] = a[3]
             \/ b[1] = a[2] /\ b[2] = a[3] /\ b[3] = a[1]
  <1>1. \A turn \in 0..2, k \in 1..3 :
           1 + ((k + turn - 1) % 3) = IF k + turn <= 3 THEN k + turn ELSE k + turn - 3
    OBVIOUS
  <1>2. PICK at : \A k \in -1 .. 5 : at[k] = Corner(a, k)
    <2> DEFINE g == [k \in -1 .. 5 |-> Corner(a, k)]
    <2>1. \A k \in -1 .. 5 : g[k] = Corner(a, k)
      OBVIOUS
    <2> QED BY <2>1
  <1>3. /\ at[0] = a[1] /\ at[1] = a[2] /\ at[2] = a[3] /\ at[3] = a[1] /\ at[4] = a[2]
    BY <1>2 DEF Corner
  <1> QED BY <1>2, <1>3 DEF SameCyclicOrientation

LEMMA TurnsAreEquivalent ==
    ASSUME NEW a, NEW b, NEW c
    PROVE  /\ SameCyclicOrientation(a, a)
           /\ SameCyclicOrientation(a, b) => SameCyclicOrientation(b, a)
           /\ SameCyclicOrientation(a, b) /\ SameCyclicOrientation(b, c)
                => SameCyclicOrientation(a, c)
           /\ SameCyclicOrientation(a, b) => Corners(a) = Corners(b)
  <1>1. SameCyclicOrientation(a, b) => Corners(a) = Corners(b)
    BY Turns DEF Corners
  <1>2. /\ SameCyclicOrientation(a, a)
        /\ SameCyclicOrientation(a, b) => SameCyclicOrientation(b, a)
    BY Turns
  <1>3. SameCyclicOrientation(a, b) /\ SameCyclicOrientation(b, c)
          => SameCyclicOrientation(a, c)
    BY Turns
  <1> QED BY <1>1, <1>2, <1>3

AreDistinct(a) == a[1] # a[2] /\ a[2] # a[3] /\ a[1] # a[3]

(* A triangle that does not run the way of another one of the same corners  *)
(* runs the other way.                                                      *)
LEMMA Reversed ==
    ASSUME NEW a, NEW b, AreDistinct(a), Corners(a) = Corners(b),
           ~SameCyclicOrientation(a, b)
    PROVE  /\ AreDistinct(b)
           /\ \/ b[1] = a[1] /\ b[2] = a[3] /\ b[3] = a[2]
              \/ b[1] = a[2] /\ b[2] = a[1] /\ b[3] = a[3]
              \/ b[1] = a[3] /\ b[2] = a[2] /\ b[3] = a[1]
  <1> DEFINE a1 == a[1]
             a2 == a[2]
             a3 == a[3]
             b1 == b[1]
             b2 == b[2]
             b3 == b[3]
  <1>1. a1 # a2 /\ a2 # a3 /\ a1 # a3
    BY DEF AreDistinct
  <1>2. {a1, a2, a3} = {b1, b2, b3}
    BY DEF Corners
  <1>3. ~(b1 = a3 /\ b2 = a1 /\ b3 = a2) /\ ~(b1 = a1 /\ b2 = a2 /\ b3 = a3)
        /\ ~(b1 = a2 /\ b2 = a3 /\ b3 = a1)
    BY Turns
  <1> HIDE DEF a1, a2, a3, b1, b2, b3
  <1>4. /\ b1 = a1 \/ b1 = a2 \/ b1 = a3
        /\ b2 = a1 \/ b2 = a2 \/ b2 = a3
        /\ b3 = a1 \/ b3 = a2 \/ b3 = a3
        /\ a1 = b1 \/ a1 = b2 \/ a1 = b3
        /\ a2 = b1 \/ a2 = b2 \/ a2 = b3
        /\ a3 = b1 \/ a3 = b2 \/ a3 = b3
    BY <1>2
  <1>5. b1 # b2 /\ b2 # b3 /\ b1 # b3
    BY <1>1, <1>4
  <1>6. \/ b1 = a1 /\ b2 = a3 /\ b3 = a2
        \/ b1 = a2 /\ b2 = a1 /\ b3 = a3
        \/ b1 = a3 /\ b2 = a2 /\ b3 = a1
    BY <1>3, <1>4, <1>5
  <1> QED BY <1>5, <1>6 DEF AreDistinct, a1, a2, a3, b1, b2, b3

(* There are two ways round a triangle.                                     *)
LEMMA TwoWaysRound ==
    ASSUME NEW a, NEW b, NEW c, AreDistinct(a), Corners(a) = Corners(b),
           Corners(a) = Corners(c),
           ~SameCyclicOrientation(a, b), ~SameCyclicOrientation(a, c)
    PROVE  SameCyclicOrientation(b, c)
  <1>1. \/ b[1] = a[1] /\ b[2] = a[3] /\ b[3] = a[2]
        \/ b[1] = a[2] /\ b[2] = a[1] /\ b[3] = a[3]
        \/ b[1] = a[3] /\ b[2] = a[2] /\ b[3] = a[1]
    BY Reversed
  <1>2. \/ c[1] = a[1] /\ c[2] = a[3] /\ c[3] = a[2]
        \/ c[1] = a[2] /\ c[2] = a[1] /\ c[3] = a[3]
        \/ c[1] = a[3] /\ c[2] = a[2] /\ c[3] = a[1]
    BY Reversed
  <1> QED BY <1>1, <1>2, Turns

Flip(a) == <<a[1], a[3], a[2]>>

LEMMA Flips ==
    ASSUME NEW a, NEW b
    PROVE  /\ Corners(Flip(a)) = Corners(a)
           /\ SameCyclicOrientation(Flip(a), Flip(b)) => SameCyclicOrientation(a, b)
  <1>1. /\ Flip(a)[1] = a[1] /\ Flip(a)[2] = a[3] /\ Flip(a)[3] = a[2]
        /\ Flip(b)[1] = b[1] /\ Flip(b)[2] = b[3] /\ Flip(b)[3] = b[2]
    BY DEF Flip
  <1>2. Corners(Flip(a)) = Corners(a)
    BY <1>1 DEF Corners
  <1>3. SameCyclicOrientation(Flip(a), Flip(b)) => SameCyclicOrientation(a, b)
    BY <1>1, Turns
  <1> QED BY <1>2, <1>3
-----------------------------------------------------------------------------
(* Lists of faces and their copies.                                         *)

IsList(s) == s \in Seq({s[i] : i \in DOMAIN s})

LEMMA Lists ==
    ASSUME NEW s
    PROVE  /\ \A S : s \in Seq(S) => IsList(s)
           /\ IsList(s) => \E n \in Nat : n = Len(s) /\ DOMAIN s = 1 .. n
           /\ IsList(s) => IsFiniteSet(DOMAIN s) /\ DOMAIN s \in SUBSET Nat
  <1>1. ASSUME NEW S, s \in Seq(S) PROVE IsList(s)
    <2> DEFINE T == {s[i] : i \in DOMAIN s}
    <2>1. PICK n \in Nat : n = Len(s)
      BY <1>1, LenProperties
    <2>2. s \in [1 .. n -> S] /\ DOMAIN s = 1 .. n
      BY <1>1, <2>1, LenProperties
    <2>3. s \in [1 .. n -> T]
      BY <2>2
    <2> HIDE DEF T
    <2>4. s \in Seq(T)
      BY <2>3
    <2> QED BY <2>4 DEF IsList, T
  <1>2. ASSUME IsList(s)
        PROVE  /\ \E n \in Nat : n = Len(s) /\ DOMAIN s = 1 .. n
               /\ IsFiniteSet(DOMAIN s) /\ DOMAIN s \in SUBSET Nat
    <2>1. PICK S : s \in Seq(S)
      BY <1>2 DEF IsList
    <2>2. Len(s) \in Nat /\ DOMAIN s = 1 .. Len(s)
      BY <2>1, LenProperties
    <2>3. IsFiniteSet(1 .. Len(s)) /\ 1 .. Len(s) \in SUBSET Nat
      BY <2>2, FS_Interval
    <2> QED BY <2>2, <2>3
  <1> QED BY <1>1, <1>2

NoCopies(faces) ==
    \A f, g \in DOMAIN faces :
        g < f /\ ~IsRepeated(faces, f) /\ ~IsRepeated(faces, g)
            => ~SameCyclicOrientation(faces[f], faces[g])

(* Every face that a face before it has the way round of is selected.       *)
LEMMA CopiesAreSelected ==
    ASSUME NEW faces, IsList(faces), NEW f \in DOMAIN faces, NEW g \in DOMAIN faces,
           g < f, ~IsRepeated(faces, f), ~IsRepeated(faces, g),
           SameCyclicOrientation(faces[f], faces[g])
    PROVE  f \in SelectDuplicateFaces(faces)
  <1> DEFINE usable == {k \in DOMAIN faces : ~IsRepeated(faces, k)}
             copies == {k \in usable : SameCyclicOrientation(faces[f], faces[k])}
  <1>1. DOMAIN faces \in SUBSET Nat /\ g \in copies /\ f \in usable
    BY Lists
  <1>2. copies \in SUBSET Nat /\ copies # {} /\ copies \in SUBSET usable
    BY <1>1
  <1> HIDE DEF copies
  <1>3. PICK h \in copies : \A k \in copies : h <= k
    BY <1>2, LeastNatural
  <1>4. h \in usable /\ h < f
    <2>1. h \in Nat /\ g \in Nat /\ f \in Nat /\ h <= g
      BY <1>1, <1>2, <1>3
    <2> QED BY <1>2, <2>1
  <1> HIDE DEF usable
  <1>5. <<h, f>> \in usable \X usable /\ <<h, f>>[1] = h /\ <<h, f>>[2] = f
    BY <1>1, <1>4
  <1>6. <<h, f>> \in DuplicatePairs(faces)
    BY <1>3, <1>4, <1>5 DEF DuplicatePairs, usable, copies
  <1> QED BY <1>5, <1>6 DEF SelectDuplicateFaces

LEMMA NoneSelected ==
    ASSUME NEW faces, NoCopies(faces)
    PROVE  SelectDuplicateFaces(faces) = {}
  <1>1. ASSUME NEW p \in DuplicatePairs(faces) PROVE FALSE
    <2>1. /\ p[1] \in DOMAIN faces /\ ~IsRepeated(faces, p[1])
          /\ p[2] \in DOMAIN faces /\ ~IsRepeated(faces, p[2])
          /\ SameCyclicOrientation(faces[p[2]], faces[p[1]]) /\ p[1] < p[2]
      BY <1>1 DEF DuplicatePairs
    <2> QED BY <2>1 DEF NoCopies
  <1> QED BY <1>1 DEF SelectDuplicateFaces

IsFirstCopy(faces, h, f) ==
    /\ h \in DOMAIN faces /\ f \in DOMAIN faces
    /\ ~IsRepeated(faces, f) /\ Corners(faces[h]) = Corners(faces[f]) /\ h < f
    /\ \A k \in DOMAIN faces : Corners(faces[k]) = Corners(faces[f]) => h <= k

LEMMA ExtraCopy ==
    ASSUME NEW faces
    PROVE  /\ \A p : p \in ExtraCopies(faces) <=>
                  p = <<p[1], p[2]>> /\ IsFirstCopy(faces, p[1], p[2])
           /\ \A h, f : <<h, f>> \in ExtraCopies(faces) <=> IsFirstCopy(faces, h, f)
  <1>1. ASSUME NEW p
        PROVE  p \in ExtraCopies(faces) <=>
                  p = <<p[1], p[2]>> /\ IsFirstCopy(faces, p[1], p[2])
    BY DEF ExtraCopies, IsFirstCopy
  <1>2. ASSUME NEW h, NEW f
        PROVE  <<h, f>> \in ExtraCopies(faces) <=> IsFirstCopy(faces, h, f)
    <2>1. <<h, f>>[1] = h /\ <<h, f>>[2] = f
      OBVIOUS
    <2>2. <<h, f>> \in ExtraCopies(faces) <=>
            <<h, f>> = <<<<h, f>>[1], <<h, f>>[2]>>
            /\ IsFirstCopy(faces, <<h, f>>[1], <<h, f>>[2])
      BY <1>1
    <2> QED BY <2>1, <2>2
  <1> QED BY <1>1, <1>2

(* The first copy of a triangle.                                            *)
LEMMA FirstCopies ==
    ASSUME NEW faces, IsList(faces), NEW f \in DOMAIN faces, NEW g \in DOMAIN faces,
           g < f, ~IsRepeated(faces, f), Corners(faces[g]) = Corners(faces[f])
    PROVE  \E h \in DOMAIN faces : h <= g /\ IsFirstCopy(faces, h, f)
  <1> DEFINE copies == {k \in DOMAIN faces : Corners(faces[k]) = Corners(faces[f])}
  <1>1. DOMAIN faces \in SUBSET Nat
    BY Lists
  <1>2. copies \in SUBSET Nat /\ copies # {} /\ g \in copies
    BY <1>1
  <1>3. PICK h \in copies : \A k \in copies : h <= k
    <2> HIDE DEF copies
    <2> QED BY <1>2, LeastNatural
  <1>4. h \in Nat /\ g \in Nat /\ f \in Nat /\ h <= g
    BY <1>1, <1>2, <1>3
  <1>5. h < f
    BY <1>4
  <1> QED BY <1>3, <1>4, <1>5 DEF IsFirstCopy

LEMMA ExtraCopiesAreFinite ==
    ASSUME NEW faces, IsList(faces)
    PROVE  /\ IsFiniteSet(ExtraCopies(faces))
           /\ IsFiniteSet(SameDuplicates(faces)) /\ IsFiniteSet(ReversedDuplicates(faces))
           /\ SameDuplicates(faces) \in SUBSET ExtraCopies(faces)
           /\ ReversedDuplicates(faces) \in SUBSET ExtraCopies(faces)
           /\ SameDuplicates(faces) \cup ReversedDuplicates(faces) = ExtraCopies(faces)
  <1>1. IsFiniteSet(DOMAIN faces)
    BY Lists
  <1>2. IsFiniteSet((DOMAIN faces) \X (DOMAIN faces))
    BY <1>1, FS_Product
  <1>3. ExtraCopies(faces) \in SUBSET ((DOMAIN faces) \X (DOMAIN faces))
    BY DEF ExtraCopies
  <1>4. IsFiniteSet(ExtraCopies(faces))
    BY <1>2, <1>3, FS_Subset
  <1>5. /\ SameDuplicates(faces) \in SUBSET ExtraCopies(faces)
        /\ ReversedDuplicates(faces) \in SUBSET ExtraCopies(faces)
        /\ SameDuplicates(faces) \cup ReversedDuplicates(faces) = ExtraCopies(faces)
    BY DEF SameDuplicates, ReversedDuplicates
  <1> QED BY <1>4, <1>5, FS_Subset
-----------------------------------------------------------------------------
(* The rebuild.                                                             *)

LEMMA IndicesInOrder ==
    ASSUME NEW s, NEW n \in Nat, DOMAIN s = 1 .. n
    PROVE  Indices(s) \in Seq(Nat) /\ Len(Indices(s)) = n /\ \A i \in 1 .. n : Indices(s)[i] = i
  <1>1. PICK x : x = Indices(s)
    OBVIOUS
  <1>2. x = [i \in 1 .. n |-> i]
    BY <1>1 DEF Indices
  <1>3. x \in [1 .. n -> Nat]
    BY <1>2
  <1>4. x \in Seq(Nat) /\ Len(x) = n
    BY <1>3
  <1> QED BY <1>1, <1>2, <1>4

LEMMA SurvivorsInOrder ==
    ASSUME NEW faces, IsList(faces), NEW removed
    PROVE  LET kept == Survivors(faces, removed) IN
           /\ IsList(kept)
           /\ \A j \in DOMAIN kept : kept[j] \in DOMAIN faces /\ kept[j] \notin removed
           /\ \A j, k \in DOMAIN kept : j < k => kept[j] < kept[k]
  <1> DEFINE K == DOMAIN faces \ removed
             s == Indices(faces)
             kept == Survivors(faces, removed)
  <1>1. PICK n \in Nat : DOMAIN faces = 1 .. n
    BY Lists
  <1>2. s \in Seq(Nat) /\ Len(s) = n /\ \A i \in 1 .. n : s[i] = i
    BY <1>1, IndicesInOrder
  <1>3. K \in SUBSET (1 .. n)
    BY <1>1
  <1>4. kept = EntriesAt(s, K)
    BY DEF Survivors
  <1> HIDE DEF K, s, kept
  <1>5. /\ kept \in Seq(Nat) /\ Len(kept) = Cardinality(K)
        /\ \A r \in 1 .. Cardinality(K) : kept[r] = s[PlaceOf(K, r)]
    BY <1>2, <1>3, <1>4, EntriesInOrder
  <1>6. PICK c \in Nat : c = Cardinality(K)
    BY <1>3, Subsets
  <1>7. \A r \in 1 .. c : PlaceOf(K, r) \in K /\ Rank(K, PlaceOf(K, r)) = r
    BY <1>3, <1>6, PlacesInOrder
  <1>10. DOMAIN kept = 1 .. c /\ IsList(kept)
    BY <1>5, <1>6, LenProperties, Lists
  <1>8. \A r \in DOMAIN kept : kept[r] \in K /\ Rank(K, kept[r]) = r
    <2> SUFFICES ASSUME NEW r \in 1 .. c PROVE kept[r] \in K /\ Rank(K, kept[r]) = r
      BY <1>10
    <2>1. PlaceOf(K, r) \in K /\ Rank(K, PlaceOf(K, r)) = r
      BY <1>7
    <2>2. kept[r] = PlaceOf(K, r)
      BY <1>2, <1>3, <1>5, <1>6, <2>1
    <2> QED BY <2>1, <2>2
  <1>9. ASSUME NEW j \in DOMAIN kept, NEW k \in DOMAIN kept, j < k
        PROVE  kept[j] < kept[k]
    <2>1. kept[j] \in Nat /\ kept[k] \in Nat /\ j \in Nat /\ k \in Nat
      <3>1. \A i \in K : i \in Nat
        BY <1>3
      <3>2. kept[j] \in K /\ kept[k] \in K
        BY <1>8
      <3>3. j \in 1 .. c /\ k \in 1 .. c
        BY <1>10
      <3> QED BY <3>1, <3>2, <3>3
    <2>2. kept[j] # kept[k]
      BY <1>8, <1>9, <2>1
    <2>3. ASSUME kept[k] < kept[j] PROVE FALSE
      <3>1. Rank(K, kept[k]) < Rank(K, kept[j])
        BY <1>3, <1>8, <2>3, RanksDiffer
      <3> QED BY <1>8, <1>9, <2>1, <3>1
    <2> QED BY <2>1, <2>2, <2>3
  <1> QED BY <1>8, <1>9, <1>10 DEF K, kept

LEMMA Rebuilt ==
    ASSUME NEW faces, IsList(faces), NEW removed, NEW flipped
    PROVE  LET kept == Survivors(faces, removed)
               made == RebuildCandidate(faces, removed, flipped)
           IN
           /\ IsList(made) /\ DOMAIN made = DOMAIN kept
           /\ \A j \in DOMAIN kept :
                /\ made[j] = IF kept[j] \in flipped THEN Flip(faces[kept[j]])
                                                    ELSE faces[kept[j]]
                /\ Corners(made[j]) = Corners(faces[kept[j]])
                /\ IsRepeated(made, j) <=> IsRepeated(faces, kept[j])
                /\ \A lines : IsZeroArea(made, lines, j) <=> IsZeroArea(faces, lines, kept[j])
  <1> DEFINE kept == Survivors(faces, removed)
             made == RebuildCandidate(faces, removed, flipped)
             copy(f) == IF f \in flipped THEN Flip(faces[f]) ELSE faces[f]
  <1>1. made = [j \in DOMAIN kept |-> copy(kept[j])]
    BY DEF RebuildCandidate, Flip
  <1>2. PICK n \in Nat : DOMAIN kept = 1 .. n
    BY SurvivorsInOrder, Lists
  <1> HIDE DEF kept, made
  <1>3. DOMAIN made = DOMAIN kept /\ \A j \in DOMAIN kept : made[j] = copy(kept[j])
    BY <1>1
  <1>4. IsList(made)
    <2> DEFINE S == {made[j] : j \in 1 .. n}
    <2>1. made \in [1 .. n -> S]
      BY <1>1, <1>2
    <2> HIDE DEF S
    <2>2. made \in Seq(S)
      BY <2>1
    <2> QED BY <2>2, Lists
  <1>5. \A j \in DOMAIN kept : Corners(made[j]) = Corners(faces[kept[j]])
    BY <1>3, Flips
  <1>6. \A j \in DOMAIN kept : IsRepeated(made, j) <=> IsRepeated(faces, kept[j])
    BY <1>5 DEF IsRepeated
  <1>7. \A j \in DOMAIN kept : \A lines :
           IsZeroArea(made, lines, j) <=> IsZeroArea(faces, lines, kept[j])
    BY <1>5, <1>6 DEF IsZeroArea
  <1> QED BY <1>3, <1>4, <1>5, <1>6, <1>7 DEF kept, made

LEMMA RebuiltWhole ==
    ASSUME NEW faces, IsList(faces)
    PROVE  RebuildCandidate(faces, {}, {}) = faces
  <1> DEFINE kept == Survivors(faces, {})
             made == RebuildCandidate(faces, {}, {})
  <1>1. PICK n \in Nat : DOMAIN faces = 1 .. n /\ n = Len(faces)
    BY Lists
  <1>2. kept = EntriesAt(Indices(faces), 1 .. n)
    BY <1>1 DEF Survivors
  <1>3. \A i \in 1 .. n : Rank(1 .. n, i) = i
    <2> SUFFICES ASSUME NEW i \in 1 .. n PROVE Rank(1 .. n, i) = i
      OBVIOUS
    <2>1. {j \in 1 .. n : j <= i} = 1 .. i
      OBVIOUS
    <2>2. Cardinality(1 .. i) = i
      BY FS_Interval
    <2> QED BY <2>1, <2>2 DEF Rank
  <1>4. Cardinality(1 .. n) = n
    BY FS_Interval
  <1>5. \A r \in 1 .. n : PlaceOf(1 .. n, r) = r
    BY <1>3 DEF PlaceOf
  <1>6. Indices(faces) \in Seq(Nat) /\ Len(Indices(faces)) = n
        /\ \A r \in 1 .. n : Indices(faces)[r] = r
    BY <1>1, IndicesInOrder
  <1>7. /\ kept \in Seq(Nat) /\ Len(kept) = n
        /\ \A r \in 1 .. n : kept[r] = Indices(faces)[PlaceOf(1 .. n, r)]
    BY <1>2, <1>4, <1>6, EntriesInOrder
  <1>8. DOMAIN kept = 1 .. n /\ \A r \in 1 .. n : kept[r] = r
    BY <1>5, <1>6, <1>7, LenProperties
  <1>9. IsList(made) /\ DOMAIN made = 1 .. n /\ \A r \in 1 .. n : made[r] = faces[r]
    <2> HIDE DEF kept
    <2>1. IsList(made) /\ DOMAIN made = DOMAIN kept
          /\ \A j \in DOMAIN kept : made[j] = faces[kept[j]]
      BY Rebuilt DEF kept
    <2> HIDE DEF made
    <2> QED BY <1>8, <2>1
  <1> HIDE DEF kept, made
  <1>10. PICK m : m = made
    OBVIOUS
  <1>11. m = [r \in 1 .. n |-> m[r]] /\ faces = [r \in 1 .. n |-> faces[r]]
    <2>1. \A s : IsList(s) => s = [i \in DOMAIN s |-> s[i]]
      <3> SUFFICES ASSUME NEW s, IsList(s) PROVE s = [i \in DOMAIN s |-> s[i]]
        OBVIOUS
      <3>1. PICK S : s \in Seq(S)
        BY DEF IsList
      <3>2. s \in [1 .. Len(s) -> S]
        BY <3>1, LenProperties
      <3> QED BY <3>2
    <2> QED BY <1>1, <1>9, <1>10, <2>1
  <1>12. m = faces
    BY <1>9, <1>10, <1>11
  <1> QED BY <1>10, <1>12 DEF made
-----------------------------------------------------------------------------
(* The duplicates. A rebuild that flips no face has no copy left.           *)
LEMMA NothingFlipped ==
    ASSUME NEW faces, IsList(faces), NEW removed, SelectDuplicateFaces(faces) \subseteq removed
    PROVE  NoCopies(RebuildCandidate(faces, removed, {}))
  <1> DEFINE kept == Survivors(faces, removed)
             made == RebuildCandidate(faces, removed, {})
  <1>1. /\ DOMAIN made = DOMAIN kept
        /\ \A j \in DOMAIN kept : /\ made[j] = faces[kept[j]]
                                  /\ IsRepeated(made, j) <=> IsRepeated(faces, kept[j])
    BY Rebuilt
  <1>2. /\ \A j \in DOMAIN kept : kept[j] \in DOMAIN faces /\ kept[j] \notin removed
        /\ \A j, k \in DOMAIN kept : j < k => kept[j] < kept[k]
    BY SurvivorsInOrder
  <1> HIDE DEF kept, made
  <1>3. ASSUME NEW f \in DOMAIN made, NEW g \in DOMAIN made, g < f,
               ~IsRepeated(made, f), ~IsRepeated(made, g),
               SameCyclicOrientation(made[f], made[g])
        PROVE  FALSE
    <2>1. /\ kept[f] \in DOMAIN faces /\ kept[g] \in DOMAIN faces /\ kept[g] < kept[f]
          /\ ~IsRepeated(faces, kept[f]) /\ ~IsRepeated(faces, kept[g])
          /\ SameCyclicOrientation(faces[kept[f]], faces[kept[g]])
          /\ kept[f] \notin removed
      BY <1>1, <1>2, <1>3
    <2> QED BY <2>1, CopiesAreSelected
  <1> QED BY <1>3 DEF NoCopies, made

(* What is left of a triangle is one face, or two that are opposite.        *)
LEMMA OneExtraCopy ==
    ASSUME NEW faces, IsList(faces), NoCopies(faces), NEW g, NEW e, NEW h, NEW f,
           IsFirstCopy(faces, g, e), IsFirstCopy(faces, h, f),
           Corners(faces[e]) = Corners(faces[f])
    PROVE  g = h /\ e = f /\ ~SameCyclicOrientation(faces[g], faces[e])
  <1>1. DOMAIN faces \in SUBSET Nat
    BY Lists
  <1>2. /\ g \in DOMAIN faces /\ e \in DOMAIN faces /\ h \in DOMAIN faces
        /\ f \in DOMAIN faces /\ g < e /\ h < f
        /\ ~IsRepeated(faces, e) /\ ~IsRepeated(faces, f)
        /\ Corners(faces[g]) = Corners(faces[e]) /\ Corners(faces[h]) = Corners(faces[f])
    BY DEF IsFirstCopy
  <1>3. g <= h /\ h <= g
    BY <1>2 DEF IsFirstCopy
  <1>4. g \in Nat /\ h \in Nat /\ e \in Nat /\ f \in Nat
    BY <1>1, <1>2
  <1>5. g = h
    BY <1>3, <1>4
  <1>6. ~IsRepeated(faces, g)
    BY <1>2 DEF IsRepeated
  <1>7. /\ ~SameCyclicOrientation(faces[g], faces[e])
        /\ ~SameCyclicOrientation(faces[g], faces[f])
    BY <1>2, <1>5, <1>6, TurnsAreEquivalent DEF NoCopies
  <1>8. AreDistinct(faces[g])
    BY <1>6, UsableCorners DEF AreDistinct
  <1>9. SameCyclicOrientation(faces[e], faces[f])
    BY <1>2, <1>7, <1>8, TwoWaysRound
  <1>10. ~(e < f) /\ ~(f < e)
    BY <1>2, <1>9, TurnsAreEquivalent DEF NoCopies
  <1> QED BY <1>4, <1>5, <1>7, <1>10

(* Two opposite faces that are left tell of a reversed copy in the source.  *)
LEMMA ReversedInSource ==
    ASSUME NEW faces, IsList(faces), NEW x \in DOMAIN faces, NEW y \in DOMAIN faces,
           x < y, ~IsRepeated(faces, x), ~IsRepeated(faces, y),
           Corners(faces[x]) = Corners(faces[y]),
           ~SameCyclicOrientation(faces[x], faces[y])
    PROVE  \E q \in ReversedDuplicates(faces) : q[2] = x \/ q[2] = y
  <1>1. DOMAIN faces \in SUBSET Nat
    BY Lists
  <1>2. PICK g \in DOMAIN faces : g <= x /\ IsFirstCopy(faces, g, y)
    BY FirstCopies
  <1>3. CASE ~SameCyclicOrientation(faces[g], faces[y])
    <2>1. <<g, y>> \in ExtraCopies(faces) /\ <<g, y>>[1] = g /\ <<g, y>>[2] = y
      BY <1>2, ExtraCopy
    <2>2. <<g, y>> \in ReversedDuplicates(faces)
      BY <1>3, <2>1 DEF ReversedDuplicates, SameDuplicates
    <2> QED BY <2>1, <2>2
  <1>4. CASE SameCyclicOrientation(faces[g], faces[y])
    <2>1. g \in Nat /\ x \in Nat /\ g # x
      BY <1>1, <1>4
    <2>2. IsFirstCopy(faces, g, x)
      BY <1>2, <2>1 DEF IsFirstCopy
    <2>3. ~SameCyclicOrientation(faces[g], faces[x])
      BY <1>4, TurnsAreEquivalent
    <2>4. <<g, x>> \in ExtraCopies(faces) /\ <<g, x>>[1] = g /\ <<g, x>>[2] = x
      BY <2>2, ExtraCopy
    <2>5. <<g, x>> \in ReversedDuplicates(faces)
      BY <2>3, <2>4 DEF ReversedDuplicates, SameDuplicates
    <2> QED BY <2>4, <2>5
  <1> QED BY <1>3, <1>4

LEMMA AsManyReversed ==
    ASSUME NEW faces, IsList(faces), NEW removed, SelectDuplicateFaces(faces) \subseteq removed
    PROVE  Cardinality(ExtraCopies(RebuildCandidate(faces, removed, {})))
             <= Cardinality(ReversedDuplicates(faces))
  <1> DEFINE kept == Survivors(faces, removed)
             made == RebuildCandidate(faces, removed, {})
             S == ExtraCopies(made)
             T == ReversedDuplicates(faces)
             tells(p, q) == q[2] = kept[p[1]] \/ q[2] = kept[p[2]]
             told == [p \in S |-> CHOOSE q \in T : tells(p, q)]
  <1>1. /\ IsList(made) /\ DOMAIN made = DOMAIN kept
        /\ \A j \in DOMAIN kept : /\ made[j] = faces[kept[j]]
                                  /\ IsRepeated(made, j) <=> IsRepeated(faces, kept[j])
    BY Rebuilt
  <1>2. /\ \A j \in DOMAIN kept : kept[j] \in DOMAIN faces
        /\ \A j, k \in DOMAIN kept : j < k => kept[j] < kept[k]
    BY SurvivorsInOrder
  <1>3. NoCopies(made)
    BY NothingFlipped
  <1>4. \A p \in S : p = <<p[1], p[2]>> /\ IsFirstCopy(made, p[1], p[2])
    BY ExtraCopy
  <1> HIDE DEF kept, made, S
  <1>5. ASSUME NEW p \in S PROVE \E q \in T : tells(p, q)
    <2>1. PICK h, e : h = p[1] /\ e = p[2]
      OBVIOUS
    <2>2. IsFirstCopy(made, h, e)
      BY <1>4, <2>1
    <2>3. ~SameCyclicOrientation(made[h], made[e])
      BY <1>1, <1>3, <2>2, OneExtraCopy
    <2>4. /\ h \in DOMAIN kept /\ e \in DOMAIN kept /\ h < e
          /\ ~IsRepeated(made, h) /\ ~IsRepeated(made, e)
          /\ Corners(made[h]) = Corners(made[e])
      BY <1>1, <2>2 DEF IsFirstCopy, IsRepeated
    <2>5. \E q \in ReversedDuplicates(faces) : q[2] = kept[h] \/ q[2] = kept[e]
      BY <1>1, <1>2, <2>3, <2>4, ReversedInSource
    <2> QED BY <2>1, <2>5
  <1>6. \A p \in S : told[p] \in T /\ tells(p, told[p])
    <2> HIDE DEF T, tells
    <2> QED BY <1>5
  <1> HIDE DEF told
  <1>7. ASSUME NEW p \in S, NEW o \in S, told[p] = told[o] PROVE p = o
    <2>1. PICK h, e, g, d : h = p[1] /\ e = p[2] /\ g = o[1] /\ d = o[2]
      OBVIOUS
    <2>2. IsFirstCopy(made, h, e) /\ IsFirstCopy(made, g, d)
      BY <1>4, <2>1
    <2>3. /\ h \in DOMAIN kept /\ e \in DOMAIN kept /\ g \in DOMAIN kept /\ d \in DOMAIN kept
          /\ Corners(made[h]) = Corners(made[e]) /\ Corners(made[g]) = Corners(made[d])
      BY <1>1, <2>2 DEF IsFirstCopy
    <2>4. /\ kept[h] = kept[g] \/ kept[h] = kept[d] \/ kept[e] = kept[g] \/ kept[e] = kept[d]
      BY <1>6, <1>7, <2>1
    <2>5. Corners(made[e]) = Corners(made[d])
      BY <1>1, <2>3, <2>4
    <2>6. h = g /\ e = d
      BY <1>1, <1>3, <2>2, <2>5, OneExtraCopy
    <2> QED BY <1>4, <2>1, <2>6
  <1>8. told \in [S -> T]
    BY <1>6 DEF told
  <1>9. IsFiniteSet(T)
    BY ExtraCopiesAreFinite
  <1>10. Cardinality(S) <= Cardinality(T)
    <2> HIDE DEF T
    <2> QED BY <1>7, <1>8, <1>9, NoMoreThan
  <1> QED BY <1>10 DEF S, made

(* A flip may turn a reversed copy into a copy.  It is then one reversed    *)
(* copy less, and the verdict compares their numbers.                       *)
LEMMA NoCopyIsLeft ==
    ASSUME NEW faces, IsList(faces), NEW removed, SelectDuplicateFaces(faces) \subseteq removed,
           NEW flipped,
           Cardinality(ReversedDuplicates(RebuildCandidate(faces, removed, flipped)))
             = Cardinality(ReversedDuplicates(faces))
    PROVE  NoCopies(RebuildCandidate(faces, removed, flipped))
  <1> DEFINE kept == Survivors(faces, removed)
             plain == RebuildCandidate(faces, removed, {})
             made == RebuildCandidate(faces, removed, flipped)
  <1>1. /\ IsList(plain) /\ DOMAIN plain = DOMAIN kept
        /\ \A j \in DOMAIN kept : /\ Corners(plain[j]) = Corners(faces[kept[j]])
                                  /\ IsRepeated(plain, j) <=> IsRepeated(faces, kept[j])
    BY Rebuilt
  <1>2. /\ IsList(made) /\ DOMAIN made = DOMAIN kept
        /\ \A j \in DOMAIN kept : /\ Corners(made[j]) = Corners(faces[kept[j]])
                                  /\ IsRepeated(made, j) <=> IsRepeated(faces, kept[j])
    BY Rebuilt
  <1>3. NoCopies(plain)
    BY NothingFlipped
  <1>4. Cardinality(ExtraCopies(plain)) <= Cardinality(ReversedDuplicates(made))
    BY AsManyReversed
  <1> HIDE DEF kept, plain, made
  <1>5. \A h, f : IsFirstCopy(made, h, f) <=> IsFirstCopy(plain, h, f)
    BY <1>1, <1>2 DEF IsFirstCopy
  <1>6. ExtraCopies(made) = ExtraCopies(plain)
    BY <1>5, ExtraCopy
  <1>7. ReversedDuplicates(made) = ExtraCopies(made)
    <2>1. PICK S, T : S = ExtraCopies(made) /\ T = ReversedDuplicates(made)
      OBVIOUS
    <2>2. IsFiniteSet(S) /\ T \in SUBSET S
      BY <1>2, <2>1, ExtraCopiesAreFinite
    <2>3. Cardinality(S) <= Cardinality(T)
      BY <1>4, <1>6, <2>1
    <2>4. IsFiniteSet(T) /\ Cardinality(T) <= Cardinality(S)
      BY <2>2, FS_Subset
    <2>5. Cardinality(S) = Cardinality(T)
      BY <2>2, <2>3, <2>4, FS_CardinalityType
    <2> QED BY <2>1, <2>2, <2>5, FS_Subset
  <1>8. ASSUME NEW f \in DOMAIN made, NEW g \in DOMAIN made, g < f,
               ~IsRepeated(made, f), ~IsRepeated(made, g),
               SameCyclicOrientation(made[f], made[g])
        PROVE  FALSE
    <2>1. Corners(made[g]) = Corners(made[f])
      BY <1>8, TurnsAreEquivalent
    <2>2. PICK h \in DOMAIN made : h <= g /\ IsFirstCopy(made, h, f)
      BY <1>2, <1>8, <2>1, FirstCopies
    <2>3. CASE h = g
      <3>1. <<g, f>> \in ExtraCopies(made) /\ <<g, f>>[1] = g /\ <<g, f>>[2] = f
        BY <2>2, <2>3, ExtraCopy
      <3>2. SameCyclicOrientation(made[g], made[f])
        BY <1>8, TurnsAreEquivalent
      <3>3. <<g, f>> \in SameDuplicates(made)
        BY <3>1, <3>2 DEF SameDuplicates
      <3> QED BY <1>7, <3>1, <3>3 DEF ReversedDuplicates
    <2>4. CASE h # g
      <3>1. h \in Nat /\ g \in Nat /\ f \in Nat
        <4>1. DOMAIN made \in SUBSET Nat
          BY <1>2, Lists
        <4> QED BY <4>1
      <3>2. h < g
        BY <2>2, <2>4, <3>1
      <3>3. IsFirstCopy(made, h, g)
        BY <1>8, <2>1, <2>2, <3>2 DEF IsFirstCopy
      <3>4. Corners(plain[g]) = Corners(plain[f])
        BY <1>1, <1>2, <2>1
      <3>5. g = f
        BY <1>1, <1>3, <1>5, <2>2, <3>3, <3>4, OneExtraCopy
      <3> QED BY <1>8, <3>1, <3>5
    <2> QED BY <2>3, <2>4
  <1> QED BY <1>8 DEF NoCopies, made
-----------------------------------------------------------------------------
(* The plan, the verdict and the execution.                                 *)

(* What the plan removes is all that the removals it announces select.      *)
IsSelected(m, lines, p) ==
    /\ "duplicates" \in p.order => p.selected["duplicates"] = SelectDuplicateFaces(m.faces)
    /\ "repeated" \in p.order => p.selected["repeated"] = SelectRepeated(m.faces)
    /\ "zeroArea" \in p.order => p.selected["zeroArea"] = SelectZeroArea(m.faces, lines)

LEMMA Planned ==
    ASSUME NEW m, NEW lines, NEW v, NEW rep, NEW requested
    PROVE  IsSelected(m, lines, PlanRepair(m, lines, v, rep, requested))
  <1> DEFINE p == PlanRepair(m, lines, v, rep, requested)
             selected == Selections(m, lines, rep, requested)
  <1>1. /\ p.selected = selected
        /\ \A op \in p.order : op = "winding" \/ selected[op] # {}
    BY DEF PlanRepair
  <1>2. /\ selected["duplicates"] = {}
           \/ selected["duplicates"] = SelectDuplicateFaces(m.faces)
        /\ selected["repeated"] = {} \/ selected["repeated"] = SelectRepeated(m.faces)
        /\ selected["zeroArea"] = {}
           \/ selected["zeroArea"] = SelectZeroArea(m.faces, lines)
    BY DEF Selections
  <1> HIDE DEF p, selected
  <1> QED BY <1>1, <1>2 DEF IsSelected, p

LEMMA ReportCounts ==
    ASSUME NEW faces, NEW lines, NEW v
    PROVE  LET r == Report(faces, lines, v) IN
           /\ r.repeated = Cardinality(SelectRepeated(faces))
           /\ r.zeroArea = Cardinality(SelectZeroArea(faces, lines))
           /\ r.same = Cardinality(SameDuplicates(faces))
           /\ r.reversed = Cardinality(ReversedDuplicates(faces))
           /\ r.conflicts = Cardinality(WindingConflicts(v.edges, v.groups))
  BY DEF Report, SelectRepeated, SelectZeroArea

LEMMA Accepts ==
    ASSUME NEW p, NEW v, NEW before, NEW after, NEW removed, NEW faces,
           NEW verdict, verdict = Validate(p, v, before, after, removed, faces), verdict = {}
    PROVE  /\ after.reversed = before.reversed
           /\ "winding" \in p.order => after.conflicts = 0
  <1> DEFINE predicted == PredictAfterRemoval(v, removed)
             ran == "winding" \in p.order
             worse(op, defect) == op \in p.order /\ after[defect] > before[defect]
             broken ==
               [StructurallyInvalid |-> faces = <<>>,
                BoundaryEdgesIncreased |-> after.boundary # predicted.boundary,
                NonManifoldEdgesIncreased |-> after.nonManifold # predicted.nonManifold,
                NonManifoldVerticesIncreased |->
                    after.nonManifoldVertices > before.nonManifoldVertices,
                WindingConflictsIncreased |->
                    after.conflicts # (IF ran THEN 0 ELSE predicted.conflicts),
                ReversedDuplicatesChanged |-> after.reversed # before.reversed,
                ComponentCountChanged |-> ~ComponentsExplained(v, before, after, removed),
                TargetDefectNotRemoved |->
                    \/ worse("duplicates", "same")
                    \/ worse("repeated", "repeated")
                    \/ worse("zeroArea", "zeroArea")
                    \/ ran /\ after.conflicts # 0]
  <1>1. {name \in DOMAIN broken : broken[name]} = {}
    BY Zenon DEF Validate
  <1>2. /\ "ReversedDuplicatesChanged" \in DOMAIN broken
        /\ "TargetDefectNotRemoved" \in DOMAIN broken
    OBVIOUS
  <1>3. /\ (after.reversed # before.reversed) => broken["ReversedDuplicatesChanged"]
        /\ (ran /\ after.conflicts # 0) => broken["TargetDefectNotRemoved"]
    BY Zenon
  <1> HIDE DEF broken
  <1>4. ~broken["ReversedDuplicatesChanged"] /\ ~broken["TargetDefectNotRemoved"]
    BY <1>1, <1>2, Zenon
  <1> QED BY <1>3, <1>4

LEMMA OrientedByCount ==
    ASSUME NEW faces, IsList(faces), NEW lines
    PROVE  Orients(faces, {}) <=> Report(faces, lines, BuildView(faces)).conflicts = 0
  <1>1. Orients(faces, {}) <=>
          Cardinality(WindingConflicts(DirectedEdges(faces),
                                       GroupEdges(DirectedEdges(faces)))) = 0
    BY RebuiltWhole DEF Orients
  <1>2. /\ BuildView(faces).edges = DirectedEdges(faces)
        /\ BuildView(faces).groups = GroupEdges(DirectedEdges(faces))
    BY DEF BuildView
  <1>3. Report(faces, lines, BuildView(faces)).conflicts
          = Cardinality(WindingConflicts(BuildView(faces).edges, BuildView(faces).groups))
    BY ReportCounts
  <1> QED BY <1>1, <1>2, <1>3

IsClean(p, lines, faces) ==
    /\ "duplicates" \in p.order => NoCopies(faces)
    /\ "repeated" \in p.order => SelectRepeated(faces) = {}
    /\ "zeroArea" \in p.order => SelectZeroArea(faces, lines) = {}
    /\ "winding" \in p.order => Orients(faces, {})

(* What the repair builds and the verdict accepts.                          *)
LEMMA Executed ==
    ASSUME NEW m, IsList(m.faces), NEW lines, NEW v, NEW before, NEW p,
           IsSelected(m, lines, p),
           before.reversed = Cardinality(ReversedDuplicates(m.faces)),
           NEW removed, removed = UNION {p.selected[op] : op \in p.order \ {"winding"}},
           NEW flipped, NEW faces, faces = RebuildCandidate(m.faces, removed, flipped),
           Validate(p, v, before, Report(faces, lines, BuildView(faces)), removed, faces) = {}
    PROVE  IsList(faces) /\ IsClean(p, lines, faces)
  <1> DEFINE kept == Survivors(m.faces, removed)
  <1>0. PICK after : after = Report(faces, lines, BuildView(faces))
    OBVIOUS
  <1>1. /\ after.reversed = before.reversed
        /\ "winding" \in p.order => after.conflicts = 0
    <2>1. PICK verdict : verdict = Validate(p, v, before, after, removed, faces)
      OBVIOUS
    <2>2. verdict = {}
      BY <1>0, <2>1
    <2> QED BY <2>1, <2>2, Accepts
  <1>2. IsList(faces)
    BY Rebuilt
  <1>3. Cardinality(ReversedDuplicates(faces)) = Cardinality(ReversedDuplicates(m.faces))
    BY <1>0, <1>1, ReportCounts
  <1>4. ASSUME "duplicates" \in p.order PROVE NoCopies(faces)
    <2>1. SelectDuplicateFaces(m.faces) \subseteq removed
      BY <1>4 DEF IsSelected
    <2> QED BY <1>3, <2>1, NoCopyIsLeft
  <1>5. /\ DOMAIN faces = DOMAIN kept
        /\ \A j \in DOMAIN kept :
             /\ IsRepeated(faces, j) <=> IsRepeated(m.faces, kept[j])
             /\ IsZeroArea(faces, lines, j) <=> IsZeroArea(m.faces, lines, kept[j])
             /\ kept[j] \in DOMAIN m.faces /\ kept[j] \notin removed
    BY Rebuilt, SurvivorsInOrder
  <1>6. ASSUME "repeated" \in p.order PROVE SelectRepeated(faces) = {}
    <2>1. SelectRepeated(m.faces) \subseteq removed
      BY <1>6 DEF IsSelected
    <2> HIDE DEF kept
    <2> QED BY <1>5, <2>1 DEF SelectRepeated
  <1>7. ASSUME "zeroArea" \in p.order PROVE SelectZeroArea(faces, lines) = {}
    <2>1. SelectZeroArea(m.faces, lines) \subseteq removed
      BY <1>7 DEF IsSelected
    <2> HIDE DEF kept
    <2> QED BY <1>5, <2>1 DEF SelectZeroArea
  <1>8. ASSUME "winding" \in p.order PROVE Orients(faces, {})
    BY <1>0, <1>1, <1>2, <1>8, OrientedByCount
  <1> QED BY <1>2, <1>4, <1>6, <1>7, <1>8 DEF IsClean

IsMesh(m) == DOMAIN m = {"faces", "split"} /\ IsList(m.faces)

IsResult(r, lines, p) ==
    /\ DOMAIN r = {"acceptance", "regressions", "candidate", "fill"}
    /\ r.acceptance = "no-op" => p.order = {}
    /\ r.acceptance = "accepted" =>
          IsMesh(r.candidate) /\ IsClean(p, lines, r.candidate.faces)

LEMMA ExecutionsAnswer ==
    ASSUME NEW m, IsList(m.faces), NEW lines, NEW v, NEW before, NEW p,
           IsSelected(m, lines, p),
           before.reversed = Cardinality(ReversedDuplicates(m.faces))
    PROVE  IsResult(ExecuteRepair(m, lines, v, before, p), lines, p)
  <1>0. PICK r : r = ExecuteRepair(m, lines, v, before, p)
    OBVIOUS
  <1>1. PICK removed : removed = UNION {p.selected[op] : op \in p.order \ {"winding"}}
    OBVIOUS
  <1>2. PICK flipped : flipped = IF "winding" \in p.order THEN p.flipped ELSE {}
    OBVIOUS
  <1>3. PICK faces : faces = RebuildCandidate(m.faces, removed, flipped)
    OBVIOUS
  <1>4. PICK regressions :
          regressions = Validate(p, v, before, Report(faces, lines, BuildView(faces)),
                                 removed, faces)
    OBVIOUS
  <1>5. PICK split : split = Cardinality((1 .. m.split) \ removed)
    OBVIOUS
  <1>6. r = IF p.order = {} THEN NoCandidate("no-op")
            ELSE IF p.refused # {} THEN NoCandidate("refused")
            ELSE IF regressions # {}
            THEN [NoCandidate("rejected") EXCEPT !.regressions = regressions]
            ELSE [NoCandidate("accepted") EXCEPT
                    !.candidate = [faces |-> faces, split |-> split]]
    BY <1>0, <1>1, <1>2, <1>3, <1>4, <1>5, Zenon DEF ExecuteRepair
  <1>8. CASE p.order = {}
    <2>1. /\ DOMAIN r = {"acceptance", "regressions", "candidate", "fill"}
          /\ r.acceptance = "no-op"
      BY <1>6, <1>8 DEF NoCandidate
    <2> QED BY <1>0, <1>8, <2>1 DEF IsResult
  <1>9. CASE p.order # {} /\ (p.refused # {} \/ regressions # {})
    <2>1. DOMAIN r = {"acceptance", "regressions", "candidate", "fill"}
          /\ (r.acceptance = "refused" \/ r.acceptance = "rejected")
      BY <1>6, <1>9 DEF NoCandidate
    <2> QED BY <1>0, <2>1 DEF IsResult
  <1>10. CASE p.order # {} /\ p.refused = {} /\ regressions = {}
    <2>1. DOMAIN r = {"acceptance", "regressions", "candidate", "fill"}
          /\ r.acceptance = "accepted" /\ r.candidate.faces = faces
          /\ DOMAIN r.candidate = {"faces", "split"}
      BY <1>6, <1>10 DEF NoCandidate
    <2>2. IsList(faces) /\ IsClean(p, lines, faces)
      BY <1>1, <1>3, <1>4, <1>10, Executed
    <2> QED BY <1>0, <2>1, <2>2 DEF IsResult, IsMesh
  <1> QED BY <1>0, <1>8, <1>9, <1>10
-----------------------------------------------------------------------------
(* The loops that are found are finitely many, and each is walked once.     *)

LEMMA EndsAreFinite ==
    ASSUME NEW rim, IsFiniteSet(DOMAIN rim)
    PROVE  IsFiniteSet(EndsOfRim(rim))
  <1> DEFINE f == [i \in DOMAIN rim |-> {rim[i].from, rim[i].to}]
             S == {f[i] : i \in DOMAIN rim}
  <1>1. EndsOfRim(rim) = UNION S
    BY DEF EndsOfRim
  <1>2. DOMAIN f = DOMAIN rim /\ \A i \in DOMAIN rim : IsFiniteSet(f[i])
    BY SmallSets
  <1> HIDE DEF f
  <1>3. IsFiniteSet(S) /\ \A x \in S : IsFiniteSet(x)
    BY <1>2, FiniteImage
  <1> QED BY <1>1, <1>3, FS_UNION

LEMMA RimIsFinite ==
    ASSUME NEW faces, IsList(faces), NEW table
    PROVE  IsFiniteSet(DOMAIN ScannedRim(faces, table))
  <1> DEFINE edges == ScannedEdges(faces)
             K == {d \in DOMAIN edges : table[{edges[d].from, edges[d].to}].count = 1}
             single == EntriesAt(edges, K)
  <1>1. DOMAIN ScannedRim(faces, table) = DOMAIN single
    BY DEF ScannedRim
  <1>2. DOMAIN edges = 1 .. 3 * Len(faces)
    BY DEF ScannedEdges
  <1>3. 3 * Len(faces) \in Nat
    BY Lists
  <1>4. K \in SUBSET (1 .. 3 * Len(faces))
    BY <1>2
  <1> HIDE DEF K, edges
  <1>5. Cardinality(K) \in Nat
    BY <1>3, <1>4, Subsets
  <1>6. DOMAIN single = 1 .. Cardinality(K)
    BY EntriesCounted
  <1> QED BY <1>1, <1>5, <1>6, FS_Interval

IsRound(loop) == Len(loop.cycle) \in Nat

LEMMA LoopsAreFinite ==
    ASSUME NEW rim, IsFiniteSet(DOMAIN rim), NEW at, NEW conflicts
    PROVE  LET found == Eligible(LoopsOf(rim, at, conflicts)) IN
           IsFiniteSet(found) /\ \A loop \in found : IsRound(loop)
  <1> DEFINE found == Eligible(LoopsOf(rim, at, conflicts))
  <1>1. PICK S : S = ComponentsOf(rim)
    OBVIOUS
  <1>2. PICK signals : signals = Signals(rim, at, conflicts)
    OBVIOUS
  <1>3. IsFiniteSet(EndsOfRim(rim)) /\ S \in SUBSET (SUBSET EndsOfRim(rim))
    BY <1>1, EndsAreFinite DEF ComponentsOf
  <1>4. IsFiniteSet(S) /\ \A members \in S : Cardinality(members) \in Nat
    <2>1. IsFiniteSet(SUBSET EndsOfRim(rim))
      BY <1>3, FS_SUBSET
    <2>2. IsFiniteSet(S)
      BY <1>3, <2>1, FS_Subset
    <2>3. ASSUME NEW members \in S PROVE Cardinality(members) \in Nat
      <3>1. members \in SUBSET EndsOfRim(rim)
        BY <1>3
      <3>2. IsFiniteSet(members)
        BY <1>3, <3>1, FS_Subset
      <3> QED BY <3>2, FS_CardinalityType
    <2> QED BY <2>2, <2>3
  <1> DEFINE f == [members \in S |-> LoopOf(members, signals)]
             T == {f[members] : members \in S}
  <1>5. LoopsOf(rim, at, conflicts) = T
    BY <1>1, <1>2 DEF LoopsOf
  <1>6. IsFiniteSet(T)
    <2>1. DOMAIN f = S
      OBVIOUS
    <2> HIDE DEF f
    <2> QED BY <1>4, <2>1, FiniteImage
  <1>7. found \in SUBSET T
    BY <1>5 DEF Eligible
  <1>8. ASSUME NEW members \in S, LoopOf(members, signals).refusal = "none"
        PROVE  IsRound(LoopOf(members, signals))
    <2>1. LoopOf(members, signals).cycle = WalkCycle(members, signals).cycle
          /\ Len(WalkCycle(members, signals).cycle) = Cardinality(members)
      BY <1>8 DEF LoopOf
    <2> QED BY <1>4, <2>1 DEF IsRound
  <1>9. ASSUME NEW loop \in found PROVE IsRound(loop)
    BY <1>5, <1>8 DEF Eligible
  <1> HIDE DEF found, T
  <1>10. IsFiniteSet(found)
    BY <1>6, <1>7, FS_Subset
  <1> QED BY <1>9, <1>10 DEF found

LEMMA ScansAreFinite ==
    ASSUME NEW faces, IsList(faces)
    PROVE  LET found == Eligible(ScanBoundaries(faces).loops) IN
           IsFiniteSet(found) /\ \A loop \in found : IsRound(loop)
  <1>1. PICK table : table = EdgeTable(faces)
    OBVIOUS
  <1>2. PICK rim : rim = ScannedRim(faces, table)
    OBVIOUS
  <1>3. PICK loops : loops = ScannedLoops(table, rim)
    OBVIOUS
  <1>4. ScanBoundaries(faces).loops = loops
    <2> DEFINE made(t, r) == [edges |-> t, boundary |-> Len(r), loops |-> ScannedLoops(t, r)]
    <2>1. ScanBoundaries(faces)
            = CHOOSE scan \in {made(t, ScannedRim(faces, t)) : t \in {EdgeTable(faces)}} : TRUE
      BY Zenon DEF ScanBoundaries
    <2>2. {made(t, ScannedRim(faces, t)) : t \in {EdgeTable(faces)}} = {made(table, rim)}
      BY <1>1, <1>2, Zenon
    <2>3. ScanBoundaries(faces) = made(table, rim)
      <3> HIDE DEF made
      <3> QED BY <2>1, <2>2
    <2> QED BY <1>3, <2>3
  <1>5. loops = {} \/ \E at, conflicts : loops = LoopsOf(rim, at, conflicts)
    BY <1>3, Zenon DEF ScannedLoops
  <1>6. IsFiniteSet(DOMAIN rim)
    BY <1>2, RimIsFinite
  <1>7. CASE loops = {}
    <2>1. Eligible(loops) = {}
      BY <1>7 DEF Eligible
    <2> QED BY <1>4, <2>1, FS_EmptySet
  <1>8. CASE \E at, conflicts : loops = LoopsOf(rim, at, conflicts)
    BY <1>4, <1>6, <1>8, LoopsAreFinite
  <1> QED BY <1>5, <1>7, <1>8

IsAdmitted(a) ==
    /\ IsFiniteSet(DOMAIN a)
    /\ \A loop \in DOMAIN a : IsFiniteSet(DOMAIN a[loop])

LEMMA AdmissionsAreFinite ==
    ASSUME NEW faces, IsList(faces), NEW lines, NEW a \in Admissions(faces, lines)
    PROVE  IsAdmitted(a)
  <1>1. PICK scan : scan = ScanBoundaries(faces)
    OBVIOUS
  <1>2. PICK E : E = Eligible(scan.loops)
    OBVIOUS
  <1>3. IsFiniteSet(E) /\ \A loop \in E : IsRound(loop)
    BY <1>1, <1>2, ScansAreFinite
  <1>4. PICK found : found = [loop \in E |-> Patches(loop, scan.edges, lines)]
    OBVIOUS
  <1>5. PICK kept \in SUBSET {loop \in DOMAIN found : found[loop] # {}} :
          DOMAIN a = kept /\ \A loop \in kept : a[loop] \in found[loop]
    BY <1>1, <1>2, <1>4 DEF Admissions
  <1>6. DOMAIN a \in SUBSET E /\ \A loop \in DOMAIN a : a[loop] \in Patches(loop, scan.edges, lines)
    BY <1>4, <1>5
  <1>7. ASSUME NEW loop \in DOMAIN a PROVE IsFiniteSet(DOMAIN a[loop])
    <2>1. PICK c : a[loop] = PatchFaces(loop, c)
      BY <1>6 DEF Patches
    <2>2. DOMAIN a[loop] = 1 .. Len(loop.cycle) - 2
      BY <2>1 DEF PatchFaces
    <2>3. Len(loop.cycle) - 2 \in Int
      BY <1>3, <1>6 DEF IsRound
    <2> QED BY <2>2, <2>3, FS_Interval
  <1> QED BY <1>3, <1>6, <1>7, FS_Subset DEF IsAdmitted
-----------------------------------------------------------------------------
(* The fill.                                                                *)

(* The faces of the source come first in the filled candidate.              *)
LEMMA Appended ==
    ASSUME NEW faces, IsList(faces), NEW a, IsAdmitted(a)
    PROVE  LET filled == AppendPatches(faces, a) IN
           /\ IsList(filled) /\ Len(faces) <= Len(filled)
           /\ \A i \in DOMAIN faces : i \in DOMAIN filled /\ filled[i] = faces[i]
  <1> DEFINE slotsOf(loop) == {<<loop, t>> : t \in DOMAIN a[loop]}
             S == {slotsOf(loop) : loop \in DOMAIN a}
             slots == UNION S
  <1>1. IsFiniteSet(slots)
    <2> DEFINE f == [loop \in DOMAIN a |-> slotsOf(loop)]
    <2>1. S = {f[loop] : loop \in DOMAIN a} /\ DOMAIN f = DOMAIN a
      OBVIOUS
    <2>2. IsFiniteSet(DOMAIN a)
      BY DEF IsAdmitted
    <2>3. ASSUME NEW loop \in DOMAIN a PROVE IsFiniteSet(slotsOf(loop))
      <3> DEFINE g == [t \in DOMAIN a[loop] |-> <<loop, t>>]
      <3>1. IsFiniteSet(DOMAIN a[loop]) /\ DOMAIN g = DOMAIN a[loop]
            /\ slotsOf(loop) = {g[t] : t \in DOMAIN a[loop]}
        BY DEF IsAdmitted
      <3> HIDE DEF g
      <3>2. IsFiniteSet({g[t] : t \in DOMAIN a[loop]})
        BY <3>1, FiniteImage
      <3> QED BY <3>1, <3>2
    <2> HIDE DEF f, slotsOf
    <2>4. IsFiniteSet({f[loop] : loop \in DOMAIN a})
      BY <2>1, <2>2, FiniteImage
    <2>5. IsFiniteSet(S)
      BY <2>1, <2>4
    <2>6. \A x \in S : IsFiniteSet(x)
      BY <2>3
    <2> HIDE DEF S
    <2> QED BY <2>5, <2>6, FS_UNION
  <1>2. PICK n \in Nat : n = Cardinality(slots)
    BY <1>1, FS_CardinalityType
  <1>3. PICK added : /\ added = [k \in 1 .. n |-> added[k]]
                     /\ AppendPatches(faces, a) = faces \o added
    <2> DEFINE slot(k) == CHOOSE q \in slots : Cardinality({p \in slots : Precedes(p, q)}) = k - 1
               x == [k \in 1 .. Cardinality(slots) |-> a[slot(k)[1]][slot(k)[2]]]
    <2>1. AppendPatches(faces, a) = faces \o x
      BY Zenon DEF AppendPatches
    <2>2. PICK y : y = x
      OBVIOUS
    <2>3. y = [k \in 1 .. n |-> y[k]]
      <3> HIDE DEF slots, slot
      <3> QED BY <1>2, <2>2
    <2> HIDE DEF x
    <2> QED BY <2>1, <2>2, <2>3
  <1> DEFINE T == {faces[i] : i \in DOMAIN faces} \cup {added[k] : k \in 1 .. n}
  <1>4. faces \in Seq(T)
    <2>1. faces \in Seq({faces[i] : i \in DOMAIN faces})
      BY DEF IsList
    <2>2. {faces[i] : i \in DOMAIN faces} \subseteq T
      OBVIOUS
    <2> HIDE DEF T
    <2> QED BY <2>1, <2>2, SeqMonotonic
  <1>5. added \in Seq(T) /\ Len(added) = n
    <2>1. added \in [1 .. n -> T]
      BY <1>3
    <2> HIDE DEF T
    <2> QED BY <2>1
  <1> HIDE DEF T
  <1>6. PICK filled : filled = faces \o added
    OBVIOUS
  <1>7. /\ filled \in Seq(T) /\ Len(filled) = Len(faces) + n
        /\ \A i \in 1 .. Len(faces) + n :
             filled[i] = IF i <= Len(faces) THEN faces[i] ELSE added[i - Len(faces)]
    BY <1>4, <1>5, <1>6, ConcatProperties
  <1>8. DOMAIN faces = 1 .. Len(faces) /\ DOMAIN filled = 1 .. Len(filled)
        /\ Len(faces) \in Nat
    BY <1>4, <1>7, LenProperties
  <1>9. IsList(filled)
    BY <1>7, Lists
  <1>10. \A i \in DOMAIN faces : i \in DOMAIN filled /\ filled[i] = faces[i]
    BY <1>7, <1>8
  <1>11. Len(faces) <= Len(filled)
    BY <1>7, <1>8
  <1> QED BY <1>3, <1>6, <1>9, <1>10, <1>11

LEMMA FillAccepts ==
    ASSUME NEW before, NEW after, NEW a,
           NEW verdict, verdict = JudgeFilled(before, after, a), verdict = {}
    PROVE  /\ after.same = before.same /\ after.reversed = before.reversed
           /\ after.repeated = before.repeated /\ after.zeroArea = before.zeroArea
           /\ after.conflicts = before.conflicts
  <1> DEFINE same(defect) == after[defect] = before[defect]
             expected ==
               [BoundaryEdges |-> after.boundary = before.boundary - RimEdges(a),
                BoundaryComponents |->
                    after.openings = before.openings - Cardinality(DOMAIN a),
                NonManifoldEdges |-> same("nonManifold"),
                NonManifoldVertices |->
                    after.nonManifoldVertices <= before.nonManifoldVertices,
                WindingConflicts |-> same("conflicts"),
                Components |-> same("components"),
                Duplicates |-> same("same") /\ same("reversed"),
                Degenerate |-> same("repeated") /\ same("zeroArea")]
  <1>1. {name \in DOMAIN expected : ~expected[name]} = {}
    BY Zenon DEF JudgeFilled
  <1>2. /\ "WindingConflicts" \in DOMAIN expected
        /\ "Duplicates" \in DOMAIN expected /\ "Degenerate" \in DOMAIN expected
    OBVIOUS
  <1>3. /\ expected["WindingConflicts"] => same("conflicts")
        /\ expected["Duplicates"] => same("same") /\ same("reversed")
        /\ expected["Degenerate"] => same("repeated") /\ same("zeroArea")
    BY Zenon
  <1> HIDE DEF expected
  <1>4. expected["WindingConflicts"] /\ expected["Duplicates"] /\ expected["Degenerate"]
    BY <1>1, <1>2, Zenon
  <1> QED BY <1>3, <1>4

IsPrefixOf(faces, filled) ==
    /\ Len(faces) <= Len(filled)
    /\ \A i \in DOMAIN faces : i \in DOMAIN filled /\ filled[i] = faces[i]

(* As many copies of each kind as before are the copies of before.          *)
LEMMA NoExtraCopyAdded ==
    ASSUME NEW faces, IsList(faces), NEW filled, IsList(filled), IsPrefixOf(faces, filled),
           Cardinality(SameDuplicates(filled)) = Cardinality(SameDuplicates(faces)),
           Cardinality(ReversedDuplicates(filled)) = Cardinality(ReversedDuplicates(faces))
    PROVE  ExtraCopies(filled) = ExtraCopies(faces)
  <1>1. PICK n \in Nat, m \in Nat : DOMAIN faces = 1 .. n /\ DOMAIN filled = 1 .. m
                                  /\ n <= m
    BY Lists DEF IsPrefixOf
  <1>2. ASSUME NEW p \in ExtraCopies(faces)
        PROVE  /\ p \in ExtraCopies(filled) /\ p[1] \in DOMAIN faces /\ p[2] \in DOMAIN faces
    <2>1. PICK h, f : p = <<h, f>> /\ h = p[1] /\ f = p[2] /\ IsFirstCopy(faces, h, f)
      BY ExtraCopy
    <2>2. /\ h \in DOMAIN faces /\ f \in DOMAIN faces
          /\ h \in DOMAIN filled /\ f \in DOMAIN filled
          /\ filled[h] = faces[h] /\ filled[f] = faces[f]
      BY <2>1 DEF IsFirstCopy, IsPrefixOf
    <2>3. ASSUME NEW k \in DOMAIN filled, Corners(filled[k]) = Corners(filled[f])
          PROVE  h <= k
      <3>1. CASE k \in DOMAIN faces
        <4>1. filled[k] = faces[k]
          BY <3>1 DEF IsPrefixOf
        <4> QED BY <2>1, <2>2, <2>3, <3>1, <4>1 DEF IsFirstCopy
      <3>2. CASE k \notin DOMAIN faces
        BY <1>1, <2>2, <3>2
      <3> QED BY <3>1, <3>2
    <2>4. ~IsRepeated(filled, f)
      BY <2>1, <2>2 DEF IsFirstCopy, IsRepeated
    <2>5. IsFirstCopy(filled, h, f)
      BY <2>1, <2>2, <2>3, <2>4 DEF IsFirstCopy
    <2> QED BY <2>1, <2>2, <2>5, ExtraCopy
  <1>3. SameDuplicates(faces) \in SUBSET SameDuplicates(filled)
    BY <1>2 DEF SameDuplicates, IsPrefixOf
  <1>4. ReversedDuplicates(faces) \in SUBSET ReversedDuplicates(filled)
    BY <1>2 DEF SameDuplicates, ReversedDuplicates, IsPrefixOf
  <1>5. IsFiniteSet(SameDuplicates(filled)) /\ IsFiniteSet(ReversedDuplicates(filled))
    BY ExtraCopiesAreFinite
  <1>6. SameDuplicates(filled) = SameDuplicates(faces)
    BY <1>3, <1>5, FS_Subset
  <1>7. ReversedDuplicates(filled) = ReversedDuplicates(faces)
    BY <1>4, <1>5, FS_Subset
  <1> QED BY <1>6, <1>7, ExtraCopiesAreFinite

LEMMA FilledIsClean ==
    ASSUME NEW p, NEW lines, NEW faces, IsList(faces), NEW filled, IsList(filled),
           IsPrefixOf(faces, filled), IsClean(p, lines, faces),
           NEW before, before = Report(faces, lines, BuildView(faces)),
           NEW after, after = Report(filled, lines, BuildView(filled)),
           after.same = before.same, after.reversed = before.reversed,
           after.repeated = before.repeated, after.zeroArea = before.zeroArea,
           after.conflicts = before.conflicts
    PROVE  IsClean(p, lines, filled)
  <1>1. IsFiniteSet(DOMAIN filled)
    BY Lists
  <1>2. IsFiniteSet(SelectRepeated(filled)) /\ IsFiniteSet(SelectZeroArea(filled, lines))
    <2>1. SelectRepeated(filled) \in SUBSET DOMAIN filled
          /\ SelectZeroArea(filled, lines) \in SUBSET DOMAIN filled
      BY DEF SelectRepeated, SelectZeroArea
    <2> QED BY <1>1, <2>1, FS_Subset
  <1>3. /\ Cardinality(SelectRepeated(filled)) = Cardinality(SelectRepeated(faces))
        /\ Cardinality(SelectZeroArea(filled, lines)) = Cardinality(SelectZeroArea(faces, lines))
        /\ Cardinality(SameDuplicates(filled)) = Cardinality(SameDuplicates(faces))
        /\ Cardinality(ReversedDuplicates(filled)) = Cardinality(ReversedDuplicates(faces))
    BY ReportCounts
  <1>4. ASSUME "duplicates" \in p.order PROVE NoCopies(filled)
    <2>1. ExtraCopies(filled) = ExtraCopies(faces)
      BY <1>3, NoExtraCopyAdded
    <2>2. NoCopies(faces)
      BY <1>4 DEF IsClean
    <2>3. ASSUME NEW f \in DOMAIN filled, NEW g \in DOMAIN filled, g < f,
                 ~IsRepeated(filled, f), ~IsRepeated(filled, g),
                 SameCyclicOrientation(filled[f], filled[g])
          PROVE  FALSE
      <3>1. Corners(filled[g]) = Corners(filled[f])
        BY <2>3, TurnsAreEquivalent
      <3>2. PICK h \in DOMAIN filled : IsFirstCopy(filled, h, f)
        BY <2>3, <3>1, FirstCopies
      <3>3. IsFirstCopy(faces, h, f)
        BY <2>1, <3>2, ExtraCopy
      <3>4. PICK n \in Nat, m \in Nat : DOMAIN faces = 1 .. n /\ DOMAIN filled = 1 .. m
        BY Lists
      <3>5. f \in DOMAIN faces /\ g \in DOMAIN faces
        BY <2>3, <3>3, <3>4 DEF IsFirstCopy
      <3>6. filled[f] = faces[f] /\ filled[g] = faces[g]
        BY <3>5 DEF IsPrefixOf
      <3> QED BY <2>2, <2>3, <3>5, <3>6 DEF NoCopies, IsRepeated
    <2> QED BY <2>3 DEF NoCopies
  <1>5. ASSUME "repeated" \in p.order PROVE SelectRepeated(filled) = {}
    <2>1. SelectRepeated(faces) = {}
      BY <1>5 DEF IsClean
    <2> QED BY <1>2, <1>3, <2>1, FS_EmptySet
  <1>6. ASSUME "zeroArea" \in p.order PROVE SelectZeroArea(filled, lines) = {}
    <2>1. SelectZeroArea(faces, lines) = {}
      BY <1>6 DEF IsClean
    <2> QED BY <1>2, <1>3, <2>1, FS_EmptySet
  <1>7. ASSUME "winding" \in p.order PROVE Orients(filled, {})
    <2>1. Orients(faces, {})
      BY <1>7 DEF IsClean
    <2> QED BY <2>1, OrientedByCount
  <1> QED BY <1>4, <1>5, <1>6, <1>7 DEF IsClean

LEMMA FillsAnswer ==
    ASSUME NEW base, IsList(base.faces), NEW a, IsAdmitted(a),
           IsClean(plan, collinear, base.faces), IsResult(result, collinear, plan)
    PROVE  IsResult(FillOutcome(base, a), collinear, plan)
  <1>1. PICK r : r = FillOutcome(base, a)
    OBVIOUS
  <1>2. PICK faces : faces = AppendPatches(base.faces, a)
    OBVIOUS
  <1>3. PICK before, after : /\ before = Report(base.faces, collinear, BuildView(base.faces))
                             /\ after = Report(faces, collinear, BuildView(faces))
    OBVIOUS
  <1>4. PICK regressions : regressions = JudgeFilled(before, after, a)
    OBVIOUS
  <1>5. r = IF regressions # {} THEN [result EXCEPT !.fill.regressions = regressions]
            ELSE [NoCandidate("accepted") EXCEPT
                    !.candidate = [faces |-> faces, split |-> base.split],
                    !.fill = [regressions |-> {}, base |-> base, closed |-> DOMAIN a]]
    BY <1>1, <1>2, <1>3, <1>4, Zenon DEF FillOutcome
  <1>6. CASE regressions # {}
    <2>1. r = [result EXCEPT !.fill.regressions = regressions]
      BY <1>5, <1>6
    <2>2. DOMAIN result = {"acceptance", "regressions", "candidate", "fill"}
      BY DEF IsResult
    <2>3. DOMAIN r = DOMAIN result /\ r.acceptance = result.acceptance
          /\ r.candidate = result.candidate
      BY <2>1, <2>2
    <2> QED BY <1>1, <2>3 DEF IsResult
  <1>7. CASE regressions = {}
    <2>1. DOMAIN r = {"acceptance", "regressions", "candidate", "fill"}
          /\ r.acceptance = "accepted" /\ r.candidate.faces = faces
          /\ DOMAIN r.candidate = {"faces", "split"}
      BY <1>5, <1>7 DEF NoCandidate
    <2>2. IsList(faces) /\ IsPrefixOf(base.faces, faces)
      BY <1>2, Appended DEF IsPrefixOf
    <2>3. /\ after.same = before.same /\ after.reversed = before.reversed
          /\ after.repeated = before.repeated /\ after.zeroArea = before.zeroArea
          /\ after.conflicts = before.conflicts
      BY <1>4, <1>7, FillAccepts
    <2>4. IsClean(plan, collinear, faces)
      BY <1>3, <2>2, <2>3, FilledIsClean
    <2> QED BY <1>1, <2>1, <2>2, <2>4 DEF IsResult, IsMesh
  <1> QED BY <1>6, <1>7
-----------------------------------------------------------------------------
(* The inductive invariant: what the report counts, what the plan selected  *)
(* and what the result answers are about this mesh.                         *)
RepairInv ==
    /\ IsMesh(mesh)
    /\ phase \in {"reading", "analysed", "planned", "executed", "filled"}
    /\ phase # "reading" =>
          report.reversed = Cardinality(ReversedDuplicates(mesh.faces))
    /\ phase \in {"planned", "executed", "filled"} => IsSelected(mesh, collinear, plan)
    /\ phase \in {"executed", "filled"} => IsResult(result, collinear, plan)

LEMMA RepairInvStarts ==
    Init => RepairInv
  <1> SUFFICES ASSUME Init PROVE RepairInv
    OBVIOUS
  <1>1. PICK file \in Files : mesh = [faces |-> file, split |-> 0]
    BY DEF Init
  <1>2. DOMAIN mesh = {"faces", "split"} /\ mesh.faces = file
    BY <1>1
  <1>3. IsList(file)
    BY FacesAssumption, Lists
  <1>4. phase = "reading"
    BY DEF Init
  <1> QED BY <1>2, <1>3, <1>4 DEF RepairInv, IsMesh

LEMMA OneMoreFace ==
    ASSUME NEW s, IsList(s), NEW e
    PROVE  IsList(Append(s, e))
  <1> DEFINE S == {s[i] : i \in DOMAIN s}
             T == S \cup {e}
  <1>1. s \in Seq(S)
    BY DEF IsList
  <1> HIDE DEF S
  <1>2. s \in Seq(T) /\ e \in T
    BY <1>1, SeqMonotonic
  <1> HIDE DEF T
  <1>3. Append(s, e) \in Seq(T)
    BY <1>2
  <1> QED BY <1>3, Lists

LEMMA RepairInvKept ==
    RepairInv /\ [Next]_vars => RepairInv'
  <1> SUFFICES ASSUME RepairInv, [Next]_vars PROVE RepairInv'
    OBVIOUS
  <1>0. /\ IsMesh(mesh)
        /\ phase \in {"reading", "analysed", "planned", "executed", "filled"}
        /\ phase # "reading" =>
              report.reversed = Cardinality(ReversedDuplicates(mesh.faces))
        /\ phase \in {"planned", "executed", "filled"} => IsSelected(mesh, collinear, plan)
        /\ phase \in {"executed", "filled"} => IsResult(result, collinear, plan)
    BY DEF RepairInv
  <1>1. ASSUME NEW face \in Shapes, AddFace(face) PROVE RepairInv'
    <2>1. phase' = "reading" /\ mesh' = [mesh EXCEPT !.faces = Append(@, face)]
      BY <1>1 DEF AddFace
    <2>2. DOMAIN mesh' = {"faces", "split"} /\ mesh'.faces = Append(mesh.faces, face)
      BY <1>0, <2>1 DEF IsMesh
    <2>3. IsMesh(mesh')
      BY <1>0, <2>2, OneMoreFace DEF IsMesh
    <2> QED BY <2>1, <2>3 DEF RepairInv
  <1>2. ASSUME NEW line \in SUBSET Used, NEW split \in Splits, Analyse(line, split)
        PROVE  RepairInv'
    <2>1. /\ phase' = "analysed" /\ mesh' = [mesh EXCEPT !.split = split]
          /\ report' = Report(mesh.faces, collinear', view')
      BY <1>2 DEF Analyse
    <2>2. DOMAIN mesh' = {"faces", "split"} /\ mesh'.faces = mesh.faces
      BY <1>0, <2>1 DEF IsMesh
    <2>3. report'.reversed = Cardinality(ReversedDuplicates(mesh'.faces))
      BY <2>1, <2>2, ReportCounts
    <2> QED BY <1>0, <2>1, <2>2, <2>3 DEF RepairInv, IsMesh
  <1>3. ASSUME NEW requested \in Requests, Plan(requested) PROVE RepairInv'
    <2>1. /\ phase = "analysed" /\ phase' = "planned"
          /\ plan' = PlanRepair(mesh, collinear, view, report, requested)
          /\ UNCHANGED <<mesh, collinear, view, report, result, repairs>>
      BY <1>3 DEF Plan
    <2>2. IsSelected(mesh, collinear, plan')
      BY <2>1, Planned
    <2> QED BY <1>0, <2>1, <2>2 DEF RepairInv
  <1>4. ASSUME Execute PROVE RepairInv'
    <2>1. /\ phase = "planned" /\ phase' = "executed"
          /\ result' = ExecuteRepair(mesh, collinear, view, report, plan)
          /\ UNCHANGED <<mesh, collinear, view, report, plan, repairs>>
      BY <1>4 DEF Execute
    <2>2. IsResult(result', collinear, plan)
      BY <1>0, <2>1, ExecutionsAnswer DEF IsMesh
    <2> QED BY <1>0, <2>1, <2>2 DEF RepairInv
  <1>5. ASSUME NEW base \in FillBases, NEW admitted \in Admissions(base.faces, collinear),
               Fill(base, admitted)
        PROVE  RepairInv'
    <2>1. /\ phase' = "filled" /\ result' = FillOutcome(base, admitted)
          /\ UNCHANGED <<mesh, collinear, view, report, plan, repairs>>
      BY <1>5 DEF Fill
    <2>2. /\ phase = "executed"
          /\ \/ result.acceptance = "accepted" /\ base = result.candidate
             \/ result.acceptance = "no-op" /\ base = mesh
      BY DEF FillBases
    <2>3. IsList(base.faces) /\ IsClean(plan, collinear, base.faces)
      BY <1>0, <2>2 DEF IsResult, IsMesh, IsClean
    <2>4. IsAdmitted(admitted)
      BY <2>3, AdmissionsAreFinite
    <2>5. IsResult(result', collinear, plan)
      BY <1>0, <2>1, <2>2, <2>3, <2>4, FillsAnswer
    <2> QED BY <1>0, <2>1, <2>2, <2>5 DEF RepairInv
  <1>6. ASSUME Commit PROVE RepairInv'
    <2>1. /\ phase \in {"executed", "filled"} /\ result.acceptance = "accepted"
          /\ phase' = "analysed" /\ mesh' = result.candidate
          /\ report' = Report(mesh'.faces, collinear, view')
      BY <1>6 DEF Commit
    <2>2. IsMesh(mesh')
      BY <1>0, <2>1 DEF IsResult
    <2>3. report'.reversed = Cardinality(ReversedDuplicates(mesh'.faces))
      BY <2>1, ReportCounts
    <2> QED BY <2>1, <2>2, <2>3 DEF RepairInv
  <1>7. ASSUME UNCHANGED vars PROVE RepairInv'
    BY <1>0, <1>7 DEF RepairInv, vars
  <1> QED BY <1>1, <1>2, <1>3, <1>4, <1>5, <1>6, <1>7 DEF Next

THEOREM RepairInvariant ==
    Spec => []RepairInv
  BY RepairInvStarts, RepairInvKept, PTL DEF Spec

(* An accepted candidate has no defect left that the plan said it would     *)
(* remove: no copy of a face, no face without three corners or without      *)
(* area, and no two neighbours that run along their edge the same way.      *)
(* Stages are selected on the source, flips are solved on what the safe     *)
(* removals leave, the verdict only compares numbers, and the fill is       *)
(* judged by numbers again: on every mesh that is enough.                   *)
THEOREM AcceptedRepairsAreClean ==
    Spec => []AcceptedIsRepaired
  <1>1. RepairInv => AcceptedIsRepaired
    <2> SUFFICES ASSUME RepairInv, Accepted PROVE AcceptedIsRepaired
      BY DEF AcceptedIsRepaired
    <2>1. IsClean(plan, collinear, result.candidate.faces)
      BY DEF RepairInv, IsResult, Accepted
    <2> QED BY <2>1, NoneSelected DEF AcceptedIsRepaired, IsClean
  <1> QED BY <1>1, RepairInvariant, PTL
=============================================================================
