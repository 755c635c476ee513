-------------------------- MODULE SelectionsProofs --------------------------
(* Lemmas about Selections: the n-th smallest number exists, no number is    *)
(* missed, and Only keeps exactly the members that it is asked to keep.      *)
EXTENDS Selections, Functions, FiniteSetTheorems, SequenceTheorems, WellFoundedInduction, TLAPS

-----------------------------------------------------------------------------
(* Every set of natural numbers has a least one.                           *)

Less == {p \in Nat \X Nat : p[1] < p[2]}

LEMMA LessIsWellFounded == IsWellFoundedOn(Less, Nat)
<1>1. Less = OpToRel(<, Nat)
  BY Zenon DEF Less, OpToRel
<1>2. QED
  BY <1>1, NatLessThanWellFounded, Zenon

LEMMA LeastExists ==
  ASSUME NEW T, T \subseteq Nat, T # {}
  PROVE  \E m \in T : \A j \in T : m <= j
<1>1. PICK m \in T : \A j \in T : <<j, m>> \notin Less
  BY LessIsWellFounded, WFMin, Zenon
<1>2. ASSUME NEW j \in T PROVE m <= j
  <2>1. j \in Nat /\ m \in Nat
    OBVIOUS
  <2>2. ASSUME j < m PROVE FALSE
    <3>1. <<j, m>> \in Nat \X Nat /\ <<j, m>>[1] < <<j, m>>[2]
      BY <2>1, <2>2
    <3>2. <<j, m>> \in Less
      BY <3>1, Zenon DEF Less
    <3>3. QED
      BY <3>2, <1>1
  <2>3. QED
    BY <2>1, <2>2
<1>3. QED
  BY <1>2

-----------------------------------------------------------------------------
(* Ranks: how many numbers of a set are smaller.                           *)

Below(T, i) == {j \in T : j < i}

LEMMA BelowIsFinite ==
  ASSUME NEW b \in Nat, NEW T, T \subseteq 0..b, NEW i \in Nat
  PROVE  /\ IsFiniteSet(T) /\ Cardinality(T) \in Nat
         /\ IsFiniteSet(Below(T, i)) /\ Cardinality(Below(T, i)) \in Nat
         /\ Cardinality(Below(T, i)) <= Cardinality(T)
<1>1. IsFiniteSet(T) /\ Cardinality(T) \in Nat
  <2>1. IsFiniteSet(0..b)
    BY FS_Interval
  <2>2. T \in SUBSET (0..b)
    OBVIOUS
  <2>3. QED
    BY <2>1, <2>2, FS_Subset, FS_CardinalityType
<1>2. Below(T, i) \in SUBSET T
  BY DEF Below
<1>3. QED
  BY <1>1, <1>2, FS_Subset, FS_CardinalityType

\* One number more below i + 1 than below i exactly when i is in the set.
LEMMA BelowNext ==
  ASSUME NEW b \in Nat, NEW T, T \subseteq 0..b, NEW i \in Nat
  PROVE  Cardinality(Below(T, i + 1)) =
           IF i \in T THEN Cardinality(Below(T, i)) + 1 ELSE Cardinality(Below(T, i))
<1> \A j \in T : j \in Int /\ (j < i + 1 <=> j < i \/ j = i)
  OBVIOUS
<1>1. CASE i \in T
  <2>1. Below(T, i + 1) = Below(T, i) \cup {i}
    BY <1>1 DEF Below
  <2>2. i \notin Below(T, i)
    BY DEF Below
  <2>3. QED
    BY <1>1, <2>1, <2>2, BelowIsFinite, FS_AddElement
<1>2. CASE i \notin T
  <2>1. Below(T, i + 1) = Below(T, i)
    BY <1>2 DEF Below
  <2>2. QED
    BY <1>2, <2>1
<1>3. QED
  BY <1>1, <1>2

LEMMA BelowGrows ==
  ASSUME NEW b \in Nat, NEW T, T \subseteq 0..b, NEW i \in T, NEW j \in T, i < j
  PROVE  Cardinality(Below(T, i)) < Cardinality(Below(T, j))
<1>1. i \in Nat /\ j \in Nat /\ i + 1 \in Nat
  OBVIOUS
<1>2. Cardinality(Below(T, i + 1)) = Cardinality(Below(T, i)) + 1
  BY <1>1, BelowNext
<1>3. Below(T, i + 1) \in SUBSET Below(T, j)
  <2>1. \A k \in T : k < i + 1 => k < j
    BY <1>1
  <2>2. QED
    BY <2>1 DEF Below
<1>4. Cardinality(Below(T, i + 1)) <= Cardinality(Below(T, j))
  BY <1>1, <1>3, BelowIsFinite, FS_Subset
<1>5. Cardinality(Below(T, i)) \in Nat /\ Cardinality(Below(T, j)) \in Nat
  BY <1>1, BelowIsFinite
<1>6. QED
  BY <1>2, <1>4, <1>5

-----------------------------------------------------------------------------
\* There is an n-th smallest number for every n up to the size of the set.
LEMMA NthLeastIsThere ==
  ASSUME NEW b \in Nat, NEW T, T \subseteq 0..b, NEW n \in 1..Cardinality(T)
  PROVE  /\ NthLeast(T, n) \in T
         /\ Cardinality(Below(T, NthLeast(T, n))) = n - 1
<1> DEFINE Enough == {m \in Nat : n <= Cardinality(Below(T, m))}
<1>1. Cardinality(T) \in Nat
  BY BelowIsFinite, 0 \in Nat
<1>2. Enough # {}
  <2>1. Below(T, b + 1) = T
    <3>1. \A j \in T : j < b + 1
      OBVIOUS
    <3>2. QED
      BY <3>1 DEF Below
  <2>2. b + 1 \in Enough
    BY <1>1, <2>1
  <2>3. QED
    BY <2>2
<1>3. PICK m \in Enough : \A j \in Enough : m <= j
  <2>1. Enough \subseteq Nat
    OBVIOUS
  <2>2. QED
    BY <1>2, <2>1, LeastExists
<1>4. m # 0
  <2>1. Below(T, 0) = {}
    <3>1. \A j \in T : ~(j < 0)
      OBVIOUS
    <3>2. QED
      BY <3>1 DEF Below
  <2>2. Cardinality(Below(T, 0)) = 0
    BY <2>1, FS_EmptySet
  <2>3. QED
    BY <1>1, <2>2
<1>5. m - 1 \in Nat /\ (m - 1) + 1 = m
  BY <1>4
<1>6. Cardinality(Below(T, m - 1)) \in Nat /\ Cardinality(Below(T, m)) \in Nat
  BY <1>5, BelowIsFinite
<1>7. Cardinality(Below(T, m - 1)) < n
  <2>1. m - 1 \notin Enough
    BY <1>3, <1>5
  <2>2. QED
    BY <1>1, <1>5, <1>6, <2>1
<1>8. Cardinality(Below(T, m)) =
        IF m - 1 \in T THEN Cardinality(Below(T, m - 1)) + 1 ELSE Cardinality(Below(T, m - 1))
  <2>1. Cardinality(Below(T, (m - 1) + 1)) =
          IF m - 1 \in T THEN Cardinality(Below(T, m - 1)) + 1 ELSE Cardinality(Below(T, m - 1))
    BY <1>5, BelowNext
  <2>2. QED
    BY <1>5, <2>1
<1>9. n <= Cardinality(Below(T, m))
  BY <1>3
<1>10. m - 1 \in T /\ Cardinality(Below(T, m - 1)) = n - 1
  BY <1>1, <1>6, <1>7, <1>8, <1>9
<1>11. \E i \in T : Cardinality({j \in T : j < i}) = n - 1
  BY <1>10 DEF Below
<1>12. QED
  BY <1>11 DEF NthLeast, Below

\* Every number of the set is the n-th smallest for some n, and for one only.
LEMMA NthLeastFindsAll ==
  ASSUME NEW b \in Nat, NEW T, T \subseteq 0..b, NEW i \in T
  PROVE  \E n \in 1..Cardinality(T) : NthLeast(T, n) = i
<1> DEFINE n == Cardinality(Below(T, i)) + 1
<1>1. i \in Nat /\ i + 1 \in Nat
  OBVIOUS
<1>2. Cardinality(Below(T, i)) \in Nat /\ Cardinality(T) \in Nat
  BY <1>1, BelowIsFinite
<1>3. Cardinality(Below(T, i + 1)) = n
  BY <1>1, BelowNext
<1>4. Cardinality(Below(T, i + 1)) <= Cardinality(T)
  BY <1>1, BelowIsFinite
<1>5. n \in 1..Cardinality(T)
  BY <1>2, <1>3, <1>4
<1> DEFINE f == NthLeast(T, n)
<1>6. f \in T /\ Cardinality(Below(T, f)) = n - 1
  BY <1>5, NthLeastIsThere
<1>7. Cardinality(Below(T, f)) = Cardinality(Below(T, i))
  BY <1>2, <1>6
<1> HIDE DEF f
<1>8. f \in Nat /\ i \in Nat
  BY <1>6
<1>9. ~(f < i) /\ ~(i < f)
  <2>1. ASSUME f < i PROVE FALSE
    <3>1. Cardinality(Below(T, f)) < Cardinality(Below(T, i))
      BY <1>6, <2>1, BelowGrows
    <3>2. QED
      BY <1>2, <1>7, <3>1
  <2>2. ASSUME i < f PROVE FALSE
    <3>1. Cardinality(Below(T, i)) < Cardinality(Below(T, f))
      BY <1>6, <2>2, BelowGrows
    <3>2. QED
      BY <1>2, <1>7, <3>1
  <2>3. QED
    BY <2>1, <2>2
<1>10. f = i
  BY <1>8, <1>9
<1>11. QED
  BY <1>5, <1>10 DEF f

\* Two different ranks belong to two different numbers.
LEMMA NthLeastDiffer ==
  ASSUME NEW b \in Nat, NEW T, T \subseteq 0..b,
         NEW m \in 1..Cardinality(T), NEW n \in 1..Cardinality(T), m # n
  PROVE  NthLeast(T, m) # NthLeast(T, n)
<1>1. Cardinality(T) \in Nat
  BY BelowIsFinite, 0 \in Nat
<1>2. Cardinality(Below(T, NthLeast(T, m))) = m - 1 /\ Cardinality(Below(T, NthLeast(T, n))) = n - 1
  BY NthLeastIsThere
<1>3. m - 1 # n - 1
  BY <1>1
<1>4. QED
  BY <1>2, <1>3

-----------------------------------------------------------------------------
\* Only keeps a sequence's members in S, and nothing else.
LEMMA OnlyKeeps ==
  ASSUME NEW A, NEW s \in Seq(A), NEW S
  PROVE  /\ Only(s, S) \in Seq(A)
         /\ Range(Only(s, S)) = Range(s) \cap S
<1> DEFINE kept == {i \in DOMAIN s : s[i] \in S}
           N == Cardinality(kept)
<1>1. Len(s) \in Nat /\ kept \subseteq 0..Len(s) /\ DOMAIN s = 1..Len(s)
  OBVIOUS
<1>2. N \in Nat
  BY <1>1, BelowIsFinite, 0 \in Nat
<1>3. Only(s, S) = [n \in 1..N |-> s[NthLeast(kept, n)]]
  BY DEF Only
<1> HIDE DEF N
<1>4. ASSUME NEW n \in 1..N PROVE NthLeast(kept, n) \in kept
  <2> HIDE DEF kept
  <2>1. n \in 1..Cardinality(kept)
    BY DEF N
  <2>2. QED
    BY <1>1, <2>1, NthLeastIsThere
<1>5. \A n \in 1..N : s[NthLeast(kept, n)] \in A \cap S
  <2>1. \A i \in kept : s[i] \in A \cap S
    BY <1>1
  <2>2. QED
    BY <1>4, <2>1
<1>6. Only(s, S) \in Seq(A)
  BY <1>2, <1>3, <1>5
<1>7. DOMAIN Only(s, S) = 1..N
  BY <1>3
<1>8. Range(Only(s, S)) \subseteq Range(s) \cap S
  <2>1. ASSUME NEW n \in 1..N PROVE Only(s, S)[n] \in Range(s) \cap S
    <3>1. Only(s, S)[n] = s[NthLeast(kept, n)]
      BY <1>3
    <3>2. NthLeast(kept, n) \in DOMAIN s
      BY <1>4
    <3>3. QED
      BY <1>5, <3>1, <3>2 DEF Range
  <2>2. QED
    BY <1>7, <2>1 DEF Range
<1>9. Range(s) \cap S \subseteq Range(Only(s, S))
  <2>1. ASSUME NEW i \in kept PROVE s[i] \in Range(Only(s, S))
    <3> HIDE DEF kept
    <3>1. PICK n \in 1..N : NthLeast(kept, n) = i
      BY <1>1, NthLeastFindsAll DEF N
    <3>2. Only(s, S)[n] = s[i]
      BY <1>3, <3>1
    <3>3. QED
      BY <1>7, <3>2 DEF Range
  <2>2. ASSUME NEW x \in Range(s) \cap S PROVE \E i \in kept : s[i] = x
    BY DEF Range
  <2>3. QED
    BY <2>1, <2>2
<1>10. QED
  BY <1>6, <1>8, <1>9

\* A concatenation holds what its parts hold.
LEMMA ConcatParts ==
  ASSUME NEW A, NEW s \in Seq(A), NEW t \in Seq(A)
  PROVE  s \o t \in Seq(A) /\ Range(s \o t) = Range(s) \cup Range(t)
BY ConcatProperties, RangeConcatenation

LEMMA AppendParts ==
  ASSUME NEW A, NEW s \in Seq(A), NEW x \in A
  PROVE  Append(s, x) \in Seq(A) /\ Range(Append(s, x)) = Range(s) \cup {x}
<1>1. <<x>> \in Seq(A) /\ Range(<<x>>) = {x}
  BY DEF Range
<1>2. s \o <<x>> \in Seq(A) /\ Range(s \o <<x>>) = Range(s) \cup Range(<<x>>)
  BY <1>1, ConcatParts, ZenonT(60)
<1>3. Append(s, x) = s \o <<x>>
  BY AppendIsConcat
<1>4. QED
  BY <1>1, <1>2, <1>3

\* InOrder is made of the numbers of the set.
LEMMA InOrderIs ==
  ASSUME NEW b \in Nat, NEW T, T \subseteq 0..b
  PROVE  /\ Len(InOrder(T)) = Cardinality(T) /\ DOMAIN InOrder(T) = 1..Cardinality(T)
         /\ \A n \in DOMAIN InOrder(T) : InOrder(T)[n] \in T
<1>1. Cardinality(T) \in Nat
  BY BelowIsFinite, 0 \in Nat
<1>2. \A n \in 1..Cardinality(T) : NthLeast(T, n) \in T
  BY NthLeastIsThere
<1>3. QED
  BY <1>1, <1>2 DEF InOrder
=============================================================================
