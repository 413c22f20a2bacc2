---------------------------- MODULE Queues_proofs ----------------------------
(***************************************************************************)
(* What Pick returns, for the proofs about the modules that use it.        *)
(***************************************************************************)
EXTENDS Queues, FiniteSetTheorems, TLAPS

\* A set of natural numbers that is not empty has a smallest one.  What holds of every
\* number is proved from it, by the smallest number it would not hold of.
LEMMA Smallest ==
  ASSUME NEW S \in SUBSET Nat, S # {}
  PROVE  \E n \in S : \A m \in S : n <= m
<1> DEFINE R == OpToRel(<, Nat)
<1>1. IsWellFoundedOn(R, Nat)
  BY NatLessThanWellFounded, Zenon
<1> HIDE DEF R
<1>2. PICK n \in S : \A m \in S : ~ (<<m, n>> \in R)
  BY <1>1, WFMin
<1>3. ASSUME NEW m \in S
      PROVE  n <= m
  <2>1. m \in Nat /\ n \in Nat /\ ~ (<<m, n>> \in R)
    BY <1>2
  <2>2. ~ (m < n)
    BY <2>1 DEF R, OpToRel
  <2> QED
    BY <2>1, <2>2
<1> QED
  BY <1>3

\* Each place of a queue's index set has a rank, different from those of the others.
LEMMA RankInjection ==
  ASSUME NEW n \in Nat, NEW I \in SUBSET (1 .. n)
  PROVE  /\ IsFiniteSet(I) /\ Cardinality(I) \in 0 .. n
         /\ [i \in I |-> Rank(I, i)] \in Injection(I, 1 .. Cardinality(I))
<1>1. IsFiniteSet(1 .. n) /\ Cardinality(1 .. n) = n
  BY FS_Interval
<1>2. IsFiniteSet(I) /\ Cardinality(I) \in 0 .. n
  <2>1. IsFiniteSet(I) /\ Cardinality(I) <= n
    BY <1>1, FS_Subset
  <2>2. Cardinality(I) \in Nat
    BY <2>1, FS_CardinalityType
  <2> QED
    BY <2>1, <2>2
<1>3. ASSUME NEW i \in I
      PROVE  /\ IsFiniteSet({k \in I : k <= i})
             /\ Rank(I, i) \in 1 .. Cardinality(I)
  <2> DEFINE Upto == {k \in I : k <= i}
  <2>1. IsFiniteSet(Upto) /\ Cardinality(Upto) <= Cardinality(I)
    BY <1>2, FS_Subset
  <2>2. Cardinality(Upto) \in Nat
    BY <2>1, FS_CardinalityType
  <2>3. i \in Upto
    OBVIOUS
  <2>4. Cardinality(Upto) # 0
    BY <2>1, <2>3, FS_EmptySet
  <2> QED
    BY <1>2, <2>1, <2>2, <2>4 DEF Rank
<1>4. ASSUME NEW i \in I, NEW j \in I, i < j
      PROVE  Rank(I, i) # Rank(I, j)
  <2> DEFINE UptoI == {k \in I : k <= i}
             UptoJ == {k \in I : k <= j}
  <2>1. UptoI \in SUBSET UptoJ
    <3>1. i \in Int /\ j \in Int /\ \A k \in I : k \in Int
      OBVIOUS
    <3>2. \A k \in I : k <= i => k <= j
      BY <3>1, <1>4
    <3> QED
      BY <3>2
  <2>2. j \in UptoJ /\ j \notin UptoI
    BY <1>4
  <2>3. IsFiniteSet(UptoJ)
    BY <1>3
  <2> QED
    BY <2>1, <2>2, <2>3, FS_Subset DEF Rank
<1>5. ASSUME NEW i \in I, NEW j \in I, Rank(I, i) = Rank(I, j)
      PROVE  i = j
  <2>1. i < j \/ j < i \/ i = j
    OBVIOUS
  <2> QED
    BY <2>1, <1>4, <1>5
<1> QED
  BY <1>2, <1>3, <1>5 DEF Injection, IsInjective

\* Every rank up to the number of places is that of a place.
LEMMA RankOnto ==
  ASSUME NEW n \in Nat, NEW I \in SUBSET (1 .. n), NEW j \in 1 .. Cardinality(I)
  PROVE  \E i \in I : Rank(I, i) = j
<1> DEFINE f == [i \in I |-> Rank(I, i)]
           T == 1 .. Cardinality(I)
<1>1. IsFiniteSet(I) /\ Cardinality(I) \in Nat /\ f \in Injection(I, T)
  BY RankInjection
<1>2. IsFiniteSet(T) /\ Cardinality(T) = Cardinality(I)
  BY <1>1, FS_Interval
<1>3. f \in Surjection(I, T)
  BY <1>1, <1>2, FS_Injection
<1> QED
  BY <1>3 DEF Surjection

\* Pick returns a sequence no longer than the queue, and only entries of the queue
\* at the places it was given.
LEMMA PickType ==
  ASSUME NEW S, NEW q \in Seq(S), NEW I \in SUBSET (DOMAIN q)
  PROVE  /\ Pick(q, I) \in Seq(S)
         /\ Len(Pick(q, I)) = Cardinality(I)
         /\ Cardinality(I) \in 0 .. Len(q)
         /\ \A j \in 1 .. Cardinality(I) : \E i \in I : Pick(q, I)[j] = q[i]
<1>1. Len(q) \in Nat /\ I \in SUBSET (1 .. Len(q))
  OBVIOUS
<1>2. Cardinality(I) \in 0 .. Len(q)
  BY <1>1, RankInjection
<1>3. ASSUME NEW j \in 1 .. Cardinality(I)
      PROVE  \E i \in I : Pick(q, I)[j] = q[i]
  <2>1. \E i \in I : Rank(I, i) = j
    BY <1>1, RankOnto
  <2>2. (CHOOSE i \in I : Rank(I, i) = j) \in I
    BY <2>1
  <2>3. Pick(q, I)[j] = q[CHOOSE i \in I : Rank(I, i) = j]
    BY DEF Pick
  <2> QED
    BY <2>2, <2>3
<1>4. ASSUME NEW j \in 1 .. Cardinality(I)
      PROVE  Pick(q, I)[j] \in S
  BY <1>1, <1>3
<1>5. Pick(q, I) \in [1 .. Cardinality(I) -> S]
  BY <1>4 DEF Pick
<1>6. Pick(q, I) \in Seq(S) /\ Len(Pick(q, I)) = Cardinality(I)
  BY <1>2, <1>5
<1> QED
  BY <1>2, <1>3, <1>6

\* A later place of a queue's index set has a higher rank.
LEMMA RankGrows ==
  ASSUME NEW n \in Nat, NEW I \in SUBSET (1 .. n), NEW i \in I, NEW j \in I,
         Rank(I, i) < Rank(I, j)
  PROVE  i < j
<1> SUFFICES ASSUME ~ i < j PROVE FALSE
  OBVIOUS
<1> DEFINE UptoI == {k \in I : k <= i}
           UptoJ == {k \in I : k <= j}
<1>1. i \in Int /\ j \in Int /\ \A k \in I : k \in Int
  OBVIOUS
<1>2. UptoJ \in SUBSET UptoI
  <2>1. \A k \in I : k <= j => k <= i
    BY <1>1
  <2> QED
    BY <2>1
<1>3. IsFiniteSet(I)
  BY RankInjection
<1>4. IsFiniteSet(UptoI) /\ UptoI \in SUBSET I
  BY <1>3, FS_Subset
<1>5. Cardinality(UptoJ) <= Cardinality(UptoI) /\ IsFiniteSet(UptoJ)
  BY <1>2, <1>4, FS_Subset
<1>6. Cardinality(UptoJ) \in Nat /\ Cardinality(UptoI) \in Nat
  BY <1>4, <1>5, FS_CardinalityType
<1> QED
  BY <1>5, <1>6 DEF Rank

\* Pick returns every entry at the places it was given, each once and in the order
\* of the queue: g is the place each of them had.
LEMMA PickOrder ==
  ASSUME NEW S, NEW q \in Seq(S), NEW I \in SUBSET (DOMAIN q)
  PROVE  \E g \in [1 .. Cardinality(I) -> I] :
           /\ \A j \in 1 .. Cardinality(I) : Pick(q, I)[j] = q[g[j]]
           /\ \A i \in I : \E j \in 1 .. Cardinality(I) : g[j] = i
           /\ \A j, k \in 1 .. Cardinality(I) : j < k => g[j] < g[k]
<1> DEFINE g == [j \in 1 .. Cardinality(I) |-> CHOOSE i \in I : Rank(I, i) = j]
<1>1. Len(q) \in Nat /\ I \in SUBSET (1 .. Len(q))
  OBVIOUS
<1>2. ASSUME NEW j \in 1 .. Cardinality(I)
      PROVE  g[j] \in I /\ Rank(I, g[j]) = j
  <2>1. \E i \in I : Rank(I, i) = j
    BY <1>1, RankOnto
  <2> QED
    BY <2>1
<1>3. \A j \in 1 .. Cardinality(I) : Pick(q, I)[j] = q[g[j]]
  BY DEF Pick
<1>4. ASSUME NEW i \in I
      PROVE  \E j \in 1 .. Cardinality(I) : g[j] = i
  <2> DEFINE f == [k \in I |-> Rank(I, k)]
  <2>1. f \in Injection(I, 1 .. Cardinality(I))
    BY <1>1, RankInjection
  <2>2. Rank(I, i) \in 1 .. Cardinality(I) /\ \A k \in I : Rank(I, k) = Rank(I, i) => k = i
    BY <2>1 DEF Injection, IsInjective
  <2>3. g[Rank(I, i)] \in I /\ Rank(I, g[Rank(I, i)]) = Rank(I, i)
    BY <1>2, <2>2
  <2> QED
    BY <2>2, <2>3
<1>5. ASSUME NEW j \in 1 .. Cardinality(I), NEW k \in 1 .. Cardinality(I), j < k
      PROVE  g[j] < g[k]
  <2>1. g[j] \in I /\ g[k] \in I /\ Rank(I, g[j]) < Rank(I, g[k])
    BY <1>2, <1>5
  <2> HIDE DEF g
  <2> QED
    BY <1>1, <2>1, RankGrows
<1>6. g \in [1 .. Cardinality(I) -> I]
  BY <1>2
<1> HIDE DEF g
<1> QED
  BY <1>3, <1>4, <1>5, <1>6

===============================================================================
