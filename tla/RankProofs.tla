-------------------------------- MODULE RankProofs --------------------------------
(***************************************************************************)
(* Facts about Ranks, for every finite set of natural numbers: ranks       *)
(* number its elements from the greatest, one element for each number.     *)
(***************************************************************************)
EXTENDS Ranks, FiniteSetTheorems, TLAPS

LEMMA RankRange ==
  ASSUME NEW S \in SUBSET Nat, IsFiniteSet(S), NEW n \in S
  PROVE  Rank(n, S) \in 1 .. Cardinality(S)
<1> DEFINE T == {m \in S : m >= n}
<1>1. T \in SUBSET S /\ n \in T
  OBVIOUS
<1>2. IsFiniteSet(T) /\ Cardinality(T) <= Cardinality(S)
  BY <1>1, FS_Subset
<1>3. Cardinality(T) # 0
  BY <1>1, <1>2, FS_EmptySet
<1>4. Cardinality(T) \in Nat /\ Cardinality(S) \in Nat
  BY <1>2, FS_CardinalityType
<1> HIDE DEF T
<1>5. Cardinality(T) \in 1 .. Cardinality(S)
  BY <1>2, <1>3, <1>4
<1> QED BY <1>5 DEF Rank, T

LEMMA RankFalls ==
  ASSUME NEW S \in SUBSET Nat, IsFiniteSet(S), NEW m \in S, NEW n \in S, m < n
  PROVE  Rank(n, S) < Rank(m, S)
<1> DEFINE T == {k \in S : k >= n}
           U == {k \in S : k >= m}
<1>6. m \in U /\ m \notin T
  OBVIOUS
<1>7. \A k \in S : k >= n => k >= m
  OBVIOUS
<1>8. T \subseteq U /\ U \subseteq S
  BY <1>7
<1>1. T \in SUBSET U /\ T # U /\ U \in SUBSET S
  <2> HIDE DEF T, U
  <2> QED BY <1>6, <1>8
<1>2. IsFiniteSet(U)
  BY <1>1, FS_Subset
<1>3. IsFiniteSet(T) /\ Cardinality(T) <= Cardinality(U) /\ Cardinality(T) # Cardinality(U)
  BY <1>1, <1>2, FS_Subset
<1>4. Cardinality(T) \in Nat /\ Cardinality(U) \in Nat
  BY <1>2, <1>3, FS_CardinalityType
<1> HIDE DEF T, U
<1>5. Cardinality(T) < Cardinality(U)
  BY <1>3, <1>4
<1> QED BY <1>5 DEF Rank, T, U

\* Every number up to the size of the set is the rank of one stamp.
LEMMA RankOnto ==
  ASSUME NEW S \in SUBSET Nat, IsFiniteSet(S)
  PROVE  \A i \in 1 .. Cardinality(S) : \E n \in S : Rank(n, S) = i
<1> DEFINE K == 1 .. Cardinality(S)
           f == [n \in S |-> Rank(n, S)]
<1>1. Cardinality(S) \in Nat
  BY FS_CardinalityType
<1>2. IsFiniteSet(K) /\ Cardinality(K) = Cardinality(S)
  <2>1. /\ IsFiniteSet(1 .. Cardinality(S))
        /\ Cardinality(1 .. Cardinality(S)) =
             IF 1 > Cardinality(S) THEN 0 ELSE Cardinality(S) - 1 + 1
    BY <1>1, FS_Interval
  <2> QED BY <1>1, <2>1
<1>3. f \in [S -> K]
  BY RankRange
<1>4. \A m, n \in S : f[m] = f[n] => m = n
  <2> SUFFICES ASSUME NEW m \in S, NEW n \in S, m # n PROVE Rank(m, S) # Rank(n, S)
    OBVIOUS
  <2>1. m \in Nat /\ n \in Nat /\ (m < n \/ n < m)
    OBVIOUS
  <2>2. Rank(m, S) \in Nat /\ Rank(n, S) \in Nat
    BY RankRange, <1>1
  <2>3. Rank(n, S) < Rank(m, S) \/ Rank(m, S) < Rank(n, S)
    BY <2>1, RankFalls
  <2> QED BY <2>2, <2>3
<1> HIDE DEF f, K
<1>5. f \in Injection(S, K)
  BY <1>3, <1>4 DEF Injection, IsInjective
<1>6. f \in Surjection(S, K)
  BY <1>2, <1>5, FS_Injection
<1>7. \A i \in K : \E n \in S : f[n] = i
  BY <1>6 DEF Surjection
<1> QED BY <1>7 DEF f, K

\* The descending sequence has every element of the set once, greatest first.
LEMMA DescendingFacts ==
  ASSUME NEW S \in SUBSET Nat, IsFiniteSet(S)
  PROVE  /\ Descending(S) \in Seq(S) /\ Len(Descending(S)) = Cardinality(S)
         /\ \A i \in 1 .. Cardinality(S) : Rank(Descending(S)[i], S) = i
         /\ \A i, j \in 1 .. Cardinality(S) : i < j => Descending(S)[j] < Descending(S)[i]
         /\ \A n \in S : /\ Rank(n, S) \in 1 .. Cardinality(S)
                        /\ Descending(S)[Rank(n, S)] = n
<1> DEFINE k == Cardinality(S)
           d == Descending(S)
<1>1. k \in Nat
  BY FS_CardinalityType
<1>2. \A i \in 1 .. k : d[i] \in S /\ Rank(d[i], S) = i
  <2> SUFFICES ASSUME NEW i \in 1 .. k PROVE d[i] \in S /\ Rank(d[i], S) = i
    OBVIOUS
  <2>1. d[i] = CHOOSE n \in S : Rank(n, S) = i
    BY DEF Descending
  <2>2. \E n \in S : Rank(n, S) = i
    BY RankOnto
  <2> QED BY <2>1, <2>2
<1>3. d \in [1 .. k -> S]
  BY <1>2 DEF Descending
<1> HIDE DEF k, d
<1>4. d \in Seq(S) /\ Len(d) = k
  BY <1>1, <1>3
<1>5. \A m, n \in S : m < n => Rank(n, S) < Rank(m, S)
  BY RankFalls
<1>6. \A i, j \in 1 .. k : i < j => d[j] < d[i]
  <2> SUFFICES ASSUME NEW i \in 1 .. k, NEW j \in 1 .. k, i < j, ~(d[j] < d[i])
               PROVE  FALSE
    OBVIOUS
  <2>1. d[i] \in S /\ d[j] \in S /\ d[i] \in Nat /\ d[j] \in Nat
    BY <1>2
  <2>2. d[i] = d[j] \/ d[i] < d[j]
    BY <2>1
  <2>3. d[i] < d[j] => j < i
    BY <1>2, <1>5, <2>1
  <2> QED BY <1>2, <2>2, <2>3
<1>7. ASSUME NEW n \in S PROVE Rank(n, S) \in 1 .. k /\ d[Rank(n, S)] = n
  <2>1. Rank(n, S) \in 1 .. k
    BY RankRange DEF k
  <2>2. d[Rank(n, S)] \in S /\ Rank(d[Rank(n, S)], S) = Rank(n, S)
    BY <1>2, <2>1
  <2>3. ASSUME NEW m \in S, m # n, Rank(m, S) = Rank(n, S) PROVE FALSE
    <3>1. m \in Nat /\ n \in Nat /\ (m < n \/ n < m)
      BY <2>3
    <3>2. Rank(m, S) < Rank(n, S) \/ Rank(n, S) < Rank(m, S)
      BY <1>5, <3>1
    <3> QED BY <1>1, <2>1, <2>3, <3>2
  <2> QED BY <2>1, <2>2, <2>3
<1> QED BY <1>2, <1>4, <1>6, <1>7 DEF k, d

LEMMA AscendingFacts ==
  ASSUME NEW S \in SUBSET Nat, IsFiniteSet(S)
  PROVE  /\ Ascending(S) \in Seq(S) /\ Len(Ascending(S)) = Cardinality(S)
         /\ \A n \in S : \E i \in 1 .. Cardinality(S) : Ascending(S)[i] = n
<1> DEFINE k == Cardinality(S)
           a == Ascending(S)
<1>1. k \in Nat
  BY FS_CardinalityType
<1>2. \A i \in 1 .. k : a[i] = Descending(S)[k + 1 - i] /\ k + 1 - i \in 1 .. k
  BY <1>1 DEF Ascending
<1>3. /\ Descending(S) \in Seq(S) /\ Len(Descending(S)) = k
      /\ \A n \in S : Rank(n, S) \in 1 .. k /\ Descending(S)[Rank(n, S)] = n
  BY DescendingFacts
<1>4. DOMAIN a = 1 .. k
  BY DEF Ascending
<1> HIDE DEF k, a
<1>5. \A i \in 1 .. k : Descending(S)[i] \in S
  BY <1>1, <1>3
<1>6. a \in [1 .. k -> S]
  <2>1. \A i \in 1 .. k : a[i] \in S
    BY <1>2, <1>5
  <2>2. a = [i \in 1 .. k |-> Descending(S)[k + 1 - i]]
    BY DEF a, k, Ascending
  <2> QED BY <2>1, <2>2
<1>7. a \in Seq(S) /\ Len(a) = k
  BY <1>1, <1>6
<1>8. ASSUME NEW n \in S PROVE \E i \in 1 .. k : a[i] = n
  <2>1. PICK j \in 1 .. k : Descending(S)[j] = n
    BY <1>3
  <2>2. k + 1 - j \in 1 .. k /\ k + 1 - (k + 1 - j) = j
    BY <1>1
  <2> QED BY <1>2, <2>1, <2>2
<1> QED BY <1>7, <1>8 DEF k, a

\* A set of natural numbers that is finite and not empty has a least element.
LEMMA LeastElement ==
  ASSUME NEW S \in SUBSET Nat, IsFiniteSet(S), S # {}
  PROVE  \E n \in S : \A m \in S : n <= m
<1>1. Cardinality(S) \in Nat /\ Cardinality(S) # 0
  BY FS_CardinalityType, FS_EmptySet
<1>2. Cardinality(S) \in 1 .. Cardinality(S)
  BY <1>1
<1>3. PICK n \in S : Rank(n, S) = Cardinality(S)
  BY <1>2, RankOnto
<1>4. ASSUME NEW m \in S, ~(n <= m) PROVE FALSE
  <2>1. m \in Nat /\ n \in Nat /\ m < n
    BY <1>4
  <2>2. Rank(n, S) < Rank(m, S)
    BY <2>1, RankFalls
  <2>3. Rank(m, S) \in 1 .. Cardinality(S)
    BY RankRange
  <2> QED BY <1>1, <1>3, <2>2, <2>3
<1> QED BY <1>4
=============================================================================
