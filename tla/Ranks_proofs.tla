----------------------------- MODULE Ranks_proofs -----------------------------
(* Lemmas about ranks, and about sets of positions that grow at their end.  *)
EXTENDS Ranks, FiniteSetTheorems, TLAPS

\* A set of positions is finite.
LEMMA PositionsFinite ==
  ASSUME NEW n \in Nat, NEW S, S \subseteq 1 .. n
  PROVE  IsFiniteSet(S) /\ Cardinality(S) \in Nat
<1>1. IsFiniteSet(1 .. n)
  BY FS_Interval
<1>2. IsFiniteSet(S)
  BY <1>1, FS_Subset
<1>3. QED BY <1>2, FS_CardinalityType

\* A position of the set has a rank between 1 and the size of the set.
LEMMA RankBounds ==
  ASSUME NEW n \in Nat, NEW S, S \subseteq 1 .. n, NEW i \in S
  PROVE  Rank(S, i) \in 1 .. Cardinality(S)
<1> DEFINE below == {j \in S : j <= i}
<1>1. IsFiniteSet(S) /\ Cardinality(S) \in Nat
  BY PositionsFinite
<1>2. below \subseteq S /\ below # {}
  <2>1. i \in Nat
    OBVIOUS
  <2>2. i \in below
    BY <2>1
  <2>3. QED BY <2>2
<1> HIDE DEF below
<1>3. IsFiniteSet(below) /\ Cardinality(below) <= Cardinality(S)
  BY <1>1, <1>2, FS_Subset
<1>4. Cardinality(below) \in Nat /\ Cardinality(below) # 0
  BY <1>2, <1>3, FS_CardinalityType, FS_EmptySet
<1>5. QED BY <1>1, <1>3, <1>4 DEF Rank, below

\* A position added at the end changes no rank, and has the new size for its own.
LEMMA RankAdded ==
  ASSUME NEW n \in Nat, NEW S, S \subseteq 1 .. n
  PROVE  /\ Cardinality(S \union {n + 1}) = Cardinality(S) + 1
         /\ Rank(S \union {n + 1}, n + 1) = Cardinality(S) + 1
         /\ \A i \in S : Rank(S \union {n + 1}, i) = Rank(S, i)
<1>1. \A k \in S : k \in Nat /\ k <= n
  OBVIOUS
<1>2. IsFiniteSet(S)
  BY PositionsFinite
<1>3. n + 1 \notin S
  <2>1. SUFFICES ASSUME n + 1 \in S PROVE FALSE
    OBVIOUS
  <2>2. n + 1 <= n
    BY <1>1, <2>1
  <2>3. QED BY <2>2
<1>4. Cardinality(S \union {n + 1}) = Cardinality(S) + 1
  BY <1>2, <1>3, FS_AddElement
<1>5. {j \in S \union {n + 1} : j <= n + 1} = S \union {n + 1}
  <2>1. \A j \in S \union {n + 1} : j <= n + 1
    BY <1>1
  <2>2. QED BY <2>1, Zenon
<1>6. ASSUME NEW i \in S
      PROVE  {j \in S \union {n + 1} : j <= i} = {j \in S : j <= i}
  <2>1. i \in Nat /\ ~(n + 1 <= i)
    BY <1>1
  <2>2. QED BY <2>1, Zenon
<1>7. QED BY <1>4, <1>5, <1>6 DEF Rank

\* Two sets of the same size grow by one each: what has equal ranks had them before,
\* or is the two new positions.
LEMMA BothGrow ==
  ASSUME NEW m \in Nat, NEW S, S \subseteq 1 .. m,
         NEW n \in Nat, NEW T, T \subseteq 1 .. n,
         Cardinality(S) = Cardinality(T)
  PROVE  \A i \in S \union {m + 1}, j \in T \union {n + 1} :
           Rank(S \union {m + 1}, i) = Rank(T \union {n + 1}, j) =>
             \/ i \in S /\ j \in T /\ Rank(S, i) = Rank(T, j)
             \/ i = m + 1 /\ j = n + 1
<1> SUFFICES ASSUME NEW i \in S \union {m + 1}, NEW j \in T \union {n + 1},
                    Rank(S \union {m + 1}, i) = Rank(T \union {n + 1}, j)
             PROVE  \/ i \in S /\ j \in T /\ Rank(S, i) = Rank(T, j)
                    \/ i = m + 1 /\ j = n + 1
  OBVIOUS
<1> DEFINE size == Cardinality(S)
           S2 == S \union {m + 1}
           T2 == T \union {n + 1}
<1>1. size \in Nat
  BY PositionsFinite
<1>2. Rank(S2, m + 1) = size + 1 /\ \A k \in S : Rank(S2, k) = Rank(S, k)
  BY RankAdded
<1>3. Rank(T2, n + 1) = size + 1 /\ \A k \in T : Rank(T2, k) = Rank(T, k)
  <2>1. Rank(T2, n + 1) = Cardinality(T) + 1 /\ \A k \in T : Rank(T2, k) = Rank(T, k)
    BY RankAdded
  <2>2. QED BY <2>1
<1>4. \A k \in S : Rank(S, k) \in 1 .. size
  BY RankBounds
<1>5. \A k \in T : Rank(T, k) \in 1 .. size
  BY RankBounds
<1>6. i \in S2 /\ j \in T2 /\ Rank(S2, i) = Rank(T2, j)
  OBVIOUS
<1>7. /\ i \in S \/ i = m + 1
      /\ j \in T \/ j = n + 1
  OBVIOUS
<1> HIDE DEF size, S2, T2
<1>8. QED BY <1>1, <1>2, <1>3, <1>4, <1>5, <1>6, <1>7

\* The first of two sets of the same size grows: the new position has the rank of
\* none in the other.
LEMMA OneGrows ==
  ASSUME NEW m \in Nat, NEW S, S \subseteq 1 .. m,
         NEW n \in Nat, NEW T, T \subseteq 1 .. n,
         Cardinality(S) = Cardinality(T)
  PROVE  \A i \in S \union {m + 1}, j \in T :
           Rank(S \union {m + 1}, i) = Rank(T, j) => i \in S /\ Rank(S, i) = Rank(T, j)
<1> SUFFICES ASSUME NEW i \in S \union {m + 1}, NEW j \in T,
                    Rank(S \union {m + 1}, i) = Rank(T, j)
             PROVE  i \in S /\ Rank(S, i) = Rank(T, j)
  OBVIOUS
<1> DEFINE size == Cardinality(S)
           S2 == S \union {m + 1}
<1>1. size \in Nat
  BY PositionsFinite
<1>2. Rank(S2, m + 1) = size + 1 /\ \A k \in S : Rank(S2, k) = Rank(S, k)
  BY RankAdded
<1>3. Rank(T, j) \in 1 .. size
  BY RankBounds
<1>4. i \in S \/ i = m + 1
  OBVIOUS
<1>5. Rank(S2, i) = Rank(T, j)
  OBVIOUS
<1> HIDE DEF size, S2
<1>6. QED BY <1>1, <1>2, <1>3, <1>4, <1>5
=============================================================================
