------------------------- MODULE TableLimitsProofs -------------------------
(***************************************************************************)
(* What enforceTableSizeLimits guarantees for every table and every limit. *)
(***************************************************************************)
EXTENDS TableLimits, FiniteSetTheorems, TLAPS

Above(ids, i) == {j \in ids : j > i}

\* Of two rows, the older one has strictly more rows above it.
LEMMA AboveShrinks ==
  ASSUME NEW ids \in SUBSET Int, IsFiniteSet(ids),
         NEW i \in ids, NEW j \in ids, i < j
  PROVE  /\ Cardinality(Above(ids, i)) \in Nat
         /\ Cardinality(Above(ids, j)) \in Nat
         /\ Cardinality(Above(ids, j)) < Cardinality(Above(ids, i))
<1>1. IsFiniteSet(Above(ids, i))
  BY FS_Subset DEF Above
<1>2. Above(ids, j) \in SUBSET Above(ids, i)
  <2> SUFFICES ASSUME NEW k \in ids, k > j
               PROVE  k > i
    BY DEF Above
  <2>1. i \in Int /\ j \in Int /\ k \in Int
    OBVIOUS
  <2> QED
    BY <2>1
<1>3. j \in Above(ids, i) /\ j \notin Above(ids, j)
  BY DEF Above
<1>4. IsFiniteSet(Above(ids, j)) /\ Cardinality(Above(ids, j)) # Cardinality(Above(ids, i))
      /\ Cardinality(Above(ids, j)) <= Cardinality(Above(ids, i))
  BY <1>1, <1>2, <1>3, FS_Subset
<1> QED
  BY <1>1, <1>4, FS_CardinalityType

\* The subquery of the DELETE selects at most maximum rows, as LIMIT says.
THEOREM NewestBounded ==
  ASSUME NEW ids \in SUBSET Int, IsFiniteSet(ids), NEW maximum \in Nat
  PROVE  /\ IsFiniteSet(Newest(ids, maximum))
         /\ Cardinality(Newest(ids, maximum)) <= maximum
<1> DEFINE N == Newest(ids, maximum)
           rank == [i \in N |-> Cardinality(Above(ids, i))]
<1>1. N \subseteq ids /\ IsFiniteSet(N)
  BY FS_Subset DEF Newest
<1>2. Cardinality(N) \in Nat
  BY <1>1, FS_CardinalityType
<1>3. IsFiniteSet(0..(maximum - 1)) /\ Cardinality(0..(maximum - 1)) = maximum
  BY FS_Interval
<1>4. rank \in [N -> 0..(maximum - 1)]
  <2> SUFFICES ASSUME NEW i \in N
               PROVE  Cardinality(Above(ids, i)) \in 0..(maximum - 1)
    OBVIOUS
  <2>1. Cardinality(Above(ids, i)) < maximum
    BY DEF Newest, Above
  <2>2. IsFiniteSet(Above(ids, i))
    BY FS_Subset DEF Above
  <2> QED
    BY <2>1, <2>2, FS_CardinalityType
<1>5. \A i, j \in N : i # j => rank[i] # rank[j]
  <2>1. ASSUME NEW i \in N, NEW j \in N, i < j
        PROVE  rank[i] # rank[j]
    <3>1. i \in ids /\ j \in ids
      BY <1>1
    <3>2. Cardinality(Above(ids, j)) \in Nat
          /\ Cardinality(Above(ids, j)) < Cardinality(Above(ids, i))
      BY <2>1, <3>1, AboveShrinks
    <3>3. rank[i] = Cardinality(Above(ids, i)) /\ rank[j] = Cardinality(Above(ids, j))
      OBVIOUS
    <3> HIDE DEF rank
    <3> QED
      BY <3>2, <3>3
  <2>2. \A i, j \in N : i # j => i < j \/ j < i
    <3>1. \A i \in N : i \in Int
      BY <1>1
    <3> QED
      BY <3>1
  <2> HIDE DEF N, rank
  <2> QED
    BY <2>1, <2>2
<1> HIDE DEF N, rank
<1>6. ASSUME Cardinality(N) > maximum
      PROVE  FALSE
  BY <1>1, <1>2, <1>3, <1>4, <1>5, <1>6, FS_PigeonHole
<1>7. IsFiniteSet(N) /\ Cardinality(N) <= maximum
  BY <1>1, <1>2, <1>6
<1> QED
  BY <1>7 DEF N

\* A table with a limit keeps at most its limit and its fixed rows.
THEOREM KeptBounded ==
  ASSUME NEW ids \in SUBSET (Nat \ {0}), IsFiniteSet(ids),
         NEW fixed \in Nat, NEW maximum \in Nat, maximum > 0
  PROVE  /\ IsFiniteSet(Kept(ids, fixed, maximum))
         /\ Cardinality(Kept(ids, fixed, maximum)) <= maximum + fixed
<1> DEFINE N == Newest(ids, maximum)
           F == {i \in ids : i <= fixed}
           K == Kept(ids, fixed, maximum)
<1>1. IsFiniteSet(N) /\ Cardinality(N) <= maximum
  BY NewestBounded
<1>2. IsFiniteSet(F) /\ Cardinality(F) <= fixed
  <2>1. F \in SUBSET (1..fixed)
    <3> SUFFICES ASSUME NEW i \in ids, i <= fixed
                 PROVE  i \in 1..fixed
      OBVIOUS
    <3>1. i \in Nat /\ i # 0
      OBVIOUS
    <3> QED
      BY <3>1
  <2>2. IsFiniteSet(1..fixed) /\ Cardinality(1..fixed) = fixed
    BY FS_Interval
  <2> QED
    BY <2>1, <2>2, FS_Subset
<1>3. K = N \cup F
  BY DEF Kept, Newest
<1> HIDE DEF N, F, K
<1>4. Cardinality(N \cup F) = Cardinality(N) + Cardinality(F) - Cardinality(N \cap F)
      /\ IsFiniteSet(N \cup F)
  BY <1>1, <1>2, FS_Union
<1>5. Cardinality(N \cap F) \in Nat /\ Cardinality(N) \in Nat /\ Cardinality(F) \in Nat
  BY <1>1, <1>2, FS_Intersection, FS_CardinalityType
<1>6. IsFiniteSet(K) /\ Cardinality(K) <= maximum + fixed
  BY <1>1, <1>2, <1>3, <1>4, <1>5
<1> QED
  BY <1>6 DEF K

\* Of the rows that are not fixed, no more stay than the limit: this bound needs
\* nothing of the ids.
THEOREM UnfixedBounded ==
  ASSUME NEW ids \in SUBSET Int, IsFiniteSet(ids),
         NEW fixed \in Int, NEW maximum \in Nat, maximum > 0
  PROVE  Cardinality({i \in Kept(ids, fixed, maximum) : i > fixed}) <= maximum
<1> DEFINE N == Newest(ids, maximum)
           U == {i \in Kept(ids, fixed, maximum) : i > fixed}
<1>1. IsFiniteSet(N) /\ Cardinality(N) <= maximum
  BY NewestBounded
<1>2. U \in SUBSET N
  <2> SUFFICES ASSUME NEW i \in Kept(ids, fixed, maximum), i > fixed
               PROVE  i \in N
    OBVIOUS
  <2>1. i \in ids /\ (i \in N \/ i <= fixed)
    BY DEF Kept
  <2>2. i \in Int /\ fixed \in Int
    BY <2>1
  <2> QED
    BY <2>1, <2>2
<1> HIDE DEF N, U
<1>3. Cardinality(U) <= Cardinality(N) /\ IsFiniteSet(U)
  BY <1>1, <1>2, FS_Subset
<1>4. Cardinality(U) \in Nat /\ Cardinality(N) \in Nat
  BY <1>1, <1>3, FS_CardinalityType
<1> QED
  BY <1>1, <1>3, <1>4 DEF U

\* A row is only deleted for as many newer ones as the table may hold, and these
\* stay.
THEOREM DeletedIsOutnumbered ==
  ASSUME NEW ids \in SUBSET Int, IsFiniteSet(ids),
         NEW fixed \in Int, NEW maximum \in Int,
         NEW f \in ids, f \notin Kept(ids, fixed, maximum)
  PROVE  /\ maximum > 0 /\ f > fixed
         /\ Cardinality({g \in Kept(ids, fixed, maximum) : g > f}) >= maximum
<1> DEFINE A == Above(ids, f)
           n == Cardinality(A)
           rank == [i \in A |-> Cardinality(Above(ids, i))]
           B == {i \in A : rank[i] < maximum}
           K == {g \in Kept(ids, fixed, maximum) : g > f}
<1>1. f \in Int /\ maximum > 0 /\ f > fixed /\ ~(n < maximum)
  BY DEF Kept, Newest, Above
<1>2. A \subseteq ids /\ A \subseteq Int /\ IsFiniteSet(A) /\ n \in Nat
  BY FS_Subset, FS_CardinalityType DEF Above
<1>3. \A i \in A : rank[i] \in 0..(n - 1)
  <2> SUFFICES ASSUME NEW i \in A
               PROVE  Cardinality(Above(ids, i)) \in 0..(n - 1)
    OBVIOUS
  <2>1. i \in ids /\ f < i
    BY <1>1 DEF Above
  <2>2. Cardinality(Above(ids, i)) \in Nat /\ Cardinality(Above(ids, i)) < n
    BY <2>1, AboveShrinks
  <2> HIDE DEF n
  <2> QED
    BY <1>2, <2>2
<1>4. \A i, j \in A : i # j => rank[i] # rank[j]
  <2>1. ASSUME NEW i \in A, NEW j \in A, i < j
        PROVE  rank[i] # rank[j]
    <3>1. i \in ids /\ j \in ids
      BY <1>2
    <3>2. Cardinality(Above(ids, j)) \in Nat /\ Cardinality(Above(ids, i)) \in Nat
          /\ Cardinality(Above(ids, j)) < Cardinality(Above(ids, i))
      BY <2>1, <3>1, AboveShrinks
    <3>3. rank[i] = Cardinality(Above(ids, i)) /\ rank[j] = Cardinality(Above(ids, j))
      OBVIOUS
    <3> HIDE DEF rank
    <3> QED
      BY <3>2, <3>3
  <2>2. \A i, j \in A : i # j => i < j \/ j < i
    <3>1. \A i \in A : i \in Int
      BY <1>2
    <3> QED
      BY <3>1
  <2> HIDE DEF A, rank
  <2> QED
    BY <2>1, <2>2
<1>5. DOMAIN rank = A
  OBVIOUS
<1>6. B \subseteq K
  <2> SUFFICES ASSUME NEW i \in A, rank[i] < maximum
               PROVE  i \in Kept(ids, fixed, maximum) /\ i > f
    OBVIOUS
  <2>1. i \in ids /\ i > f /\ Cardinality(Above(ids, i)) < maximum
    BY DEF Above
  <2> QED
    BY <2>1 DEF Kept, Newest, Above
<1>7. IsFiniteSet(K)
  <2>1. K \in SUBSET ids
    BY DEF Kept
  <2> QED
    BY <2>1, FS_Subset
<1>8. rank = [i \in A |-> rank[i]]
  OBVIOUS
<1> HIDE DEF A, n, rank
<1>9. rank \in Injection(A, 0..(n - 1))
  BY <1>3, <1>4, <1>5, <1>8 DEF Injection, IsInjective
<1>10. IsFiniteSet(0..(n - 1)) /\ Cardinality(0..(n - 1)) = n
  <2>1. 0 \in Int /\ n - 1 \in Int
    BY <1>2
  <2>2. IsFiniteSet(0..(n - 1))
        /\ Cardinality(0..(n - 1)) = IF 0 > n - 1 THEN 0 ELSE n - 1 - 0 + 1
    BY <2>1, FS_Interval
  <2> QED
    BY <1>2, <2>2
<1>11. rank \in Surjection(A, 0..(n - 1))
  BY <1>9, <1>10, FS_Injection DEF n
<1>12. IsFiniteSet(B) /\ B \in SUBSET A
  BY <1>2, FS_Subset
<1> DEFINE low == [i \in B |-> rank[i]]
<1>13. low \in Surjection(B, 0..(maximum - 1))
  <2>1. \A i \in B : rank[i] \in 0..(maximum - 1)
    BY <1>1, <1>2, <1>3, <1>12
  <2>2. \A k \in 0..(maximum - 1) : \E i \in B : rank[i] = k
    <3> SUFFICES ASSUME NEW k \in 0..(maximum - 1)
                 PROVE  \E i \in B : rank[i] = k
      OBVIOUS
    <3>1. k \in 0..(n - 1) /\ k < maximum
      BY <1>1, <1>2
    <3>2. PICK i \in A : rank[i] = k
      BY <1>11, <3>1 DEF Surjection
    <3> QED
      BY <3>1, <3>2
  <2> HIDE DEF B
  <2> QED
    BY <2>1, <2>2 DEF Surjection
<1> HIDE DEF B, low
<1>14. Cardinality(0..(maximum - 1)) <= Cardinality(B)
  BY <1>12, <1>13, FS_Surjection
<1>15. Cardinality(0..(maximum - 1)) = maximum
  <2>1. 0 \in Int /\ maximum - 1 \in Int
    OBVIOUS
  <2>2. Cardinality(0..(maximum - 1)) = IF 0 > maximum - 1 THEN 0 ELSE maximum - 1 - 0 + 1
    BY <2>1, FS_Interval
  <2> QED
    BY <1>1, <2>2
<1>16. Cardinality(B) <= Cardinality(K)
  BY <1>6, <1>7, FS_Subset
<1>17. Cardinality(B) \in Nat /\ Cardinality(K) \in Nat
  BY <1>7, <1>12, FS_CardinalityType
<1>18. Cardinality(K) >= maximum
  BY <1>14, <1>15, <1>16, <1>17
<1> QED
  BY <1>1, <1>18 DEF K

\* The rows with the maximum largest ids a table ever gave out are kept,
\* whichever of the older ones are still there.
THEOREM KeptRecent ==
  ASSUME NEW last \in Nat, NEW ids \in SUBSET (1..last),
         NEW fixed \in Int, NEW maximum \in Int,
         NEW i \in ids, maximum <= 0 \/ i > last - maximum \/ i <= fixed
  PROVE  i \in Kept(ids, fixed, maximum)
<1>1. CASE maximum <= 0 \/ i <= fixed
  BY <1>1 DEF Kept
<1>2. CASE maximum > 0 /\ i > last - maximum
  <2>1. Above(ids, i) \in SUBSET ((i + 1)..last)
    <3> SUFFICES ASSUME NEW j \in ids, j > i
                 PROVE  j \in (i + 1)..last
      BY DEF Above
    <3>1. i \in 1..last /\ j \in 1..last
      OBVIOUS
    <3> QED
      BY <3>1
  <2>2. IsFiniteSet((i + 1)..last)
        /\ Cardinality((i + 1)..last) = IF i + 1 > last THEN 0 ELSE last - i
    BY FS_Interval
  <2>3. Cardinality(Above(ids, i)) <= Cardinality((i + 1)..last)
        /\ IsFiniteSet(Above(ids, i))
    BY <2>1, <2>2, FS_Subset
  <2>4. Cardinality(Above(ids, i)) \in Nat
    BY <2>3, FS_CardinalityType
  <2>5. Cardinality(Above(ids, i)) < maximum
    BY <1>2, <2>2, <2>3, <2>4
  <2> QED
    BY <2>5 DEF Kept, Newest, Above
<1> QED
  BY <1>1, <1>2

=============================================================================
