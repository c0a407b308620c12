-------------------------- MODULE ColumnSumsProofs --------------------------
(***************************************************************************)
(* What happens to the sum of a column when one row changes.  Every proof  *)
(* about balances and refunds rests on these lemmas.                       *)
(***************************************************************************)
EXTENDS ColumnSums, FiniteSetTheorems, TLAPS

\* What an amount contributes to a heap.
Clip(n) == IF n > 0 THEN n ELSE 0

\* A heap over finitely many rows is finite: its cardinality counts it.
LEMMA HeapFinite ==
    ASSUME NEW R, IsFiniteSet(R), NEW f \in [R -> Int]
    PROVE  IsFiniteSet(Heap(f)) /\ Cardinality(Heap(f)) \in Nat
  <1> DEFINE unit == [r \in R |-> {r} \X (1..f[r])]
             units == {unit[r] : r \in R}
  <1>1. IsFiniteSet(units)
    <2>1. unit \in Surjection(R, units)
      BY DEF Surjection
    <2> HIDE DEF unit, units
    <2> QED
      BY <2>1, FS_Surjection
  <1>2. ASSUME NEW u \in units PROVE IsFiniteSet(u)
    <2>1. PICK r \in R : u = {r} \X (1..f[r])
      OBVIOUS
    <2>2. IsFiniteSet({r})
      BY FS_Singleton
    <2>3. f[r] \in Int /\ 1 \in Int
      OBVIOUS
    <2>4. IsFiniteSet(1..f[r])
      BY <2>3, FS_Interval
    <2> QED
      BY <2>1, <2>2, <2>4, FS_Product
  <1>3. Heap(f) = UNION units
    BY DEF Heap
  <1> HIDE DEF units
  <1>4. IsFiniteSet(Heap(f))
    BY <1>1, <1>2, <1>3, FS_UNION
  <1> QED
    BY <1>4, FS_CardinalityType

\* The pairs <<r, 1>>, ..., <<r, n>>.
LEMMA SliceCardinality ==
    ASSUME NEW r, NEW n \in Nat
    PROVE  IsFiniteSet({r} \X (1..n)) /\ Cardinality({r} \X (1..n)) = n
  <1>1. IsFiniteSet(1..n) /\ Cardinality(1..n) = n
    BY FS_Interval
  <1>2. IsFiniteSet({r}) /\ Cardinality({r}) = 1
    BY FS_Singleton
  <1>3. IsFiniteSet({r} \X (1..n)) /\ Cardinality({r} \X (1..n)) = 1 * n
    <2>1. IsFiniteSet({r}) /\ IsFiniteSet(1..n)
      BY <1>1, <1>2
    <2>2. /\ IsFiniteSet({r} \X (1..n))
          /\ Cardinality({r} \X (1..n)) = Cardinality({r}) * Cardinality(1..n)
      BY <2>1, FS_Product
    <2> QED
      BY <1>1, <1>2, <2>2
  <1>4. 1 * n = n
    OBVIOUS
  <1> QED
    BY <1>3, <1>4

\* A heap is the units of row r and those of the other rows.
LEMMA HeapSplit ==
    ASSUME NEW R, IsFiniteSet(R), NEW f \in [R -> Int], NEW r \in R,
           NEW others, others = {p \in Heap(f) : p[1] # r}
    PROVE  /\ IsFiniteSet(others) /\ Cardinality(others) \in Nat
           /\ Cardinality(Heap(f)) = Cardinality(others) + Clip(f[r])
  <1> DEFINE slice == {r} \X (1..Clip(f[r]))
  <1>1. f[r] \in Int /\ Clip(f[r]) \in Nat
    BY DEF Clip
  <1>2. IsFiniteSet(others)
    BY HeapFinite, FS_Subset
  <1>3. IsFiniteSet(slice) /\ Cardinality(slice) = Clip(f[r])
    BY <1>1, SliceCardinality
  <1>4. 1..f[r] = 1..Clip(f[r])
    BY <1>1 DEF Clip
  <1>5. Heap(f) = others \cup slice
    <2>1. ASSUME NEW p \in Heap(f) PROVE p \in others \cup slice
      <3>1. PICK q \in R : p \in {q} \X (1..f[q])
        BY DEF Heap
      <3> QED
        BY <1>4, <3>1
    <2>2. slice \subseteq Heap(f)
      BY <1>4 DEF Heap
    <2> QED
      BY <2>1, <2>2
  <1>6. others \cap slice = {}
    OBVIOUS
  <1>7. Cardinality(Heap(f)) = Cardinality(others) + Cardinality(slice) - Cardinality({})
    BY <1>2, <1>3, <1>5, <1>6, FS_Union
  <1>8. Cardinality(others) \in Nat
    BY <1>2, FS_CardinalityType
  <1> QED
    BY <1>1, <1>2, <1>3, <1>7, <1>8, FS_EmptySet

LEMMA HeapUpdate ==
    ASSUME NEW R, IsFiniteSet(R), NEW f \in [R -> Int], NEW r \in R, NEW n \in Int
    PROVE  Cardinality(Heap([f EXCEPT ![r] = n])) = Cardinality(Heap(f)) - Clip(f[r]) + Clip(n)
  <1> DEFINE g == [f EXCEPT ![r] = n]
             others == {p \in Heap(f) : p[1] # r}
  <1>1. g \in [R -> Int] /\ g[r] = n
    OBVIOUS
  <1>2. {p \in Heap(g) : p[1] # r} = others
    BY <1>1 DEF Heap
  <1>3. Cardinality(Heap(f)) = Cardinality(others) + Clip(f[r]) /\ Cardinality(others) \in Nat
    BY HeapSplit
  <1>4. Cardinality(Heap(g)) = Cardinality(others) + Clip(n)
    <2> HIDE DEF g
    <2> QED
      BY <1>1, <1>2, HeapSplit
  <1>5. Clip(f[r]) \in Int /\ Clip(n) \in Int
    BY DEF Clip
  <1> QED
    BY <1>3, <1>4, <1>5

LEMMA NegatedType ==
    ASSUME NEW R, NEW f \in [R -> Int]
    PROVE  Negated(f) \in [R -> Int]
  BY DEF Negated

LEMMA TotalType ==
    ASSUME NEW R, IsFiniteSet(R), NEW f \in [R -> Int]
    PROVE  Total(f) \in Int
  BY HeapFinite, NegatedType DEF Total

\* Replacing the amount of one row changes the sum by the difference.
THEOREM TotalUpdate ==
    ASSUME NEW R, IsFiniteSet(R), NEW f \in [R -> Int], NEW r \in R, NEW n \in Int
    PROVE  Total([f EXCEPT ![r] = n]) = Total(f) - f[r] + n
  <1> DEFINE g == [f EXCEPT ![r] = n]
             h == Negated(f)
             m == 0 - n
  <1>1. f[r] \in Int /\ n \in Int /\ m \in Int
    OBVIOUS
  <1>2. Negated(g) = [h EXCEPT ![r] = m]
    BY DEF Negated
  <1>3. h \in [R -> Int] /\ h[r] = 0 - f[r]
    BY NegatedType DEF Negated
  <1>4. Cardinality(Heap(g)) = Cardinality(Heap(f)) - Clip(f[r]) + Clip(n)
    BY HeapUpdate
  <1>5. Cardinality(Heap(Negated(g))) = Cardinality(Heap(h)) - Clip(0 - f[r]) + Clip(0 - n)
    <2>1. h \in [R -> Int]
      BY <1>3
    <2>2. m \in Int
      BY <1>1
    <2> HIDE DEF g, h, m
    <2>3. Cardinality(Heap([h EXCEPT ![r] = m])) = Cardinality(Heap(h)) - Clip(h[r]) + Clip(m)
      BY <2>1, <2>2, HeapUpdate
    <2> QED
      BY <1>2, <1>3, <2>3 DEF m
  <1>6. Cardinality(Heap(f)) \in Int /\ Cardinality(Heap(Negated(f))) \in Int
    BY <1>3, HeapFinite
  <1> QED
    BY <1>1, <1>4, <1>5, <1>6 DEF Total, Clip

\* A column of credits has no negative sum.
LEMMA TotalOfCredits ==
    ASSUME NEW R, IsFiniteSet(R), NEW f \in [R -> Nat]
    PROVE  Total(f) \in Nat
  <1>1. f \in [R -> Int]
    OBVIOUS
  <1>2. Cardinality(Heap(f)) \in Nat
    BY <1>1, HeapFinite
  <1>3. Heap(Negated(f)) = {}
    BY DEF Heap, Negated
  <1> QED
    BY <1>2, <1>3, FS_EmptySet DEF Total

\* Amounts of at most m each, on the rows of U alone, sum to at most m times U.
LEMMA TotalIsSmall ==
    ASSUME NEW R, IsFiniteSet(R), NEW U \in SUBSET R, NEW m \in Nat, NEW f \in [R -> Nat],
           \A r \in U : f[r] <= m, \A r \in R \ U : f[r] = 0
    PROVE  Total(f) <= m * Cardinality(U)
  <1>1. Heap(f) \subseteq U \X (1..m)
    <2> SUFFICES ASSUME NEW r \in R, NEW p \in {r} \X (1..f[r])
                 PROVE  p \in U \X (1..m)
      BY DEF Heap
    <2>1. p[1] = r /\ p[2] \in 1..f[r] /\ p = <<p[1], p[2]>>
      OBVIOUS
    <2>2. r \in U
      BY <2>1
    <2>3. p[2] \in 1..m
      BY <2>1, <2>2
    <2> QED
      BY <2>1, <2>2, <2>3
  <1>2. IsFiniteSet(U) /\ Cardinality(U) \in Nat
    BY FS_Subset, FS_CardinalityType
  <1>3. IsFiniteSet(1..m) /\ Cardinality(1..m) = m
    BY FS_Interval
  <1>4. /\ IsFiniteSet(U \X (1..m))
        /\ Cardinality(U \X (1..m)) = Cardinality(U) * m
    BY <1>2, <1>3, FS_Product
  <1>5. Cardinality(Heap(f)) <= Cardinality(U) * m
    BY <1>1, <1>4, FS_Subset
  <1>6. Heap(Negated(f)) = {}
    BY DEF Heap, Negated
  <1>7. Cardinality(Heap(f)) \in Nat
    BY <1>1, <1>4, FS_Subset, FS_CardinalityType
  <1>8. Total(f) = Cardinality(Heap(f))
    BY <1>6, <1>7, FS_EmptySet DEF Total
  <1>9. Cardinality(U) * m = m * Cardinality(U)
    BY <1>2
  <1> QED
    BY <1>5, <1>8, <1>9

\* An empty column sums to zero.
LEMMA TotalOfNothing ==
    ASSUME NEW R
    PROVE  Total([r \in R |-> 0]) = 0
  <1>1. Heap([r \in R |-> 0]) = {}
    BY DEF Heap
  <1>2. Negated([r \in R |-> 0]) = [r \in R |-> 0]
    <2>1. Negated([r \in R |-> 0]) = [r \in R |-> 0 - 0]
      BY Zenon DEF Negated
    <2>2. 0 - 0 = 0
      OBVIOUS
    <2> QED
      BY <2>1, <2>2
  <1> QED
    BY <1>1, <1>2, FS_EmptySet DEF Total

\* Money that leaves one account and enters another: the sums cancel.
LEMMA TotalNegated ==
    ASSUME NEW R, IsFiniteSet(R), NEW f \in [R -> Int]
    PROVE  Total(Negated(f)) = 0 - Total(f)
  <1>1. Negated(Negated(f)) = f
    BY DEF Negated
  <1>2. Cardinality(Heap(f)) \in Int /\ Cardinality(Heap(Negated(f))) \in Int
    BY NegatedType, HeapFinite
  <1> QED
    BY <1>1, <1>2 DEF Total

\* The sum of two columns, row by row, is the sum of their sums.  A smallest
\* set of rows for which the second column could not be added is empty, since
\* adding the amount of one row more is a TotalUpdate of both sides.
THEOREM TotalAdd ==
    ASSUME NEW R, IsFiniteSet(R), NEW f \in [R -> Int], NEW g \in [R -> Int]
    PROVE  Total([r \in R |-> f[r] + g[r]]) = Total(f) + Total(g)
  <1> DEFINE part == [T \in SUBSET R |-> [r \in R |-> IF r \in T THEN g[r] ELSE 0]]
             whole == [T \in SUBSET R |-> [r \in R |-> f[r] + part[T][r]]]
             bad == {T \in SUBSET R : Total(whole[T]) # Total(f) + Total(part[T])}
  <1>1. \A T \in SUBSET R : part[T] \in [R -> Int] /\ whole[T] \in [R -> Int]
    OBVIOUS
  <1>2. {} \notin bad
    <2>1. part[{}] = [r \in R |-> 0] /\ whole[{}] = f
      OBVIOUS
    <2>2. Total([r \in R |-> 0]) = 0 /\ Total(f) \in Int
      BY TotalOfNothing, TotalType
    <2> HIDE DEF part, whole
    <2> QED
      BY <2>1, <2>2
  <1>3. ASSUME NEW T \in SUBSET R, NEW r \in T, T \ {r} \notin bad
        PROVE  T \notin bad
    <2> DEFINE less == T \ {r}
               sum == f[r] + g[r]
    <2>1. less \in SUBSET R /\ r \in R /\ sum \in Int /\ g[r] \in Int /\ f[r] \in Int
      OBVIOUS
    <2>2. part[T] = [part[less] EXCEPT ![r] = g[r]] /\ part[less][r] = 0
      BY <2>1
    <2>3. whole[T] = [whole[less] EXCEPT ![r] = sum] /\ whole[less][r] = f[r]
      <3>1. \A U \in SUBSET R : \A q \in R : whole[U][q] = f[q] + part[U][q]
        <4> HIDE DEF part, bad
        <4> QED
          OBVIOUS
      <3>2. part[T][r] = g[r] /\ \A q \in R \ {r} : part[T][q] = part[less][q]
        BY <2>1
      <3>3. f[r] + 0 = f[r]
        BY <2>1
      <3>4. T \in SUBSET R /\ less \in SUBSET R
        BY <2>1
      <3> HIDE DEF part, whole, less, bad
      <3>5. whole[less][r] = f[r]
        BY <2>1, <2>2, <3>1, <3>3, <3>4
      <3>6. \A q \in R \ {r} : whole[T][q] = whole[less][q]
        BY <3>1, <3>2, <3>4
      <3>7. whole[T][r] = sum
        BY <2>1, <3>1, <3>2, <3>4
      <3>8. whole[T] \in [R -> Int] /\ whole[less] \in [R -> Int]
        BY <1>1, <3>4
      <3> HIDE DEF sum
      <3> QED
        BY <2>1, <3>5, <3>6, <3>7, <3>8
    <2>4. Total(whole[less]) = Total(f) + Total(part[less])
      BY <1>3, <2>1
    <2> HIDE DEF part, whole, less, sum
    <2>5. part[less] \in [R -> Int] /\ whole[less] \in [R -> Int]
      BY <1>1, <2>1
    <2>6. Total(part[T]) = Total(part[less]) - part[less][r] + g[r]
      BY <2>1, <2>2, <2>5, TotalUpdate
    <2>7. Total(whole[T]) = Total(whole[less]) - whole[less][r] + sum
      BY <2>1, <2>3, <2>5, TotalUpdate
    <2>8. Total(f) \in Int /\ Total(part[less]) \in Int
      BY <2>5, TotalType
    <2>9. Total(whole[T]) = Total(f) + Total(part[T])
      BY <2>1, <2>2, <2>3, <2>4, <2>6, <2>7, <2>8 DEF sum
    <2> QED
      BY <2>9
  <1>4. bad = {}
    <2> SUFFICES ASSUME bad # {} PROVE FALSE
      OBVIOUS
    <2>1. bad \subseteq SUBSET R
      <3> HIDE DEF part, whole
      <3> QED
        OBVIOUS
    <2>2. IsWellFoundedOn(StrictSubsetOrdering(R), SUBSET R)
      <3>1. FiniteSubsetsOf(R) = SUBSET R
        BY FS_FiniteSubsetsOfFinite
      <3>2. IsWellFoundedOn(StrictSubsetOrdering(R), FiniteSubsetsOf(R))
        BY FS_StrictSubsetOrderingWellFounded
      <3> QED
        BY <3>1, <3>2, Zenon
    <2> HIDE DEF bad
    <2>3. PICK T \in bad : \A U \in bad : ~ (<<U, T>> \in StrictSubsetOrdering(R))
      BY <2>1, <2>2, WFMin
    <2>4. T \in SUBSET R /\ T # {}
      BY <1>2, <2>1
    <2>5. PICK r \in T : TRUE
      BY <2>4
    <2>6. <<T \ {r}, T>> \in StrictSubsetOrdering(R)
      BY <2>4, <2>5 DEF StrictSubsetOrdering
    <2> QED
      BY <1>3, <2>3, <2>4, <2>5, <2>6
  <1>5. part[R] = g /\ whole[R] = [r \in R |-> f[r] + g[r]]
    OBVIOUS
  <1> HIDE DEF part, whole
  <1> QED
    BY <1>4, <1>5

=============================================================================
