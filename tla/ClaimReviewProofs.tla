---------------------------- MODULE ClaimReviewProofs ----------------------------
(***************************************************************************)
(* Proofs about modules ClaimReview and SpanMask, for sources and claim       *)
(* ledgers of any size: no denied character is released and nothing else is   *)
(* removed, every supported veto reaches the answer, and the answer's action   *)
(* tells what was withheld.                                                  *)
(*                                                                          *)
(* The first part is about the range arithmetic: the folds of SpanMask, sorted *)
(* ranges, merged ranges, and the text cut from right to left.  The second     *)
(* part is the invariant of the review.                                      *)
(***************************************************************************)
EXTENDS ClaimReview, FiniteSetTheorems, WellFoundedInduction, TLAPS

(***************************************************************************)
(* Greatest positions, and folds                                             *)
(***************************************************************************)

\* Every nonempty set of natural numbers has a least one.
LEMMA LeastExists ==
    ASSUME NEW S \in SUBSET Nat, S # {}
    PROVE  \E n \in S : \A m \in S : ~(m < n)
<1>1. IsWellFoundedOn(OpToRel(<, Nat), Nat)
    BY NatLessThanWellFounded
<1>2. PICK n \in S : \A m \in S : ~(<<m, n>> \in OpToRel(<, Nat))
    BY <1>1, WFMin
<1> QED
    BY <1>2 DEF OpToRel

\* A nonempty set of positions has a greatest one.
LEMMA MaxExists ==
    ASSUME NEW n \in Nat, NEW s \in SUBSET (1..n), s # {}
    PROVE  /\ Max(s) \in s
           /\ \A y \in s : Max(s) >= y
<1> DEFINE Above == {k \in Nat : \A y \in s : k >= y}
<1>1. n \in Above
    OBVIOUS
<1>2. PICK k \in Above : \A j \in Above : ~(j < k)
    BY <1>1, LeastExists
<1>3. k \in s
  <2> SUFFICES ASSUME k \notin s
               PROVE  FALSE
    OBVIOUS
  <2>1. PICK y0 \in s : TRUE
    OBVIOUS
  <2>2. k - 1 \in Above
    BY <1>2, <2>1
  <2> QED
    BY <1>2, <2>2
<1>4. \A y \in s : k >= y
    BY <1>2
<1> QED
    BY <1>3, <1>4 DEF Max

\* Every set of positions up to n + 1 that has n + 1 in it has it as its greatest.
LEMMA MaxIsLast ==
    ASSUME NEW n \in Nat, NEW s \in SUBSET (1..(n + 1)), n + 1 \in s
    PROVE  /\ Max(s) = n + 1
           /\ s \ {n + 1} \in SUBSET (1..n)
<1>1. \A y \in s : n + 1 >= y
    OBVIOUS
<1>2. \A x \in s : (\A y \in s : x >= y) => x = n + 1
    OBVIOUS
<1>3. Max(s) = n + 1
    BY <1>1, <1>2 DEF Max
<1> QED
    BY <1>3

\* The greater of two numbers.
LEMMA MaxOfTwo ==
    ASSUME NEW a \in Int, NEW b \in Int
    PROVE  Max({a, b}) = IF a >= b THEN a ELSE b
<1> DEFINE m == IF a >= b THEN a ELSE b
<1>1. m \in {a, b} /\ \A y \in {a, b} : m >= y
    OBVIOUS
<1>2. \A x \in {a, b} : (\A y \in {a, b} : x >= y) => x = m
    OBVIOUS
<1> QED
    BY <1>1, <1>2 DEF Max

\* The lesser of two numbers.
LEMMA MinOfTwo ==
    ASSUME NEW a \in Int, NEW b \in Int
    PROVE  Min({a, b}) = IF a <= b THEN a ELSE b
<1> DEFINE m == IF a <= b THEN a ELSE b
<1>1. m \in {a, b} /\ \A y \in {a, b} : m <= y
    OBVIOUS
<1>2. \A x \in {a, b} : (\A y \in {a, b} : x <= y) => x = m
    OBVIOUS
<1> QED
    BY <1>1, <1>2 DEF Min

\* The two loops of the boundary, and the recursion by which FoldLeft runs them:
\* over the sets 1..k of positions and all others.
StepOf(loop, done, row) == IF loop = "merge" THEN Merge(done, row) ELSE Cut(done, row)

IsFold(loop, base, rows, n, f) ==
    f = [s \in SUBSET (1..n) |->
            IF s = {} THEN base ELSE StepOf(loop, f[s \ {Max(s)}], rows[Max(s)])]

\* The recursion has a solution, for any number of rows.
LEMMA FoldExists ==
    ASSUME NEW loop, NEW base, NEW rows, NEW m \in Nat
    PROVE  \E f : IsFold(loop, base, rows, m, f)
<1> DEFINE Bad == {n \in Nat : ~\E f : IsFold(loop, base, rows, n, f)}
<1> SUFFICES ASSUME m \in Bad
             PROVE  FALSE
    OBVIOUS
<1>1. PICK n \in Bad : \A j \in Bad : ~(j < n)
  <2>1. Bad \in SUBSET Nat /\ Bad # {}
    OBVIOUS
  <2> HIDE DEF Bad
  <2> QED
    BY <2>1, LeastExists
<1>2. CASE n = 0
  <2> DEFINE f == [s \in SUBSET (1..n) |-> base]
  <2>1. \A s \in SUBSET (1..n) : s = {}
    BY <1>2
  <2>2. IsFold(loop, base, rows, n, f)
    BY <2>1 DEF IsFold
  <2> QED
    BY <1>1, <2>2
<1>3. CASE n # 0
  <2>1. PICK p \in Nat : n = p + 1
    BY <1>3
  <2>2. PICK g : IsFold(loop, base, rows, p, g)
    BY <1>1, <2>1
  <2> DEFINE G(s) == IF s \in SUBSET (1..p) THEN g[s]
                     ELSE StepOf(loop, g[s \ {n}], rows[n])
             f == [s \in SUBSET (1..n) |-> G(s)]
  <2>3. ASSUME NEW s \in SUBSET (1..n)
        PROVE  G(s) = IF s = {} THEN base ELSE StepOf(loop, f[s \ {Max(s)}], rows[Max(s)])
    <3>1. CASE s \in SUBSET (1..p)
      <4>1. s \ {Max(s)} \in SUBSET (1..p) /\ s \ {Max(s)} \in SUBSET (1..n)
        BY <3>1, <2>1
      <4>2. f[s \ {Max(s)}] = g[s \ {Max(s)}]
        BY <4>1
      <4>3. g[s] = IF s = {} THEN base ELSE StepOf(loop, g[s \ {Max(s)}], rows[Max(s)])
        BY <3>1, <2>2 DEF IsFold
      <4> QED
        BY <3>1, <4>2, <4>3
    <3>2. CASE s \notin SUBSET (1..p)
      <4>1. n \in s
        BY <3>2, <2>1
      <4>2. Max(s) = n /\ s \ {n} \in SUBSET (1..p) /\ s # {}
        BY <4>1, <2>1, MaxIsLast
      <4>3. f[s \ {n}] = g[s \ {n}]
        BY <4>2, <2>1
      <4> QED
        BY <3>2, <4>2, <4>3
    <3> QED
      BY <3>1, <3>2
  <2>4. f = [s \in SUBSET (1..n) |->
                IF s = {} THEN base ELSE StepOf(loop, f[s \ {Max(s)}], rows[Max(s)])]
    BY <2>3
  <2>5. IsFold(loop, base, rows, n, f)
    BY <2>4 DEF IsFold
  <2> QED
    BY <1>1, <2>5
<1> QED
    BY <1>2, <1>3

\* A fold over 1..n takes the rows one after the other.
LEMMA FoldSteps ==
    ASSUME NEW loop, NEW base, NEW rows, NEW n \in Nat, NEW f, IsFold(loop, base, rows, n, f)
    PROVE  /\ f[1..0] = base
           /\ \A k \in 1..n : f[1..k] = StepOf(loop, f[1..(k - 1)], rows[k])
<1>1. f[1..0] = base
  <2>1. (1..0) \in SUBSET (1..n) /\ (1..0) = {}
    OBVIOUS
  <2> QED
    BY <2>1 DEF IsFold
<1>2. ASSUME NEW k \in 1..n
      PROVE  f[1..k] = StepOf(loop, f[1..(k - 1)], rows[k])
  <2>1. k - 1 \in Nat /\ (k - 1) + 1 = k
    OBVIOUS
  <2>2. (1..k) \in SUBSET (1..n) /\ k \in 1..k /\ (1..k) # {}
    OBVIOUS
  <2>3. Max(1..k) = k
    <3>1. (1..k) \in SUBSET (1..((k - 1) + 1)) /\ (k - 1) + 1 \in 1..k
      BY <2>1, <2>2
    <3> QED
      BY <3>1, <2>1, MaxIsLast
  <2>4. (1..k) \ {k} = 1..(k - 1)
    OBVIOUS
  <2>5. f[1..k] = StepOf(loop, f[(1..k) \ {Max(1..k)}], rows[Max(1..k)])
    BY <2>2 DEF IsFold
  <2> QED
    BY <2>3, <2>4, <2>5
<1> QED
    BY <1>1, <1>2

\* The loop that merges the ranges, step by step.
LEMMA MergedIsFold ==
    ASSUME NEW ranges, NEW n \in Nat, DOMAIN SortedRanges(ranges) = 1..n
    PROVE  \E f : IsFold("merge", <<>>, SortedRanges(ranges), n, f) /\ Merged(ranges) = f[1..n]
<1> DEFINE rows == SortedRanges(ranges)
           Runs(f) == f = [s \in SUBSET (1..n) |->
                              IF s = {} THEN <<>> ELSE Merge(f[s \ {Max(s)}], rows[Max(s)])]
           g == CHOOSE f : Runs(f)
<1>1. \A f : IsFold("merge", <<>>, rows, n, f) <=> Runs(f)
    BY DEF IsFold, StepOf
<1>2. \E f : Runs(f)
    BY <1>1, FoldExists
<1>3. Runs(g)
    BY <1>2
<1>4. Merged(ranges) = g[1..n]
    BY DEF Merged, FoldLeft, MapThenFoldSet
<1> QED
    BY <1>1, <1>3, <1>4

\* The loop that cuts the text, step by step.
LEMMA MaskedIsFold ==
    ASSUME NEW value, NEW ranges, NEW n \in Nat, DOMAIN Reverse(Merged(ranges)) = 1..n
    PROVE  \E f : /\ IsFold("cut", value, Reverse(Merged(ranges)), n, f)
                  /\ Masked(value, ranges) = f[1..n]
<1> DEFINE rows == Reverse(Merged(ranges))
           Runs(f) == f = [s \in SUBSET (1..n) |->
                              IF s = {} THEN value ELSE Cut(f[s \ {Max(s)}], rows[Max(s)])]
           g == CHOOSE f : Runs(f)
<1>1. \A f : IsFold("cut", value, rows, n, f) <=> Runs(f)
    BY DEF IsFold, StepOf
<1>2. \E f : Runs(f)
    BY <1>1, FoldExists
<1>3. Runs(g)
    BY <1>2
<1>4. Masked(value, ranges) = g[1..n]
    BY DEF Masked, FoldLeft, MapThenFoldSet
<1> QED
    BY <1>1, <1>3, <1>4

(***************************************************************************)
(* Sorted ranges                                                             *)
(***************************************************************************)

Ranges == Int \X Int

\* The order of tuples is total, transitive and irreflexive.
LEMMA PrecedesIsOrder ==
    ASSUME NEW a \in Ranges, NEW b \in Ranges, NEW c \in Ranges
    PROVE  /\ ~Precedes(a, a)
           /\ a = b \/ Precedes(a, b) \/ Precedes(b, a)
           /\ Precedes(a, b) /\ Precedes(b, c) => Precedes(a, c)
           /\ Precedes(a, b) => a[1] <= b[1]
BY DEF Precedes, Ranges

\* A nonempty finite set of ranges has a last one.
LEMMA LastRangeExists ==
    ASSUME NEW S \in SUBSET Ranges, IsFiniteSet(S), S # {}
    PROVE  \E m \in S : \A x \in S \ {m} : Precedes(x, m)
<1> DEFINE HasLast(T) == \E m \in T : \A x \in T \ {m} : Precedes(x, m)
           Bad == {n \in Nat : \E T \in SUBSET S : /\ Cardinality(T) = n
                                                   /\ T # {} /\ ~HasLast(T)}
<1> SUFFICES ASSUME ~HasLast(S)
             PROVE  FALSE
    OBVIOUS
<1>1. Cardinality(S) \in Bad
    BY FS_CardinalityType
<1>2. PICK n \in Bad : \A j \in Bad : ~(j < n)
  <2>1. Bad \in SUBSET Nat /\ Bad # {}
    BY <1>1
  <2> HIDE DEF Bad
  <2> QED
    BY <2>1, LeastExists
<1>3. PICK T \in SUBSET S : Cardinality(T) = n /\ T # {} /\ ~HasLast(T)
    OBVIOUS
<1>4. PICK x \in T : TRUE
    BY <1>3
<1> DEFINE U == T \ {x}
<1>5. IsFiniteSet(T) /\ IsFiniteSet(U) /\ Cardinality(U) = Cardinality(T) - 1
    BY <1>4, FS_Subset, FS_RemoveElement
<1>6. U # {}
    BY <1>3, <1>4
<1>7. HasLast(U)
  <2>1. Cardinality(U) \in Nat /\ Cardinality(U) < n
    BY <1>3, <1>5, FS_CardinalityType
  <2>2. Cardinality(U) \notin Bad
    BY <2>1, <1>2
  <2> QED
    BY <2>1, <2>2, <1>6
<1>8. PICK m \in U : \A y \in U \ {m} : Precedes(y, m)
    BY <1>7
<1>9. \A y \in T : y \in Ranges
    OBVIOUS
<1>10. CASE Precedes(m, x)
  <2>1. \A y \in T \ {x} : Precedes(y, x)
    BY <1>8, <1>9, <1>10, PrecedesIsOrder
  <2> QED
    BY <1>3, <2>1
<1>11. CASE ~Precedes(m, x)
  <2>1. Precedes(x, m)
    BY <1>8, <1>9, <1>11, PrecedesIsOrder
  <2>2. \A y \in T \ {m} : Precedes(y, m)
    BY <1>8, <2>1
  <2> QED
    BY <1>3, <1>8, <2>2
<1> QED
    BY <1>10, <1>11

\* An enumeration of the ranges in their order.
IsSorting(rows, ranges) ==
    /\ rows \in [1..Cardinality(ranges) -> ranges]
    /\ \A i, j \in DOMAIN rows : i < j => Precedes(rows[i], rows[j])

\* Every finite set of ranges can be sorted.
LEMMA SortingExists ==
    ASSUME NEW S \in SUBSET Ranges, IsFiniteSet(S)
    PROVE  \E rows : IsSorting(rows, S)
<1> DEFINE Bad == {n \in Nat : \E T \in SUBSET S : /\ Cardinality(T) = n
                                                   /\ ~\E rows : IsSorting(rows, T)}
<1> SUFFICES ASSUME ~\E rows : IsSorting(rows, S)
             PROVE  FALSE
    OBVIOUS
<1>1. Cardinality(S) \in Bad
    BY FS_CardinalityType
<1>2. PICK n \in Bad : \A j \in Bad : ~(j < n)
  <2>1. Bad \in SUBSET Nat /\ Bad # {}
    BY <1>1
  <2> HIDE DEF Bad
  <2> QED
    BY <2>1, LeastExists
<1>3. PICK T \in SUBSET S : Cardinality(T) = n /\ ~\E rows : IsSorting(rows, T)
    OBVIOUS
<1>4. IsFiniteSet(T) /\ n \in Nat
    BY FS_Subset
<1>5. CASE T = {}
  <2>1. Cardinality(T) = 0
    BY <1>5, FS_EmptySet
  <2>2. <<>> \in [1..0 -> T] /\ DOMAIN <<>> = {}
    BY <1>5
  <2>3. IsSorting(<<>>, T)
    BY <2>1, <2>2 DEF IsSorting
  <2> QED
    BY <2>3, <1>3
<1>6. CASE T # {}
  <2>1. PICK m \in T : \A x \in T \ {m} : Precedes(x, m)
    BY <1>4, <1>6, LastRangeExists
  <2> DEFINE U == T \ {m}
  <2>2. IsFiniteSet(U) /\ Cardinality(U) = n - 1
    BY <1>3, <1>4, FS_Subset, FS_RemoveElement
  <2>3. n - 1 \in Nat
    BY <2>2, FS_CardinalityType
  <2>4. \E rows : IsSorting(rows, U)
    <3>1. n - 1 \notin Bad
      BY <2>3, <1>2
    <3> QED
      BY <2>2, <2>3, <3>1
  <2>5. PICK rows : IsSorting(rows, U)
    BY <2>4
  <2> DEFINE more == [k \in 1..n |-> IF k = n THEN m ELSE rows[k]]
  <2>6. rows \in [1..(n - 1) -> U]
    BY <2>2, <2>5 DEF IsSorting
  <2>7. more \in [1..n -> T]
    <3>1. \A k \in 1..n : k # n => k \in 1..(n - 1)
      BY <2>3
    <3> QED
      BY <3>1, <2>6
  <2>8. ASSUME NEW i \in 1..n, NEW j \in 1..n, i < j
        PROVE  Precedes(more[i], more[j])
    <3>1. i \in 1..(n - 1) /\ more[i] = rows[i]
      BY <2>3, <2>8
    <3>2. CASE j = n
      BY <3>1, <3>2, <2>1, <2>6
    <3>3. CASE j # n
      <4>1. j \in 1..(n - 1) /\ more[j] = rows[j]
        BY <3>3, <2>3
      <4> QED
        BY <3>1, <4>1, <2>5, <2>6, <2>8 DEF IsSorting
    <3> QED
      BY <3>2, <3>3
  <2>9. IsSorting(more, T)
    BY <1>3, <2>7, <2>8 DEF IsSorting
  <2> QED
    BY <2>9, <1>3
<1> QED
    BY <1>5, <1>6

\* sorted(ranges) has each range once, in order.
LEMMA SortedRows ==
    ASSUME NEW S \in SUBSET Ranges, IsFiniteSet(S)
    PROVE  /\ IsSorting(SortedRanges(S), S)
           /\ Cardinality(S) \in Nat
           /\ \A r \in S : \E k \in 1..Cardinality(S) : SortedRanges(S)[k] = r
<1> DEFINE rows == SortedRanges(S)
           n == Cardinality(S)
<1>1. n \in Nat
    BY FS_CardinalityType
<1>2. IsSorting(rows, S)
  <2>1. PICK some : IsSorting(some, S)
    BY SortingExists
  <2> QED
    BY <2>1 DEF SortedRanges, IsSorting
<1> HIDE DEF rows
<1>3. rows \in [1..n -> S]
    BY <1>2 DEF IsSorting
<1>4. rows \in Injection(1..n, S)
  <2>1. \A i, j \in 1..n : rows[i] = rows[j] => i = j
    <3> SUFFICES ASSUME NEW i \in 1..n, NEW j \in 1..n, rows[i] = rows[j], i < j
                 PROVE  FALSE
      BY <1>1
    <3>1. Precedes(rows[i], rows[j])
      BY <1>2, <1>3 DEF IsSorting
    <3>2. rows[i] \in Ranges
      BY <1>3
    <3> QED
      BY <3>1, <3>2, PrecedesIsOrder
  <2> QED
    BY <2>1, <1>3 DEF Injection, IsInjective
<1>5. rows \in Surjection(1..n, S)
  <2>1. Cardinality(1..n) = n /\ IsFiniteSet(1..n)
    BY <1>1, FS_Interval
  <2> QED
    BY <2>1, <1>4, FS_Injection
<1>6. \A r \in S : \E k \in 1..n : rows[k] = r
    BY <1>5 DEF Surjection
<1> QED
    BY <1>1, <1>2, <1>6 DEF rows

(***************************************************************************)
(* Merged ranges                                                             *)
(***************************************************************************)

\* The first k elements of a sequence.
LEMMA PrefixFacts ==
    ASSUME NEW S, NEW s \in Seq(S), NEW k \in 0..Len(s)
    PROVE  /\ SubSeq(s, 1, k) \in Seq(S)
           /\ Len(SubSeq(s, 1, k)) = k
           /\ \A i \in 1..k : SubSeq(s, 1, k)[i] = s[i]
<1>1. SubSeq(s, 1, k) \in Seq(S)
    OBVIOUS
<1>2. Len(SubSeq(s, 1, k)) = k /\ \A i \in 1..k : SubSeq(s, 1, k)[i] = s[i]
    OBVIOUS
<1> QED
    BY <1>1, <1>2

\* The elements after the first k.
LEMMA SuffixFacts ==
    ASSUME NEW S, NEW s \in Seq(S), NEW k \in 0..Len(s)
    PROVE  /\ SubSeq(s, k + 1, Len(s)) \in Seq(S)
           /\ Len(SubSeq(s, k + 1, Len(s))) = Len(s) - k
           /\ \A i \in 1..(Len(s) - k) : SubSeq(s, k + 1, Len(s))[i] = s[k + i]
<1>1. SubSeq(s, k + 1, Len(s)) \in Seq(S)
    OBVIOUS
<1>2. /\ Len(SubSeq(s, k + 1, Len(s))) = Len(s) - k
      /\ \A i \in 1..(Len(s) - k) : SubSeq(s, k + 1, Len(s))[i] = s[k + i]
    OBVIOUS
<1> QED
    BY <1>1, <1>2

\* Offset p is in a range.
In(p, range) == range[1] <= p /\ p < range[2]

\* The ranges [l, r) with 0 <= l < r <= length.
RangesOf(length) ==
    {r \in Ranges : 0 <= r[1] /\ r[1] < r[2] /\ r[2] <= length}

\* What the merge loop has after k rows: ranges with gaps between them that cover
\* the offsets of those rows; the last one begins before the rows to come.
IsMerging(merged, rows, k, length) ==
    /\ merged \in Seq(RangesOf(length))
    /\ \A i, j \in 1..Len(merged) : i < j => merged[i][2] < merged[j][1]
    /\ \A p \in Int : (\E i \in 1..Len(merged) : In(p, merged[i])) <=> (\E j \in 1..k : In(p, rows[j]))
    /\ k > 0 => Len(merged) > 0 /\ merged[Len(merged)][1] <= rows[k][1]

\* A row that does not touch the last range is added.
LEMMA AddKeepsMerging ==
    ASSUME NEW length \in Nat, NEW n \in Nat, NEW rows \in [1..n -> RangesOf(length)],
           NEW k \in 1..n, NEW m, IsMerging(m, rows, k - 1, length),
           m = <<>> \/ m[Len(m)][2] < rows[k][1]
    PROVE  IsMerging(Append(m, rows[k]), rows, k, length)
<1> DEFINE r == rows[k]
           a == Append(m, r)
           L == Len(m)
<1>1. /\ m \in Seq(RangesOf(length)) /\ L \in Nat
      /\ r \in RangesOf(length)
    BY DEF IsMerging
<1>2. /\ a \in Seq(RangesOf(length)) /\ Len(a) = L + 1
      /\ a[L + 1] = r
      /\ \A i \in 1..L : a[i] = m[i]
    BY <1>1
<1> HIDE DEF a, r, L
<1>3. \A i \in 1..L : m[i][2] < r[1]
  <2> SUFFICES ASSUME NEW i \in 1..L
               PROVE  m[i][2] < r[1]
    OBVIOUS
  <2>1. m[L][2] < r[1] /\ L \in 1..L
    BY <1>1 DEF r, L
  <2>2. m[i] \in RangesOf(length) /\ m[L] \in RangesOf(length)
    BY <1>1, <2>1 DEF L
  <2>3. i = L \/ i < L
    BY <1>1
  <2>4. CASE i = L
    BY <2>1, <2>4
  <2>5. CASE i < L
    <3>1. m[i][2] < m[L][1]
      BY <2>1, <2>5 DEF IsMerging, L
    <3>2. m[i][2] \in Int /\ m[L][1] \in Int /\ m[L][2] \in Int /\ m[L][1] < m[L][2]
      BY <2>2 DEF RangesOf, Ranges
    <3>3. r[1] \in Int
      BY <1>1 DEF RangesOf, Ranges
    <3> DEFINE p == m[i][2]
               q == m[L][1]
               s == m[L][2]
               u == r[1]
    <3>4. p \in Int /\ q \in Int /\ s \in Int /\ u \in Int /\ p < q /\ q < s /\ s < u
      BY <2>1, <3>1, <3>2, <3>3
    <3> HIDE DEF p, q, s, u
    <3>5. p < u
      BY <3>4
    <3> QED
      BY <3>5 DEF p, u
  <2> QED
    BY <2>3, <2>4, <2>5
<1>4. \A i, j \in 1..(L + 1) : i < j => a[i][2] < a[j][1]
  <2> SUFFICES ASSUME NEW i \in 1..(L + 1), NEW j \in 1..(L + 1), i < j
               PROVE  a[i][2] < a[j][1]
    OBVIOUS
  <2>1. i \in 1..L
    BY <1>1
  <2>2. CASE j = L + 1
    BY <2>1, <2>2, <1>2, <1>3
  <2>3. CASE j \in 1..L
    BY <2>1, <2>3, <1>2 DEF IsMerging, L
  <2> QED
    BY <2>2, <2>3, <1>1
<1>5. ASSUME NEW p \in Int
      PROVE  (\E i \in 1..(L + 1) : In(p, a[i])) <=> (\E j \in 1..k : In(p, rows[j]))
  <2>1. (\E i \in 1..(L + 1) : In(p, a[i])) <=> (\E i \in 1..L : In(p, m[i])) \/ In(p, r)
    <3>1. L + 1 \in 1..(L + 1) /\ \A i \in 1..L : i \in 1..(L + 1)
      BY <1>1
    <3>2. \A i \in 1..(L + 1) : i = L + 1 \/ i \in 1..L
      BY <1>1
    <3> QED
      BY <3>1, <3>2, <1>2
  <2>2. (\E i \in 1..L : In(p, m[i])) <=> (\E j \in 1..(k - 1) : In(p, rows[j]))
    BY DEF IsMerging, L
  <2>3. (\E j \in 1..k : In(p, rows[j])) <=> (\E j \in 1..(k - 1) : In(p, rows[j])) \/ In(p, r)
    <3>1. k \in 1..k /\ (\A j \in 1..(k - 1) : j \in 1..k) /\ \A j \in 1..k : j = k \/ j \in 1..(k - 1)
      OBVIOUS
    <3> QED
      BY <3>1 DEF r
  <2> QED
    BY <2>1, <2>2, <2>3
<1>6. Len(a) > 0 /\ a[Len(a)][1] <= rows[k][1]
    BY <1>1, <1>2 DEF r, RangesOf, Ranges
<1>7. IsMerging(a, rows, k, length)
    BY <1>2, <1>4, <1>5, <1>6 DEF IsMerging
<1> QED
    BY <1>7 DEF a, r

\* A row that touches or overlaps the last range makes it longer.
LEMMA ExtendKeepsMerging ==
    ASSUME NEW length \in Nat, NEW n \in Nat, NEW rows \in [1..n -> RangesOf(length)],
           NEW k \in 1..n, NEW m, IsMerging(m, rows, k - 1, length),
           m # <<>>, m[Len(m)][1] <= rows[k][1], rows[k][1] <= m[Len(m)][2]
    PROVE  IsMerging(Append(Front(m), <<m[Len(m)][1], Max({rows[k][2], m[Len(m)][2]})>>),
                     rows, k, length)
<1> DEFINE r == rows[k]
           L == Len(m)
           last == m[L]
           top == Max({r[2], last[2]})
           e == <<last[1], top>>
           a == Append(Front(m), e)
<1>1. /\ m \in Seq(RangesOf(length)) /\ L \in Nat \ {0} /\ L \in 1..L
      /\ r \in RangesOf(length)
      /\ last \in RangesOf(length)
    BY DEF IsMerging
<1>2. r[1] \in Int /\ r[2] \in Int /\ last[1] \in Int /\ last[2] \in Int
    BY <1>1 DEF RangesOf, Ranges
<1>3. /\ top \in Int /\ top >= r[2] /\ top >= last[2]
      /\ top = r[2] \/ top = last[2]
  <2> HIDE DEF r, last
  <2>1. top = IF r[2] >= last[2] THEN r[2] ELSE last[2]
    BY <1>2, MaxOfTwo
  <2> QED
    BY <1>2, <2>1
<1>4. e \in RangesOf(length) /\ e[1] = last[1] /\ e[2] = top
  <2> HIDE DEF top, last, r
  <2>1. e \in Ranges /\ e[1] = last[1] /\ e[2] = top
    BY <1>2, <1>3 DEF Ranges
  <2> QED
    BY <1>1, <1>2, <1>3, <2>1 DEF RangesOf
<1>5. /\ Front(m) \in Seq(RangesOf(length)) /\ Len(Front(m)) = L - 1
      /\ \A i \in 1..(L - 1) : Front(m)[i] = m[i]
  <2> DEFINE R == RangesOf(length)
  <2>1. m \in Seq(R) /\ L - 1 \in 0..Len(m)
    BY <1>1
  <2> HIDE DEF R
  <2>2. /\ SubSeq(m, 1, L - 1) \in Seq(R)
        /\ Len(SubSeq(m, 1, L - 1)) = L - 1
        /\ \A i \in 1..(L - 1) : SubSeq(m, 1, L - 1)[i] = m[i]
    BY <2>1, PrefixFacts
  <2> QED
    BY <2>2 DEF Front, R
<1> HIDE DEF e
<1>6. /\ a \in Seq(RangesOf(length)) /\ Len(a) = L
      /\ a[L] = e
      /\ \A i \in 1..(L - 1) : a[i] = m[i]
  <2> DEFINE g == Front(m)
  <2> HIDE DEF g
  <2>1. g \in Seq(RangesOf(length)) /\ Len(g) = L - 1 /\ \A i \in 1..(L - 1) : g[i] = m[i]
    BY <1>5 DEF g
  <2>2. /\ Append(g, e) \in Seq(RangesOf(length)) /\ Len(Append(g, e)) = Len(g) + 1
        /\ Append(g, e)[Len(g) + 1] = e
        /\ \A i \in 1..Len(g) : Append(g, e)[i] = g[i]
    BY <1>4, <2>1
  <2>3. Len(g) + 1 = L
    BY <1>1, <2>1
  <2> QED
    BY <2>1, <2>2, <2>3 DEF g
<1> HIDE DEF a, top
<1>7. \A i, j \in 1..L : i < j => a[i][2] < a[j][1]
  <2> SUFFICES ASSUME NEW i \in 1..L, NEW j \in 1..L, i < j
               PROVE  a[i][2] < a[j][1]
    OBVIOUS
  <2>1. i \in 1..(L - 1) /\ a[i] = m[i] /\ m[i][2] < m[j][1]
    BY <1>1, <1>6 DEF IsMerging
  <2>2. a[j][1] = m[j][1]
    <3>1. CASE j = L
      BY <3>1, <1>4, <1>6
    <3>2. CASE j \in 1..(L - 1)
      BY <3>2, <1>6
    <3> QED
      BY <3>1, <3>2, <1>1
  <2> QED
    BY <2>1, <2>2
<1>8. ASSUME NEW p \in Int
      PROVE  (\E i \in 1..L : In(p, a[i])) <=> (\E j \in 1..k : In(p, rows[j]))
  <2>1. In(p, e) <=> In(p, last) \/ In(p, r)
    <3>1. last[1] <= r[1] /\ r[1] <= last[2]
      OBVIOUS
    <3> HIDE DEF r, last
    <3>2. /\ In(p, e) <=> last[1] <= p /\ p < top
          /\ In(p, last) <=> last[1] <= p /\ p < last[2]
          /\ In(p, r) <=> r[1] <= p /\ p < r[2]
      BY <1>4 DEF In
    <3>3. CASE p < r[1]
      <4>1. p < last[2] /\ p < top
        BY <1>2, <1>3, <3>1, <3>3
      <4>2. ~(r[1] <= p)
        BY <1>2, <3>3
      <4> QED
        BY <3>2, <4>1, <4>2
    <3>4. CASE r[1] <= p
      <4>1. last[1] <= p
        BY <1>2, <3>1, <3>4
      <4>2. p < top <=> p < last[2] \/ p < r[2]
        <5>1. CASE top = last[2]
          BY <1>2, <1>3, <5>1
        <5>2. CASE top = r[2]
          BY <1>2, <1>3, <5>2
        <5> QED
          BY <1>3, <5>1, <5>2
      <4> QED
        BY <3>2, <3>4, <4>1, <4>2
    <3>5. p < r[1] \/ r[1] <= p
      BY <1>2
    <3> QED
      BY <3>3, <3>4, <3>5
  <2>2. (\E i \in 1..L : In(p, a[i])) <=> (\E i \in 1..(L - 1) : In(p, m[i])) \/ In(p, e)
    <3>1. (\A i \in 1..(L - 1) : i \in 1..L) /\ \A i \in 1..L : i = L \/ i \in 1..(L - 1)
      BY <1>1
    <3> QED
      BY <3>1, <1>1, <1>6
  <2>3. (\E i \in 1..L : In(p, m[i])) <=> (\E i \in 1..(L - 1) : In(p, m[i])) \/ In(p, last)
    <3>1. (\A i \in 1..(L - 1) : i \in 1..L) /\ \A i \in 1..L : i = L \/ i \in 1..(L - 1)
      BY <1>1
    <3> QED
      BY <3>1, <1>1
  <2>4. (\E i \in 1..L : In(p, m[i])) <=> (\E j \in 1..(k - 1) : In(p, rows[j]))
    BY DEF IsMerging
  <2>5. (\E j \in 1..k : In(p, rows[j])) <=> (\E j \in 1..(k - 1) : In(p, rows[j])) \/ In(p, r)
    <3>1. k \in 1..k /\ (\A j \in 1..(k - 1) : j \in 1..k) /\ \A j \in 1..k : j = k \/ j \in 1..(k - 1)
      OBVIOUS
    <3> QED
      BY <3>1
  <2> QED
    BY <2>1, <2>2, <2>3, <2>4, <2>5
<1>9. Len(a) > 0 /\ a[Len(a)][1] <= rows[k][1]
    BY <1>1, <1>4, <1>6
<1>10. IsMerging(a, rows, k, length)
    BY <1>6, <1>7, <1>8, <1>9 DEF IsMerging
<1> QED
    BY <1>10 DEF a, e, top

\* Every step of the merge loop does one or the other.
LEMMA MergeKeepsMerging ==
    ASSUME NEW length \in Nat, NEW n \in Nat, NEW rows \in [1..n -> RangesOf(length)],
           \A i, j \in 1..n : i < j => Precedes(rows[i], rows[j]),
           NEW k \in 1..n, NEW m, IsMerging(m, rows, k - 1, length)
    PROVE  IsMerging(Merge(m, rows[k]), rows, k, length)
<1>1. m \in Seq(RangesOf(length))
    BY DEF IsMerging
<1>2. CASE m = <<>>
  <2>1. Merge(m, rows[k]) = Append(m, rows[k])
    BY <1>2 DEF Merge
  <2> QED
    BY <1>2, <2>1, AddKeepsMerging
<1>3. CASE m # <<>>
  <2>1. Len(m) \in 1..Len(m) /\ m[Len(m)] \in RangesOf(length) /\ rows[k] \in RangesOf(length)
    BY <1>1, <1>3
  <2>2. m[Len(m)][1] \in Int /\ m[Len(m)][2] \in Int /\ rows[k][1] \in Int
    BY <2>1 DEF RangesOf, Ranges
  <2>3. m[Len(m)][1] <= rows[k][1]
    <3>1. CASE k = 1
      <4>1. \A p \in Int : ~\E i \in 1..Len(m) : In(p, m[i])
        <5>1. (1..(k - 1)) = {}
          BY <3>1
        <5> QED
          BY <5>1 DEF IsMerging
      <4>2. In(m[Len(m)][1], m[Len(m)])
        BY <2>1, <2>2 DEF In, RangesOf
      <4> QED
        BY <4>1, <4>2, <2>1, <2>2
    <3>2. CASE k # 1
      <4>1. k - 1 \in 1..n /\ k - 1 < k /\ k - 1 > 0
        BY <3>2
      <4>2. m[Len(m)][1] <= rows[k - 1][1]
        BY <4>1 DEF IsMerging
      <4>3. rows[k - 1] \in Ranges /\ rows[k] \in Ranges
        BY <4>1 DEF RangesOf
      <4>4. rows[k - 1][1] <= rows[k][1]
        BY <4>1, <4>3, PrecedesIsOrder
      <4> QED
        BY <4>2, <4>3, <4>4, <2>2 DEF Ranges
    <3> QED
      BY <3>1, <3>2
  <2>4. CASE rows[k][1] <= m[Len(m)][2]
    <3>1. Merge(m, rows[k]) =
              Append(Front(m), <<m[Len(m)][1], Max({rows[k][2], m[Len(m)][2]})>>)
      BY <1>3, <2>4 DEF Merge, Last
    <3> QED
      BY <1>3, <2>3, <2>4, <3>1, ExtendKeepsMerging
  <2>5. CASE ~(rows[k][1] <= m[Len(m)][2])
    <3>1. Merge(m, rows[k]) = Append(m, rows[k])
      BY <1>3, <2>5 DEF Merge, Last
    <3>2. m[Len(m)][2] < rows[k][1]
      BY <2>2, <2>5
    <3> QED
      BY <3>1, <3>2, AddKeepsMerging
  <2> QED
    BY <2>4, <2>5
<1> QED
    BY <1>2, <1>3

\* The merged ranges lie apart, in order, and cover what the ranges cover.
LEMMA MergedRanges ==
    ASSUME NEW length \in Nat, NEW S \in SUBSET RangesOf(length), IsFiniteSet(S)
    PROVE  /\ Merged(S) \in Seq(RangesOf(length))
           /\ \A i, j \in 1..Len(Merged(S)) : i < j => Merged(S)[i][2] < Merged(S)[j][1]
           /\ \A p \in Int : (\E i \in 1..Len(Merged(S)) : In(p, Merged(S)[i])) <=> (\E r \in S : In(p, r))
<1> DEFINE rows == SortedRanges(S)
           n == Cardinality(S)
<1>1. S \in SUBSET Ranges
    BY DEF RangesOf
<1>2. n \in Nat /\ IsSorting(rows, S) /\ \A r \in S : \E k \in 1..n : rows[k] = r
    BY <1>1, SortedRows
<1> HIDE DEF rows, n
<1>3. rows \in [1..n -> S] /\ \A i, j \in 1..n : i < j => Precedes(rows[i], rows[j])
    BY <1>2 DEF IsSorting, n
<1>4. rows \in [1..n -> RangesOf(length)] /\ DOMAIN rows = 1..n
    BY <1>3
<1>5. PICK f : IsFold("merge", <<>>, rows, n, f) /\ Merged(S) = f[1..n]
    BY <1>2, <1>4, MergedIsFold DEF rows
<1>6. /\ f[1..0] = <<>>
      /\ \A k \in 1..n : f[1..k] = Merge(f[1..(k - 1)], rows[k])
  <2>1. n \in Nat /\ IsFold("merge", <<>>, rows, n, f)
    BY <1>2, <1>5
  <2>2. /\ f[1..0] = <<>>
        /\ \A k \in 1..n : f[1..k] = StepOf("merge", f[1..(k - 1)], rows[k])
    BY <2>1, FoldSteps
  <2> QED
    BY <2>2 DEF StepOf
<1> DEFINE Bad == {k \in 0..n : ~IsMerging(f[1..k], rows, k, length)}
<1>7. Bad = {}
  <2> SUFFICES ASSUME Bad # {}
               PROVE  FALSE
    OBVIOUS
  <2>1. PICK k \in Bad : \A j \in Bad : ~(j < k)
    <3>1. Bad \in SUBSET Nat
      BY <1>2
    <3> HIDE DEF Bad
    <3> QED
      BY <3>1, LeastExists
  <2>2. k \in 0..n /\ ~IsMerging(f[1..k], rows, k, length)
    OBVIOUS
  <2>3. CASE k = 0
    <3>1. IsMerging(<<>>, rows, 0, length)
      <4>1. <<>> \in Seq(RangesOf(length)) /\ Len(<<>>) = 0
        OBVIOUS
      <4>2. (1..0) = {}
        OBVIOUS
      <4> QED
        BY <4>1, <4>2 DEF IsMerging
    <3> QED
      BY <3>1, <2>2, <2>3, <1>6
  <2>4. CASE k # 0
    <3>1. k \in 1..n /\ k - 1 \in 0..n /\ k - 1 < k
      BY <2>2, <2>4, <1>2
    <3>2. IsMerging(f[1..(k - 1)], rows, k - 1, length)
      BY <3>1, <2>1
    <3>3. IsMerging(Merge(f[1..(k - 1)], rows[k]), rows, k, length)
      BY <3>1, <3>2, <1>2, <1>3, <1>4, MergeKeepsMerging
    <3> QED
      BY <3>1, <3>3, <2>2, <1>6
  <2> QED
    BY <2>3, <2>4
<1>8. IsMerging(Merged(S), rows, n, length)
    BY <1>2, <1>5, <1>7
<1>9. \A p \in Int : (\E j \in 1..n : In(p, rows[j])) <=> (\E r \in S : In(p, r))
    BY <1>2, <1>3
<1> QED
    BY <1>8, <1>9 DEF IsMerging

(***************************************************************************)
(* The text cut from right to left                                           *)
(***************************************************************************)

\* v is the excerpt without the offsets in cut, all of which lie behind its first
\* b characters, where nothing has been done yet.
IsMasking(v, cut, from, to, b) ==
    /\ v \in Seq(Int)
    /\ Remaining(v) = (from..(to - 1)) \ cut
    /\ Ordered(v)
    /\ Marked(v, from, cut)
    /\ Unbroken(v, from, to)
    /\ b \in 0..(to - from) /\ b <= Len(v)
    /\ \A p \in 1..b : v[p] = from + p - 1
    /\ b = to - from => Len(v) = b

\* The offsets of an excerpt that begins at from which a range covers.
Covered(from, range) == {o \in Int : In(o - from, range)}

\* Before the first cut the text is the excerpt.
LEMMA ExcerptIsMasking ==
    ASSUME NEW from \in Nat, NEW to \in Nat, from < to
    PROVE  IsMasking(Excerpt(from, to), {}, from, to, to - from)
<1> DEFINE v == Excerpt(from, to)
           n == to - from
<1>1. n \in Nat \ {0}
    OBVIOUS
<1>2. v \in Seq(Int) /\ Len(v) = n /\ DOMAIN v = 1..n /\ \A k \in 1..n : v[k] = from + k - 1
    BY <1>1 DEF Excerpt
<1> HIDE DEF v
<1>3. \A k \in 1..n : v[k] # Withheld
    BY <1>2 DEF Withheld
<1>4. Remaining(v) = from..(to - 1)
  <2>1. \A o \in from..(to - 1) : o - from + 1 \in 1..n /\ v[o - from + 1] = o
    BY <1>2
  <2>2. \A k \in 1..n : v[k] \in from..(to - 1)
    BY <1>2
  <2>3. \A o \in from..(to - 1) : o # Withheld
    BY DEF Withheld
  <2>4. ToSet(v) = {v[k] : k \in 1..n}
    BY <1>2 DEF ToSet
  <2>5. {v[k] : k \in 1..n} = from..(to - 1)
    <3> HIDE DEF n
    <3>1. \A k \in 1..n : v[k] \in from..(to - 1)
      BY <2>2
    <3>2. \A o \in from..(to - 1) : \E k \in 1..n : v[k] = o
      BY <2>1
    <3> QED
      BY <3>1, <3>2
  <2> QED
    BY <2>3, <2>4, <2>5 DEF Remaining
<1>5. Ordered(v)
    BY <1>2 DEF Ordered
<1>6. Marked(v, from, {})
    BY <1>2, <1>3 DEF Marked
<1>7. Unbroken(v, from, to)
  <2>1. \A k \in 1..n : IF k = 1 THEN v[k] = from ELSE v[k] = v[k - 1] + 1
    BY <1>2
  <2>2. v[Len(v)] = to - 1
    BY <1>1, <1>2
  <2> QED
    BY <1>2, <2>1, <2>2 DEF Unbroken
<1>8. IsMasking(v, {}, from, to, n)
    BY <1>1, <1>2, <1>4, <1>5, <1>6, <1>7 DEF IsMasking
<1> QED
    BY <1>8 DEF v

\* What is where in two sequences put together.
LEMMA ConcatFacts ==
    ASSUME NEW s \in Seq(Int), NEW t \in Seq(Int)
    PROVE  /\ s \o t \in Seq(Int)
           /\ Len(s \o t) = Len(s) + Len(t)
           /\ \A k \in 1..Len(s) : (s \o t)[k] = s[k]
           /\ \A k \in 1..Len(t) : (s \o t)[Len(s) + k] = t[k]
<1>1. s \o t \in Seq(Int)
    OBVIOUS
<1>2. Len(s \o t) = Len(s) + Len(t)
    OBVIOUS
<1>3. \A k \in 1..Len(s) : (s \o t)[k] = s[k]
    OBVIOUS
<1>4. \A k \in 1..Len(t) : (s \o t)[Len(s) + k] = t[k]
    OBVIOUS
<1> QED
    BY <1>1, <1>2, <1>3, <1>4

\* w is v with one mark instead of what is between l and r.
IsCut(w, v, l, r) ==
    /\ w \in Seq(Int)
    /\ Len(w) = l + 1 + (Len(v) - r)
    /\ \A k \in 1..l : w[k] = v[k]
    /\ w[l + 1] = Withheld
    /\ \A k \in 1..(Len(v) - r) : w[l + 1 + k] = v[r + k]

\* What is where after a cut.
LEMMA CutFacts ==
    ASSUME NEW v \in Seq(Int), NEW range, range[1] \in Nat, range[2] \in Nat,
           range[1] < range[2], range[2] <= Len(v)
    PROVE  IsCut(Cut(v, range), v, range[1], range[2])
<1>a. PICK l \in Nat, r \in Nat : l = range[1] /\ r = range[2] /\ l < r /\ r <= Len(v)
    OBVIOUS
<1> DEFINE a == SubSeq(v, 1, l)
           c == SubSeq(v, r + 1, Len(v))
           d == a \o <<Withheld>>
           N == Len(v)
<1>0. N \in Nat /\ N - r \in Nat
    BY <1>a
<1>1. a \in Seq(Int) /\ Len(a) = l /\ \A k \in 1..l : a[k] = v[k]
    BY <1>a, PrefixFacts
<1>2. c \in Seq(Int) /\ Len(c) = N - r /\ \A k \in 1..(N - r) : c[k] = v[r + k]
  <2>1. r \in 0..Len(v)
    BY <1>a
  <2> QED
    BY <2>1, SuffixFacts
<1>3. <<Withheld>> \in Seq(Int) /\ Len(<<Withheld>>) = 1 /\ <<Withheld>>[1] = Withheld
    BY DEF Withheld
<1> HIDE DEF a, c, N
<1>4. /\ d \in Seq(Int) /\ Len(d) = l + 1
      /\ \A k \in 1..l : d[k] = v[k]
      /\ d[l + 1] = Withheld
  <2> DEFINE one == <<Withheld>>
  <2>1. one \in Seq(Int) /\ Len(one) = 1 /\ one[1] = Withheld /\ 1 \in 1..1
    BY <1>3
  <2> HIDE DEF one
  <2>2. /\ a \o one \in Seq(Int)
        /\ Len(a \o one) = Len(a) + Len(one)
        /\ \A k \in 1..Len(a) : (a \o one)[k] = a[k]
        /\ \A k \in 1..Len(one) : (a \o one)[Len(a) + k] = one[k]
    BY <1>1, <2>1, ConcatFacts
  <2> QED
    BY <1>1, <2>1, <2>2 DEF one
<1> HIDE DEF d
<1>5. /\ d \o c \in Seq(Int) /\ Len(d \o c) = l + 1 + (N - r)
      /\ \A k \in 1..(l + 1) : (d \o c)[k] = d[k]
      /\ \A k \in 1..(N - r) : (d \o c)[l + 1 + k] = c[k]
  <2>1. /\ d \o c \in Seq(Int)
        /\ Len(d \o c) = Len(d) + Len(c)
        /\ \A k \in 1..Len(d) : (d \o c)[k] = d[k]
        /\ \A k \in 1..Len(c) : (d \o c)[Len(d) + k] = c[k]
    BY <1>2, <1>4, ConcatFacts
  <2>2. Len(d) = l + 1 /\ Len(c) = N - r
    BY <1>2, <1>4
  <2> QED
    BY <2>1, <2>2
<1>6. Cut(v, range) = d \o c
    BY <1>a DEF Cut, d, a, c
<1>7. /\ \A k \in 1..l : (d \o c)[k] = v[k]
      /\ (d \o c)[l + 1] = Withheld
      /\ \A k \in 1..(N - r) : (d \o c)[l + 1 + k] = v[r + k]
  <2> DEFINE e == d \o c
  <2>1. /\ \A k \in 1..(l + 1) : e[k] = d[k]
        /\ \A k \in 1..(N - r) : e[l + 1 + k] = c[k]
    BY <1>5
  <2> HIDE DEF e
  <2>2. l + 1 \in 1..(l + 1) /\ \A k \in 1..l : k \in 1..(l + 1)
    OBVIOUS
  <2>3. (\A k \in 1..l : e[k] = v[k]) /\ e[l + 1] = Withheld
    BY <1>4, <2>1, <2>2
  <2>4. \A k \in 1..(N - r) : e[l + 1 + k] = v[r + k]
    BY <1>2, <2>1
  <2> QED
    BY <2>3, <2>4 DEF e
<1> QED
    BY <1>a, <1>5, <1>6, <1>7 DEF N, IsCut

\* A cut to the left of all others removes its range and nothing else.
LEMMA CutKeepsMasking ==
    ASSUME NEW from \in Nat, NEW to \in Nat, from < to,
           NEW v, NEW cut \in SUBSET Int, NEW b, IsMasking(v, cut, from, to, b),
           NEW range \in RangesOf(to - from), range[2] < b \/ b = to - from
    PROVE  IsMasking(Cut(v, range), cut \cup Covered(from, range), from, to, range[1])
<1> DEFINE l == range[1]
           r == range[2]
           w == Cut(v, range)
           N == Len(v)
           n == to - from
           more == cut \cup Covered(from, range)
           src(k) == IF k <= l THEN k ELSE k - l - 1 + r
<1>1. /\ v \in Seq(Int) /\ DOMAIN v = 1..N
      /\ \A p \in 1..b : v[p] = from + p - 1
    BY DEF IsMasking
<1>2. /\ N \in Nat /\ n \in Nat /\ b \in Nat /\ b <= n /\ b <= N /\ (b = n => N = b)
      /\ l \in Nat /\ r \in Nat /\ l < r /\ r <= n /\ r <= b /\ r <= N
      /\ r < b \/ b = n
  <2>1. l \in Nat /\ r \in Nat /\ l < r /\ r <= n
    BY DEF RangesOf, Ranges
  <2>2. N \in Nat /\ n \in Nat /\ b \in Nat /\ b <= n /\ b <= N /\ (b = n => N = b)
    BY DEF IsMasking
  <2>3. r < b \/ b = n
    OBVIOUS
  <2> HIDE DEF N, n, l, r
  <2> QED
    BY <2>1, <2>2, <2>3
<1> DEFINE M == l + 1 + (N - r)
<1>3. /\ w \in Seq(Int) /\ Len(w) = M /\ DOMAIN w = 1..M
      /\ \A k \in 1..l : w[k] = v[k]
      /\ w[l + 1] = Withheld
      /\ \A k \in 1..(N - r) : w[l + 1 + k] = v[r + k]
  <2>1. r <= Len(v)
    BY <1>2
  <2>2. /\ w \in Seq(Int) /\ Len(w) = M
        /\ \A k \in 1..l : w[k] = v[k]
        /\ w[l + 1] = Withheld
        /\ \A k \in 1..(N - r) : w[l + 1 + k] = v[r + k]
    <3>1. v \in Seq(Int) /\ range[1] \in Nat /\ range[2] \in Nat /\ range[1] < range[2]
          /\ range[2] <= Len(v)
      BY <1>1, <1>2, <2>1
    <3>2. IsCut(Cut(v, range), v, range[1], range[2])
      BY <3>1, CutFacts
    <3> QED
      BY <3>2 DEF IsCut
  <2> QED
    BY <2>2
<1> HIDE DEF w, l, r, N, n
<1>4. M \in Nat /\ l + 1 \in 1..M
    BY <1>2
<1>5. ASSUME NEW k \in 1..M, k # l + 1
      PROVE  src(k) \in 1..N /\ w[k] = v[src(k)]
  <2>1. CASE k <= l
    <3>1. k \in 1..l /\ src(k) = k /\ k \in 1..N
      BY <1>2, <2>1
    <3> QED
      BY <1>3, <3>1
  <2>2. CASE ~(k <= l)
    <3> DEFINE q == k - l - 1
    <3>1. q \in 1..(N - r) /\ l + 1 + q = k /\ r + q = src(k) /\ src(k) \in 1..N
      BY <1>2, <1>5, <2>2
    <3> HIDE DEF q
    <3>2. w[l + 1 + q] = v[r + q]
      BY <1>3, <3>1
    <3> QED
      BY <3>1, <3>2
  <2> QED
    BY <2>1, <2>2
<1>6. \A j, k \in 1..M : j < k /\ j # l + 1 /\ k # l + 1 => src(j) < src(k)
    BY <1>2
<1>7. \A p \in 1..b : v[p] # Withheld
    BY <1>1 DEF Withheld
<1>8. r + 1 <= N => v[r + 1] # Withheld
  <2>1. r + 1 <= N => r + 1 \in 1..b
    BY <1>2
  <2> QED
    BY <1>7, <2>1
<1>9. ASSUME NEW p \in 1..N, v[p] # Withheld
      PROVE  In(v[p] - from, range) <=> l < p /\ p <= r
  <2>1. v[p] \in Int
    BY <1>1 DEF N
  <2>2. CASE p <= r
    <3>1. p \in 1..b /\ v[p] = from + p - 1
      BY <1>1, <1>2, <2>2
    <3> QED
      BY <1>2, <2>2, <3>1 DEF In, l, r
  <2>3. CASE ~(p <= r)
    <3>1. r \in 1..N /\ r < p /\ v[r] = from + r - 1 /\ v[r] # Withheld
      BY <1>1, <1>2, <1>7, <2>3
    <3>2. v[r] < v[p]
      BY <1>1, <1>9, <3>1 DEF IsMasking, Ordered
    <3> QED
      BY <1>2, <2>1, <2>3, <3>1, <3>2 DEF In, l, r
  <2> QED
    BY <2>2, <2>3
<1>10. Remaining(w) = (from..(to - 1)) \ more
  <2>1. \A o : o \in Remaining(v) <=> \E p \in 1..N : o = v[p] /\ v[p] # Withheld
    BY <1>1 DEF Remaining, ToSet
  <2>2. \A o : o \in Remaining(w) <=> \E k \in 1..M : o = w[k] /\ w[k] # Withheld
    BY <1>3 DEF Remaining, ToSet
  <2>3. ASSUME NEW o \in Remaining(w)
        PROVE  o \in Remaining(v) /\ ~In(o - from, range)
    <3>1. PICK k \in 1..M : o = w[k] /\ w[k] # Withheld
      BY <2>2
    <3>2. k # l + 1
      BY <1>3, <3>1
    <3>3. src(k) \in 1..N /\ o = v[src(k)] /\ v[src(k)] # Withheld
      BY <1>5, <3>1, <3>2
    <3>4. ~(l < src(k) /\ src(k) <= r)
      BY <1>2, <3>2
    <3> QED
      BY <1>9, <2>1, <3>3, <3>4
  <2>4. ASSUME NEW o \in Remaining(v), ~In(o - from, range)
        PROVE  o \in Remaining(w)
    <3>1. PICK p \in 1..N : o = v[p] /\ v[p] # Withheld
      BY <2>1
    <3>2. p <= l \/ r < p
      BY <1>2, <1>9, <2>4, <3>1
    <3> DEFINE k == IF p <= l THEN p ELSE p - r + l + 1
    <3>3. k \in 1..M /\ k # l + 1 /\ src(k) = p
      BY <1>1, <1>2, <3>2
    <3> QED
      BY <1>5, <2>2, <3>1, <3>3
  <2>5. Remaining(v) = (from..(to - 1)) \ cut
    BY DEF IsMasking
  <2>6. \A o \in from..(to - 1) : o \in Covered(from, range) <=> In(o - from, range)
    BY DEF Covered
  <2> QED
    BY <2>3, <2>4, <2>5, <2>6
<1>11. Ordered(w)
  <2> SUFFICES ASSUME NEW j \in 1..M, NEW k \in 1..M, j < k, w[j] # Withheld, w[k] # Withheld
               PROVE  w[j] < w[k]
    BY <1>3 DEF Ordered
  <2>1. j # l + 1 /\ k # l + 1
    BY <1>3
  <2>2. src(j) \in 1..N /\ w[j] = v[src(j)] /\ src(k) \in 1..N /\ w[k] = v[src(k)]
    BY <1>5, <2>1
  <2>3. src(j) < src(k)
    BY <1>6, <2>1
  <2> QED
    BY <1>1, <2>2, <2>3 DEF IsMasking, Ordered
<1>12. Marked(w, from, more)
  <2> SUFFICES ASSUME NEW k \in 1..M, w[k] = Withheld
               PROVE  IF k = 1 THEN from \in more
                      ELSE w[k - 1] # Withheld /\ w[k - 1] + 1 \in more
    BY <1>3 DEF Marked
  <2>1. CASE k = l + 1
    <3>1. from + l \in more
      BY <1>2 DEF Covered, In, l, r
    <3>2. CASE l = 0
      BY <1>2, <2>1, <3>1, <3>2
    <3>3. CASE l # 0
      <4>1. l \in 1..l /\ l \in 1..b /\ k # 1 /\ k - 1 = l
        BY <1>1, <1>2, <2>1, <3>3
      <4>2. w[l] = from + l - 1 /\ w[l] # Withheld
        BY <1>1, <1>3, <1>7, <4>1
      <4>3. w[l] + 1 = from + l
        BY <1>2, <4>2
      <4> QED
        BY <3>1, <4>1, <4>2, <4>3
    <3> QED
      BY <3>2, <3>3
  <2>2. CASE k <= l
    <3>1. k \in 1..l /\ k \in 1..b
      BY <1>1, <1>2, <2>2
    <3> QED
      BY <1>3, <1>7, <3>1
  <2>3. CASE l + 1 < k
    <3>1. k # l + 1 /\ src(k) \in 1..N /\ v[src(k)] = Withheld /\ src(k) > r
      BY <1>2, <1>5, <2>3
    <3>2. src(k) # 1 /\ src(k) # r + 1
      BY <1>2, <1>8, <3>1
    <3>3. k - 1 \in 1..M /\ k - 1 # l + 1 /\ src(k - 1) = src(k) - 1 /\ k # 1
      <4>1. k # l + 2
        BY <1>2, <3>2
      <4> QED
        BY <1>2, <2>3, <4>1
    <3>4. w[k - 1] = v[src(k) - 1]
      BY <1>5, <3>3
    <3>5. v[src(k) - 1] # Withheld /\ v[src(k) - 1] + 1 \in cut
      BY <1>1, <3>1, <3>2 DEF IsMasking, Marked
    <3> QED
      BY <3>3, <3>4, <3>5
  <2> QED
    BY <2>1, <2>2, <2>3, <1>2
<1>13. Unbroken(w, from, to)
  <2>1. ASSUME NEW k \in 1..M, w[k] # Withheld
        PROVE  IF k = 1 THEN w[k] = from ELSE w[k - 1] = Withheld \/ w[k] = w[k - 1] + 1
    <3>1. k # l + 1
      BY <1>3, <2>1
    <3>2. CASE k <= l
      <4>1. k \in 1..l /\ k \in 1..b /\ (k # 1 => k - 1 \in 1..l /\ k - 1 \in 1..b)
        BY <1>1, <1>2, <3>2
      <4>2. w[k] = from + k - 1 /\ (k # 1 => w[k - 1] = from + (k - 1) - 1)
        BY <1>1, <1>3, <4>1
      <4> QED
        BY <4>2
    <3>3. CASE k = l + 2
      BY <1>2, <1>3, <3>3
    <3>4. CASE l + 2 < k
      <4>1. src(k) \in 1..N /\ w[k] = v[src(k)] /\ src(k) # 1
        BY <1>2, <1>5, <3>1, <3>4
      <4>2. k - 1 \in 1..M /\ k - 1 # l + 1 /\ src(k - 1) = src(k) - 1 /\ k # 1
        BY <1>2, <3>4
      <4>3. w[k - 1] = v[src(k) - 1]
        BY <1>5, <4>2
      <4>4. v[src(k) - 1] = Withheld \/ v[src(k)] = v[src(k) - 1] + 1
        BY <1>1, <2>1, <4>1 DEF IsMasking, Unbroken
      <4> QED
        BY <4>1, <4>2, <4>3, <4>4
    <3> QED
      BY <3>1, <3>2, <3>3, <3>4, <1>2
  <2>2. w[M] \in {Withheld, to - 1}
    <3>1. CASE M = l + 1
      BY <1>3, <3>1
    <3>2. CASE M # l + 1
      <4>1. src(M) = N /\ M \in 1..M
        BY <1>1, <1>2, <1>4, <3>2
      <4>2. w[M] = v[N]
        BY <1>5, <3>2, <4>1
      <4> QED
        BY <1>1, <4>2 DEF IsMasking, Unbroken, N
    <3> QED
      BY <3>1, <3>2
  <2> QED
    BY <1>3, <2>1, <2>2 DEF Unbroken
<1>14. /\ l \in 0..n /\ l <= M
       /\ \A p \in 1..l : w[p] = from + p - 1
       /\ l # n
  <2>1. \A p \in 1..l : p \in 1..b
    BY <1>2
  <2>2. l \in 0..n /\ l <= M /\ l # n
    BY <1>2
  <2> QED
    BY <1>1, <1>3, <2>1, <2>2
<1>15. IsMasking(w, more, from, to, l)
    BY <1>3, <1>10, <1>11, <1>12, <1>13, <1>14 DEF IsMasking, n
<1> QED
    BY <1>15 DEF w, l

\* The offsets that the first k of some ranges cover.
CutBy(rows, k, from) == {o \in Int : \E j \in 1..k : In(o - from, rows[j])}

\* The masked text is the excerpt without the covered offsets, in order, with one
\* marker for every stretch of them.
LEMMA MaskedFacts ==
    ASSUME NEW from \in Nat, NEW to \in Nat, from < to,
           NEW S \in SUBSET RangesOf(to - from), IsFiniteSet(S),
           NEW denied, denied = {o \in Int : \E r \in S : In(o - from, r)}
    PROVE  LET text == Masked(Excerpt(from, to), S) IN
           /\ Remaining(text) = (from..(to - 1)) \ denied
           /\ Ordered(text)
           /\ Marked(text, from, denied)
           /\ Unbroken(text, from, to)
<1> DEFINE m == Merged(S)
           K == Len(m)
           rows == Reverse(m)
           n == to - from
           b(k) == IF k = 0 THEN n ELSE rows[k][1]
<1>1. n \in Nat
    OBVIOUS
<1>2. /\ m \in Seq(RangesOf(n)) /\ K \in Nat
      /\ \A i, j \in 1..K : i < j => m[i][2] < m[j][1]
      /\ \A p \in Int : (\E i \in 1..K : In(p, m[i])) <=> (\E r \in S : In(p, r))
    BY <1>1, MergedRanges
<1>3. /\ DOMAIN rows = 1..K
      /\ \A k \in 1..K : rows[k] = m[K - k + 1]
    BY <1>2 DEF Reverse
<1>4. \A k \in 1..K : K - k + 1 \in 1..K /\ rows[k] \in RangesOf(n)
    BY <1>2, <1>3
<1>5. PICK f : IsFold("cut", Excerpt(from, to), rows, K, f) /\ Masked(Excerpt(from, to), S) = f[1..K]
  <2> DEFINE text == Excerpt(from, to)
  <2>1. K \in Nat /\ DOMAIN Reverse(Merged(S)) = 1..K
    BY <1>2, <1>3
  <2> HIDE DEF K, text
  <2>2. \E f : IsFold("cut", text, Reverse(Merged(S)), K, f) /\ Masked(text, S) = f[1..K]
    BY <2>1, MaskedIsFold
  <2> QED
    BY <2>2 DEF text
<1> HIDE DEF rows, K, m, n
<1>6. /\ f[1..0] = Excerpt(from, to)
      /\ \A k \in 1..K : f[1..k] = Cut(f[1..(k - 1)], rows[k])
  <2>1. /\ f[1..0] = Excerpt(from, to)
        /\ \A k \in 1..K : f[1..k] = StepOf("cut", f[1..(k - 1)], rows[k])
    <3> DEFINE text == Excerpt(from, to)
    <3>1. K \in Nat /\ IsFold("cut", text, rows, K, f)
      BY <1>2, <1>5
    <3> HIDE DEF text
    <3>2. ASSUME NEW N \in Nat, NEW lines, IsFold("cut", text, lines, N, f)
          PROVE  /\ f[1..0] = text
                 /\ \A k \in 1..N : f[1..k] = StepOf("cut", f[1..(k - 1)], lines[k])
      BY <3>2, FoldSteps
    <3>3. /\ f[1..0] = text
          /\ \A k \in 1..K : f[1..k] = StepOf("cut", f[1..(k - 1)], rows[k])
      BY <3>1, <3>2
    <3> QED
      BY <3>3 DEF text
  <2> QED
    BY <2>1 DEF StepOf
<1>7. \A k \in 1..K : k # 1 => rows[k][2] < rows[k - 1][1]
  <2> SUFFICES ASSUME NEW k \in 1..K, k # 1
               PROVE  rows[k][2] < rows[k - 1][1]
    OBVIOUS
  <2>1. k - 1 \in 1..K /\ K - k + 1 \in 1..K /\ K - (k - 1) + 1 \in 1..K
        /\ K - k + 1 < K - (k - 1) + 1
    BY <1>2
  <2> QED
    BY <1>2, <1>3, <2>1
<1> DEFINE Bad == {k \in 0..K : ~IsMasking(f[1..k], CutBy(rows, k, from), from, to, b(k))}
<1>8. Bad = {}
  <2> SUFFICES ASSUME Bad # {}
               PROVE  FALSE
    OBVIOUS
  <2>1. PICK k \in Bad : \A j \in Bad : ~(j < k)
    <3>1. Bad \in SUBSET Nat
      BY <1>2
    <3> HIDE DEF Bad
    <3> QED
      BY <3>1, LeastExists
  <2>2. k \in 0..K /\ ~IsMasking(f[1..k], CutBy(rows, k, from), from, to, b(k))
    OBVIOUS
  <2>3. CASE k = 0
    <3>1. CutBy(rows, 0, from) = {}
      BY DEF CutBy
    <3>2. IsMasking(Excerpt(from, to), {}, from, to, n)
      BY ExcerptIsMasking DEF n
    <3> QED
      BY <2>2, <2>3, <1>6, <3>1, <3>2
  <2>4. CASE k # 0
    <3>1. k \in 1..K /\ k - 1 \in 0..K /\ k - 1 < k
      BY <2>2, <2>4, <1>2
    <3>2. IsMasking(f[1..(k - 1)], CutBy(rows, k - 1, from), from, to, b(k - 1))
      BY <3>1, <2>1
    <3>3. rows[k] \in RangesOf(to - from) /\ (rows[k][2] < b(k - 1) \/ b(k - 1) = to - from)
      <4>1. CASE k = 1
        BY <1>4, <3>1, <4>1 DEF n
      <4>2. CASE k # 1
        BY <1>4, <1>7, <3>1, <4>2 DEF n
      <4> QED
        BY <4>1, <4>2
    <3>4. CutBy(rows, k - 1, from) \in SUBSET Int
      BY DEF CutBy
    <3> DEFINE v == f[1..(k - 1)]
               cut == CutBy(rows, k - 1, from)
               c == b(k - 1)
               range == rows[k]
    <3>5. IsMasking(Cut(v, range), cut \cup Covered(from, range), from, to, range[1])
      <4>1. /\ cut \in SUBSET Int /\ IsMasking(v, cut, from, to, c)
            /\ range \in RangesOf(to - from) /\ (range[2] < c \/ c = to - from)
        BY <3>2, <3>3, <3>4
      <4> HIDE DEF v, cut, c, range
      <4> QED
        BY <4>1, CutKeepsMasking
    <3>6. CutBy(rows, k - 1, from) \cup Covered(from, rows[k]) = CutBy(rows, k, from)
      <4>1. k \in 1..k /\ (\A j \in 1..(k - 1) : j \in 1..k) /\ \A j \in 1..k : j = k \/ j \in 1..(k - 1)
        BY <3>1, <1>2
      <4> QED
        BY <4>1 DEF CutBy, Covered
    <3>7. f[1..k] = Cut(f[1..(k - 1)], rows[k]) /\ b(k) = rows[k][1]
      BY <3>1, <1>6, <2>4
    <3> QED
      BY <2>2, <3>5, <3>6, <3>7
  <2> QED
    BY <2>3, <2>4
<1>9. IsMasking(f[1..K], CutBy(rows, K, from), from, to, b(K))
    BY <1>2, <1>8
<1>10. CutBy(rows, K, from) = denied
  <2>1. \A p \in Int : (\E j \in 1..K : In(p, rows[j])) <=> (\E i \in 1..K : In(p, m[i]))
    <3>1. \A i \in 1..K : K - i + 1 \in 1..K /\ rows[K - i + 1] = m[i]
      <4> SUFFICES ASSUME NEW i \in 1..K
                   PROVE  K - i + 1 \in 1..K /\ rows[K - i + 1] = m[i]
        OBVIOUS
      <4>1. K - i + 1 \in 1..K /\ K - (K - i + 1) + 1 = i
        BY <1>2
      <4> QED
        BY <1>3, <4>1
    <3> QED
      BY <1>3, <1>4, <3>1
  <2>2. \A o \in Int : o - from \in Int
    OBVIOUS
  <2> QED
    BY <1>2, <2>1, <2>2 DEF CutBy
<1> QED
    BY <1>5, <1>9, <1>10 DEF IsMasking

(***************************************************************************)
(* The invariant of the review                                               *)
(***************************************************************************)

TypeOK ==
    /\ input \in Input
    /\ vetoes \in Seq(SUBSET {"permission_veto", "deletion_veto", "tombstone"})
    /\ Len(vetoes) <= Len(Claims)
    /\ released \in Nat
    /\ next \in 0..Len(Claims)
    /\ pc \in {"critic", "boundary", "answer", "done"}

\* The critic has judged each claim by the projection, and all before the boundary.
VetoesAreReasons ==
    /\ \A i \in 1..Len(vetoes) : vetoes[i] = Reasons(Claims[i])
    /\ pc # "critic" => Len(vetoes) = Len(Claims)

\* What the boundary makes of claim i: its text, with or without markers; whether
\* it is released; whether it is listed as blocked, in whole or in part.
Out(i) == IF DeniedRanges(i) = {} THEN Text(i) ELSE MaskedText(i)
Open(i) == ~Denied(i) /\ (DeniedRanges(i) = {} \/ ~MaskedAway(i))
Listed(i) == Denied(i) \/ DeniedRanges(i) # {}
Why(i) == IF Denied(i) THEN vetoes[i] ELSE {"overlap"}

\* The first n claims at the boundary.
Allowed(n) == {[claim |-> i, text |-> Out(i)] : i \in {i \in 1..n : Open(i)}}
Refused(n) == {[claim |-> i, reasons |-> Why(i)] : i \in {i \in 1..n : Listed(i)}}

\* All requested fields are blocked: nothing is released.
AllBlocked == BlockedRequested # {} /\ released = 0

\* Safe evidence and blocked entries are what the claims handled so far make of
\* them, whole after the last one.
BoundaryFollowsLedger ==
    /\ blocked = Refused(next)
    /\ safe = IF pc \in {"answer", "done"} /\ AllBlocked THEN {} ELSE Allowed(next)
    /\ released > 0 <=> \E i \in 1..next : Open(i) /\ Claims[i].requested
    /\ pc = "critic" => next = 0
    /\ pc \in {"answer", "done"} => next = Len(Claims)

\* The action says whether the evidence is empty and whether it is complete.
ActionFollowsEvidence ==
    /\ action # "none" => pc = "done"
    /\ action = "answer" => BlockedRequested = {}
    /\ action = "answer_redacted" => safe # {} /\ BlockedRequested # {}
    /\ action = "no_memory" => DeletionBlocked \/ BlockedRequested = {}

IInv ==
    /\ TypeOK
    /\ VetoesAreReasons
    /\ BoundaryFollowsLedger
    /\ ActionFollowsEvidence

\* Reviewed claims lie in their sources.
LEMMA ClaimFacts ==
    ASSUME TypeOK, NEW i \in Indices
    PROVE  /\ Claims[i] \in Claim
           /\ Claims[i].from \in Nat /\ Claims[i].to \in Nat /\ Claims[i].from < Claims[i].to
<1>1. Length \in Nat
    BY InputsAssumption
<1>2. Claims \in Seq(Claim)
    BY DEF TypeOK, Input, Claims
<1>3. Claims[i] \in Claim
    BY <1>2 DEF Indices
<1> DEFINE c == Claims[i]
<1>4. c \in Claim
    BY <1>3
<1> HIDE DEF c
<1>5. c.from \in 0..Length /\ c.to \in 0..Length /\ c.from < c.to
    BY <1>4 DEF Claim
<1>6. c.from \in Nat /\ c.to \in Nat
    BY <1>1, <1>5
<1> QED
    BY <1>4, <1>5, <1>6 DEF c

\* The image of a finite set is finite.
LEMMA ImageIsFinite ==
    ASSUME NEW S, IsFiniteSet(S), NEW f, S \subseteq DOMAIN f
    PROVE  IsFiniteSet({f[x] : x \in S})
<1> DEFINE T == {f[x] : x \in S}
           g == [x \in S |-> f[x]]
<1>1. g \in Surjection(S, T)
    BY DEF Surjection
<1> QED
    BY <1>1, FS_Surjection

\* The common part of two excerpts, if there is one.
LEMMA OverlapFacts ==
    ASSUME NEW from \in Nat, NEW to \in Nat, from < to,
           NEW left \in Nat, NEW right \in Nat, left < right
    PROVE  /\ Overlaps(from, to, left, right) =>
                  Overlap(from, to, left, right) \in RangesOf(to - from)
           /\ \A o \in from..(to - 1) :
                  In(o - from, Overlap(from, to, left, right)) <=> o \in left..(right - 1)
           /\ (\E o \in from..(to - 1) : o \in left..(right - 1)) => Overlaps(from, to, left, right)
<1> DEFINE a == Max({from, left})
           b == Min({to, right})
           r == Overlap(from, to, left, right)
<1>1. a = (IF from >= left THEN from ELSE left) /\ b = IF to <= right THEN to ELSE right
    BY MaxOfTwo, MinOfTwo
<1>2. /\ a \in Nat /\ b \in Nat /\ from <= a /\ left <= a /\ b <= to /\ b <= right
      /\ a = from \/ a = left
      /\ b = to \/ b = right
    BY <1>1
<1>3. r = <<a - from, b - from>> /\ (Overlaps(from, to, left, right) <=> a < b)
    BY DEF Overlap, Overlaps
<1> HIDE DEF a, b, r
<1>4. r[1] = a - from /\ r[2] = b - from /\ (r \in Ranges)
    BY <1>2, <1>3 DEF Ranges
<1>5. a < b => r \in RangesOf(to - from)
    BY <1>2, <1>4 DEF RangesOf
<1>6. \A o \in from..(to - 1) : In(o - from, r) <=> o \in left..(right - 1)
    BY <1>2, <1>4 DEF In
<1>7. (\E o \in from..(to - 1) : o \in left..(right - 1)) => a < b
    BY <1>2
<1> QED
    BY <1>3, <1>5, <1>6, <1>7 DEF r

\* The ranges cut from a claim are the denied offsets of its source that lie in it.
LEMMA RangePoints ==
    ASSUME TypeOK, NEW i \in Indices
    PROVE  /\ DeniedRanges(i) \in SUBSET RangesOf(Claims[i].to - Claims[i].from)
           /\ IsFiniteSet(DeniedRanges(i))
           /\ \A o \in Span(Claims[i]) :
                 (\E r \in DeniedRanges(i) : In(o - Claims[i].from, r))
                     <=> o \in DeniedOffsets(Claims[i].source)
<1> DEFINE c == Claims[i]
           of(j) == Overlap(c.from, c.to, Claims[j].from, Claims[j].to)
           meets(j) == Overlaps(c.from, c.to, Claims[j].from, Claims[j].to)
           J == {j \in Indices : Denied(j) /\ Claims[j].source = c.source /\ meets(j)}
<1>1. DeniedRanges(i) = {of(j) : j \in J}
    BY DEF DeniedRanges
<1>2. ASSUME NEW j \in Indices
      PROVE  /\ meets(j) => of(j) \in RangesOf(c.to - c.from)
             /\ \A o \in Span(c) : In(o - c.from, of(j)) <=> o \in Span(Claims[j])
             /\ (\E o \in Span(c) : o \in Span(Claims[j])) => meets(j)
  <2>1. /\ c.from \in Nat /\ c.to \in Nat /\ c.from < c.to
        /\ Claims[j].from \in Nat /\ Claims[j].to \in Nat /\ Claims[j].from < Claims[j].to
    BY ClaimFacts
  <2> QED
    BY <2>1, OverlapFacts DEF Span
<1>3. IsFiniteSet({of(j) : j \in J})
  <2> DEFINE f == [j \in J |-> of(j)]
  <2>1. Len(Claims) \in Nat
    BY DEF TypeOK, Input, Claims
  <2>2. IsFiniteSet(J)
    <3>1. IsFiniteSet(Indices)
      BY <2>1, FS_Interval DEF Indices
    <3>2. J \subseteq Indices
      OBVIOUS
    <3> HIDE DEF J
    <3> QED
      BY <3>1, <3>2, FS_Subset
  <2>3. IsFiniteSet({f[j] : j \in J})
    <3>1. J \subseteq DOMAIN f
      OBVIOUS
    <3> HIDE DEF f, J
    <3> QED
      BY <2>2, <3>1, ImageIsFinite
  <2>4. {f[j] : j \in J} = {of(j) : j \in J}
    OBVIOUS
  <2> QED
    BY <2>3, <2>4
<1>4. ASSUME NEW o \in Span(c)
      PROVE  (\E r \in DeniedRanges(i) : In(o - c.from, r)) <=> o \in DeniedOffsets(c.source)
  <2>1. o \in DeniedOffsets(c.source)
            <=> \E j \in Indices : Denied(j) /\ Claims[j].source = c.source /\ o \in Span(Claims[j])
    BY DEF DeniedOffsets
  <2>2. (\E r \in DeniedRanges(i) : In(o - c.from, r)) <=> \E j \in J : In(o - c.from, of(j))
    BY <1>1
  <2> HIDE DEF c, of, meets
  <2> QED
    BY <1>2, <2>1, <2>2
<1> QED
    BY <1>1, <1>2, <1>3, <1>4

\* What a claim releases is its excerpt without the denied offsets of its source.
LEMMA OutFacts ==
    ASSUME TypeOK, NEW i \in Indices
    PROVE  LET c == Claims[i]
               denied == DeniedOffsets(c.source)
           IN  /\ Remaining(Out(i)) = Span(c) \ denied
               /\ Ordered(Out(i))
               /\ Marked(Out(i), c.from, denied)
               /\ Unbroken(Out(i), c.from, c.to)
<1> DEFINE c == Claims[i]
           denied == DeniedOffsets(c.source)
           D == DeniedRanges(i)
           cut == {o \in Int : \E r \in D : In(o - c.from, r)}
<1>1. c.from \in Nat /\ c.to \in Nat /\ c.from < c.to
    BY ClaimFacts
<1>2. /\ D \in SUBSET RangesOf(c.to - c.from) /\ IsFiniteSet(D)
      /\ \A o \in Span(c) : (\E r \in D : In(o - c.from, r)) <=> o \in denied
    BY RangePoints
<1>3. Out(i) = IF D = {} THEN Excerpt(c.from, c.to) ELSE Masked(Excerpt(c.from, c.to), D)
    BY DEF Out, Text, MaskedText
<1> HIDE DEF c, denied, D
<1>4. \A o \in cut : o \in Span(c) /\ o \in denied
  <2> SUFFICES ASSUME NEW o \in Int, NEW r \in D, In(o - c.from, r)
               PROVE  o \in Span(c)
    BY <1>2
  <2>1. r \in RangesOf(c.to - c.from)
    BY <1>2
  <2> QED
    BY <1>1, <2>1 DEF RangesOf, Ranges, In, Span
<1>5. Span(c) \ cut = Span(c) \ denied
    BY <1>1, <1>2 DEF Span
<1>6. /\ Remaining(Out(i)) = Span(c) \ cut
      /\ Ordered(Out(i))
      /\ Marked(Out(i), c.from, cut)
      /\ Unbroken(Out(i), c.from, c.to)
  <2>1. CASE D = {}
    <3>1. IsMasking(Excerpt(c.from, c.to), {}, c.from, c.to, c.to - c.from)
      BY <1>1, ExcerptIsMasking
    <3>2. cut = {}
      BY <2>1
    <3> QED
      BY <1>3, <2>1, <3>1, <3>2 DEF IsMasking, Span
  <2>2. CASE D # {}
    <3> DEFINE text == Masked(Excerpt(c.from, c.to), D)
    <3>1. c.from \in Nat /\ c.to \in Nat /\ c.from < c.to
      BY <1>1
    <3>2. D \in SUBSET RangesOf(c.to - c.from) /\ IsFiniteSet(D)
      BY <1>2
    <3>3. /\ Remaining(text) = (c.from..(c.to - 1)) \ cut
          /\ Ordered(text)
          /\ Marked(text, c.from, cut)
          /\ Unbroken(text, c.from, c.to)
      BY <3>1, <3>2, MaskedFacts
    <3> QED
      BY <1>3, <2>2, <3>3 DEF Span
  <2> QED
    BY <2>1, <2>2
<1>7. Marked(Out(i), c.from, denied)
    BY <1>4, <1>6 DEF Marked
<1> QED
    BY <1>5, <1>6, <1>7 DEF c, denied

\* What the boundary makes of a claim is settled by the ledger and the vetoes.
LEMMA LedgerUnchanged ==
    ASSUME UNCHANGED <<input, vetoes>>
    PROVE  \A i : /\ (Out(i))' = Out(i) /\ (Open(i))' = Open(i)
                  /\ (Listed(i))' = Listed(i) /\ (Why(i))' = Why(i)
BY DEF Out, Open, Listed, Why, Text, MaskedText, MaskedAway, DeniedRanges, Denied, Claims, Indices

\* One more claim at the boundary.
LEMMA OneMore ==
    ASSUME NEW n \in Nat
    PROVE  /\ Allowed(n + 1) = IF Open(n + 1)
                               THEN Allowed(n) \cup {[claim |-> n + 1, text |-> Out(n + 1)]}
                               ELSE Allowed(n)
           /\ Refused(n + 1) = IF Listed(n + 1)
                               THEN Refused(n) \cup {[claim |-> n + 1, reasons |-> Why(n + 1)]}
                               ELSE Refused(n)
           /\ Allowed(0) = {} /\ Refused(0) = {}
<1>1. n + 1 \in 1..(n + 1) /\ (\A i \in 1..n : i \in 1..(n + 1))
      /\ \A i \in 1..(n + 1) : i = n + 1 \/ i \in 1..n
    OBVIOUS
<1>2. Allowed(n + 1) = IF Open(n + 1)
                       THEN Allowed(n) \cup {[claim |-> n + 1, text |-> Out(n + 1)]}
                       ELSE Allowed(n)
    BY <1>1 DEF Allowed
<1>3. Refused(n + 1) = IF Listed(n + 1)
                       THEN Refused(n) \cup {[claim |-> n + 1, reasons |-> Why(n + 1)]}
                       ELSE Refused(n)
    BY <1>1 DEF Refused
<1>4. Allowed(0) = {} /\ Refused(0) = {}
    BY DEF Allowed, Refused
<1> QED
    BY <1>2, <1>3, <1>4

\* The initial states satisfy the invariant.
LEMMA InitInvariant ==
    ASSUME Init
    PROVE  IInv
<1>1. input \in Input
    BY InputsAssumption DEF Init
<1>2. Len(Claims) \in Nat
    BY <1>1 DEF Claims, Input
<1>3. TypeOK
    BY <1>1, <1>2 DEF Init, TypeOK
<1>4. VetoesAreReasons
    BY DEF Init, VetoesAreReasons
<1>5. BoundaryFollowsLedger
  <2>1. Allowed(0) = {} /\ Refused(0) = {}
    BY OneMore
  <2> QED
    BY <2>1 DEF Init, BoundaryFollowsLedger
<1>6. ActionFollowsEvidence
    BY DEF Init, ActionFollowsEvidence
<1> QED
    BY <1>3, <1>4, <1>5, <1>6 DEF IInv

\* The critic judges the next claim.
LEMMA ReviewStep ==
    ASSUME IInv, Review
    PROVE  IInv'
<1> DEFINE n == Len(vetoes)
           R == SUBSET {"permission_veto", "deletion_veto", "tombstone"}
           one == Reasons(Claims[n + 1])
<1>1. vetoes \in Seq(R) /\ n \in Nat /\ Len(Claims) \in Nat /\ n < Len(Claims)
    BY DEF IInv, TypeOK, Review, Input, Claims
<1>2. one \in R
    BY DEF Reasons
<1>3. /\ vetoes' = Append(vetoes, one)
      /\ UNCHANGED <<input, safe, blocked, released, next, pc, action>>
      /\ pc = "critic"
    BY DEF Review
<1> HIDE DEF one, R
<1>4. /\ vetoes' \in Seq(R) /\ Len(vetoes') = n + 1 /\ vetoes'[n + 1] = one
      /\ \A i \in 1..n : vetoes'[i] = vetoes[i]
    BY <1>1, <1>2, <1>3
<1>5. TypeOK'
    BY <1>1, <1>3, <1>4 DEF IInv, TypeOK, Claims, R
<1>6. VetoesAreReasons'
  <2>1. \A c : (Reasons(c))' = Reasons(c)
    BY <1>3 DEF Reasons, PermissionVeto, DeletionVeto, Conflict
  <2>2. \A i \in 1..Len(vetoes') : vetoes'[i] = Reasons(Claims[i])
    BY <1>1, <1>4 DEF IInv, VetoesAreReasons, one
  <2> QED
    BY <1>3, <2>1, <2>2 DEF VetoesAreReasons, Claims
<1>7. BoundaryFollowsLedger'
  <2>1. /\ next = 0 /\ blocked = {} /\ safe = {} /\ ~(released > 0)
    <3>1. next = 0 /\ blocked = Refused(next) /\ safe = Allowed(next)
      BY <1>3 DEF IInv, BoundaryFollowsLedger
    <3>2. (1..next) = {}
      BY <3>1
    <3>3. ~(released > 0)
      BY <3>2 DEF IInv, BoundaryFollowsLedger
    <3> QED
      BY <3>1, <3>3, OneMore
  <2>2. (Allowed(next))' = {} /\ (Refused(next))' = {}
    BY <1>3, <2>1 DEF Allowed, Refused
  <2> QED
    BY <1>3, <2>1, <2>2 DEF BoundaryFollowsLedger
<1>8. ActionFollowsEvidence'
    BY <1>3 DEF IInv, ActionFollowsEvidence, BlockedRequested, DeletionBlocked, Claims
<1> QED
    BY <1>5, <1>6, <1>7, <1>8 DEF IInv

\* After the critic neither ledger nor vetoes change, nor what has been judged.
LEMMA JudgedUnchanged ==
    ASSUME IInv, UNCHANGED <<input, vetoes>>, pc # "critic" \/ pc' = pc \/ Len(vetoes) = Len(Claims)
    PROVE  VetoesAreReasons'
<1>1. \A c : (Reasons(c))' = Reasons(c)
    BY DEF Reasons, PermissionVeto, DeletionVeto, Conflict
<1> QED
    BY <1>1 DEF IInv, VetoesAreReasons, Claims

\* All claims are judged.
LEMMA ReviewDoneStep ==
    ASSUME IInv, ReviewDone
    PROVE  IInv'
<1>1. TypeOK'
    BY DEF IInv, TypeOK, ReviewDone, Claims
<1>2. VetoesAreReasons'
    BY JudgedUnchanged DEF ReviewDone
<1>3. BoundaryFollowsLedger'
  <2>1. (Allowed(next))' = Allowed(next) /\ (Refused(next))' = Refused(next)
    BY LedgerUnchanged DEF ReviewDone, Allowed, Refused
  <2>2. \A i : (Open(i))' = Open(i)
    BY LedgerUnchanged DEF ReviewDone
  <2> QED
    BY <2>1, <2>2 DEF IInv, BoundaryFollowsLedger, ReviewDone, Claims
<1>4. ActionFollowsEvidence'
    BY DEF IInv, ActionFollowsEvidence, ReviewDone
<1> QED
    BY <1>1, <1>2, <1>3, <1>4 DEF IInv

\* The loop of the boundary: claim i goes where Open and Listed say.
LEMMA HandleStep ==
    ASSUME IInv, NEW i \in Indices, Handle(i),
           safe' = (IF Open(i) THEN Release(i, Out(i)) ELSE safe),
           blocked' = (IF Listed(i) THEN Block(i, Why(i)) ELSE blocked),
           released' = (IF Open(i) THEN released + Requested(i) ELSE released)
    PROVE  IInv'
<1>1. /\ pc = "boundary" /\ i = next + 1 /\ next' = i
      /\ next \in Nat /\ released \in Nat /\ Len(Claims) \in Nat /\ i \in 1..Len(Claims)
      /\ UNCHANGED <<input, vetoes, pc, action>>
    BY DEF Handle, IInv, TypeOK, Indices, Input, Claims
<1>2. Requested(i) \in {0, 1} /\ (Requested(i) = 1 <=> Claims[i].requested)
    BY DEF Requested
<1>3. TypeOK'
    BY <1>1, <1>2 DEF IInv, TypeOK, Claims
<1>4. VetoesAreReasons'
    BY <1>1, JudgedUnchanged
<1>5. BoundaryFollowsLedger'
  <2>1. (Allowed(next))' = Allowed(next + 1) /\ (Refused(next))' = Refused(next + 1)
    BY <1>1, LedgerUnchanged DEF Allowed, Refused
  <2>2. safe = Allowed(next) /\ blocked = Refused(next)
    BY <1>1 DEF IInv, BoundaryFollowsLedger
  <2>3. safe' = Allowed(next + 1) /\ blocked' = Refused(next + 1)
    BY <1>1, <2>2, OneMore DEF Release, Block
  <2>4. released' > 0 <=> \E j \in 1..(next + 1) : Open(j) /\ Claims[j].requested
    <3>1. released > 0 <=> \E j \in 1..next : Open(j) /\ Claims[j].requested
      BY DEF IInv, BoundaryFollowsLedger
    <3>2. next + 1 \in 1..(next + 1) /\ (\A j \in 1..next : j \in 1..(next + 1))
          /\ \A j \in 1..(next + 1) : j = next + 1 \/ j \in 1..next
      BY <1>1
    <3>3. released' > 0 <=> released > 0 \/ (Open(i) /\ Claims[i].requested)
      BY <1>1, <1>2
    <3> QED
      BY <1>1, <3>1, <3>2, <3>3
  <2>5. \A j : (Open(j))' = Open(j)
    BY <1>1, LedgerUnchanged
  <2> QED
    BY <1>1, <2>1, <2>3, <2>4, <2>5 DEF BoundaryFollowsLedger, Claims
<1>6. ActionFollowsEvidence'
  <2>1. action = "none"
    BY <1>1 DEF IInv, ActionFollowsEvidence
  <2> QED
    BY <1>1, <2>1 DEF ActionFollowsEvidence
<1> QED
    BY <1>3, <1>4, <1>5, <1>6 DEF IInv

\* Every way in which the boundary handles a claim.
LEMMA ClaimStep ==
    ASSUME IInv, NEW i \in Indices,
           BlockClaim(i) \/ ReleaseClaim(i) \/ MaskClaim(i) \/ DropClaim(i)
    PROVE  IInv'
<1> SUFFICES /\ Handle(i)
             /\ safe' = IF Open(i) THEN Release(i, Out(i)) ELSE safe
             /\ blocked' = IF Listed(i) THEN Block(i, Why(i)) ELSE blocked
             /\ released' = IF Open(i) THEN released + Requested(i) ELSE released
    BY HandleStep
<1>1. CASE BlockClaim(i)
    BY <1>1 DEF BlockClaim, Open, Listed, Why
<1>2. CASE ReleaseClaim(i)
    BY <1>2 DEF ReleaseClaim, Open, Listed, Out
<1>3. CASE MaskClaim(i)
    BY <1>3 DEF MaskClaim, Open, Listed, Why, Out
<1>4. CASE DropClaim(i)
    BY <1>4 DEF DropClaim, Open, Listed, Why
<1> QED
    BY <1>1, <1>2, <1>3, <1>4

\* The evidence is emptied if every requested field is blocked.
LEMMA BoundaryDoneStep ==
    ASSUME IInv, BoundaryDone
    PROVE  IInv'
<1>1. /\ pc = "boundary" /\ pc' = "answer" /\ next = Len(Claims)
      /\ safe' = IF AllBlocked THEN {} ELSE safe
      /\ UNCHANGED <<input, vetoes, blocked, released, next, action>>
    BY DEF BoundaryDone, AllBlocked
<1>2. TypeOK'
    BY <1>1 DEF IInv, TypeOK, Claims
<1>3. VetoesAreReasons'
    BY <1>1, JudgedUnchanged
<1>4. BoundaryFollowsLedger'
  <2>1. (Allowed(next))' = Allowed(next) /\ (Refused(next))' = Refused(next)
    BY <1>1, LedgerUnchanged DEF Allowed, Refused
  <2>2. \A i : (Open(i))' = Open(i)
    BY <1>1, LedgerUnchanged
  <2>3. AllBlocked' <=> AllBlocked
    BY <1>1 DEF AllBlocked, BlockedRequested, Claims
  <2> QED
    BY <1>1, <2>1, <2>2, <2>3 DEF IInv, BoundaryFollowsLedger, Claims
<1>5. ActionFollowsEvidence'
    BY <1>1 DEF IInv, ActionFollowsEvidence
<1> QED
    BY <1>2, <1>3, <1>4, <1>5 DEF IInv

\* An answer whose action fits the evidence.
LEMMA FinishStep ==
    ASSUME IInv, pc = "answer", NEW result, Finish(result), result # "none",
           result = "answer" => BlockedRequested = {},
           result = "answer_redacted" => safe # {} /\ BlockedRequested # {},
           result = "no_memory" => DeletionBlocked \/ BlockedRequested = {}
    PROVE  IInv'
<1>1. /\ pc' = "done" /\ action' = result
      /\ UNCHANGED <<input, vetoes, safe, blocked, released, next>>
    BY DEF Finish
<1>2. TypeOK'
    BY <1>1 DEF IInv, TypeOK, Claims
<1>3. VetoesAreReasons'
    BY <1>1, JudgedUnchanged
<1>4. BlockedRequested' = BlockedRequested /\ (DeletionBlocked' <=> DeletionBlocked)
    BY <1>1 DEF BlockedRequested, DeletionBlocked, Claims
<1>5. BoundaryFollowsLedger'
  <2>1. (Allowed(next))' = Allowed(next) /\ (Refused(next))' = Refused(next)
    BY <1>1, LedgerUnchanged DEF Allowed, Refused
  <2>2. \A i : (Open(i))' = Open(i)
    BY <1>1, LedgerUnchanged
  <2>3. AllBlocked' <=> AllBlocked
    BY <1>1, <1>4 DEF AllBlocked
  <2> QED
    BY <1>1, <2>1, <2>2, <2>3 DEF IInv, BoundaryFollowsLedger, Claims
<1>6. ActionFollowsEvidence'
    BY <1>1, <1>4 DEF ActionFollowsEvidence
<1> QED
    BY <1>2, <1>3, <1>5, <1>6 DEF IInv

\* Withholding and answering choose such an action.
LEMMA AnswerStep ==
    ASSUME IInv, Withhold \/ AnswerCall
    PROVE  IInv'
<1>1. CASE Withhold
  <2> DEFINE result == IF DeletionBlocked /\ input.asksHistory THEN "no_memory"
                       ELSE IF input.action = "refuse" THEN "refuse"
                       ELSE IF DeletionBlocked THEN "no_memory"
                       ELSE IF BlockedRequested # {} THEN "refuse"
                       ELSE "no_memory"
  <2>1. Finish(result) /\ pc = "answer"
    BY <1>1 DEF Withhold
  <2>2. /\ result \in {"no_memory", "refuse"}
        /\ result = "no_memory" => DeletionBlocked \/ BlockedRequested = {}
    OBVIOUS
  <2> HIDE DEF result
  <2> QED
    BY <2>1, <2>2, FinishStep
<1>2. CASE AnswerCall
  <2>1. CASE Finish("error")
    BY <1>2, <2>1, FinishStep DEF AnswerCall
  <2>2. CASE BlockedRequested # {} /\ Finish("answer_redacted")
    BY <1>2, <2>2, FinishStep DEF AnswerCall
  <2>3. CASE BlockedRequested = {} /\ Finish("answer")
    BY <1>2, <2>3, FinishStep DEF AnswerCall
  <2> QED
    BY <1>2, <2>1, <2>2, <2>3 DEF AnswerCall
<1> QED
    BY <1>1, <1>2

\* A step that changes nothing.
LEMMA StutterStep ==
    ASSUME IInv, UNCHANGED vars
    PROVE  IInv'
<1>1. UNCHANGED <<input, vetoes, safe, blocked, released, next, pc, action>>
    BY DEF vars
<1>2. TypeOK'
    BY <1>1 DEF IInv, TypeOK, Claims
<1>3. VetoesAreReasons'
    BY <1>1, JudgedUnchanged
<1>4. BlockedRequested' = BlockedRequested /\ (DeletionBlocked' <=> DeletionBlocked)
    BY <1>1 DEF BlockedRequested, DeletionBlocked, Claims
<1>5. BoundaryFollowsLedger'
  <2>1. (Allowed(next))' = Allowed(next) /\ (Refused(next))' = Refused(next)
    BY <1>1, LedgerUnchanged DEF Allowed, Refused
  <2>2. \A i : (Open(i))' = Open(i)
    BY <1>1, LedgerUnchanged
  <2>3. AllBlocked' <=> AllBlocked
    BY <1>1, <1>4 DEF AllBlocked
  <2> QED
    BY <1>1, <2>1, <2>2, <2>3 DEF IInv, BoundaryFollowsLedger, Claims
<1>6. ActionFollowsEvidence'
    BY <1>1, <1>4 DEF IInv, ActionFollowsEvidence
<1> QED
    BY <1>2, <1>3, <1>5, <1>6 DEF IInv

\* In every review, for any ledger of claims, the vetoes are the critic's reasons,
\* and the released and the blocked entries are those of the claims handled so far.
THEOREM Invariance == Spec => []IInv
<1>1. Init => IInv
    BY InitInvariant
<1>2. IInv /\ [Next]_vars => IInv'
  <2> SUFFICES ASSUME IInv, [Next]_vars
               PROVE  IInv'
    OBVIOUS
  <2> QED
    BY ReviewStep, ReviewDoneStep, ClaimStep, BoundaryDoneStep, AnswerStep, StutterStep DEF Next
<1> QED
    BY <1>1, <1>2, PTL DEF Spec

\* Released evidence: the claim is one of the ledger, open, and has its own text.
LEMMA ReleasedIsOpen ==
    ASSUME IInv, NEW s \in safe
    PROVE  \E i \in Indices :
               s = [claim |-> i, text |-> Out(i)] /\ Open(i) /\ i \in 1..Len(vetoes)
<1>1. next \in 0..Len(Claims) /\ Len(Claims) \in Nat
    BY DEF IInv, TypeOK, Input, Claims
<1>2. s \in Allowed(next)
    BY DEF IInv, BoundaryFollowsLedger
<1>3. PICK i \in 1..next : s = [claim |-> i, text |-> Out(i)] /\ Open(i)
    BY <1>2 DEF Allowed
<1>4. i \in Indices
    BY <1>1, <1>3 DEF Indices
<1>5. pc # "critic"
    BY <1>1, <1>3 DEF IInv, BoundaryFollowsLedger
<1> QED
    BY <1>3, <1>4, <1>5 DEF IInv, VetoesAreReasons, Indices

\* No character that a denied claim of the source covers is in released evidence,
\* however the denied spans overlap: the cuts do not move one another's offsets.
THEOREM NothingDeniedReleased == Spec => []NoDeniedTextReleased
<1>1. IInv => NoDeniedTextReleased
  <2> SUFFICES ASSUME IInv, NEW s \in safe, NEW j \in Indices,
                      Denied(j), Claims[j].source = Claims[s.claim].source
               PROVE  Remaining(s.text) \cap Span(Claims[j]) = {}
    BY DEF NoDeniedTextReleased
  <2>1. PICK i \in Indices : s = [claim |-> i, text |-> Out(i)]
    BY ReleasedIsOpen
  <2>2. s.claim = i /\ s.text = Out(i)
    BY <2>1
  <2>3. Remaining(s.text) = Span(Claims[i]) \ DeniedOffsets(Claims[i].source)
    BY <2>2, OutFacts DEF IInv
  <2>4. Span(Claims[j]) \subseteq DeniedOffsets(Claims[i].source)
    BY <2>2 DEF DeniedOffsets
  <2> QED
    BY <2>3, <2>4
<1> QED
    BY <1>1, Invariance, PTL

\* Masking takes nothing else away and leaves one marker for every stretch that it
\* cuts: what a claim releases is its excerpt but for the denied offsets, in order.
THEOREM MaskingIsExact == Spec => []OnlyDeniedTextMasked
<1>1. IInv => OnlyDeniedTextMasked
  <2> SUFFICES ASSUME IInv, NEW s \in safe
               PROVE  LET c == Claims[s.claim]
                          denied == DeniedOffsets(c.source)
                      IN  /\ Remaining(s.text) = Span(c) \ denied
                          /\ Ordered(s.text)
                          /\ Marked(s.text, c.from, denied)
                          /\ Unbroken(s.text, c.from, c.to)
    BY DEF OnlyDeniedTextMasked
  <2>1. PICK i \in Indices : s = [claim |-> i, text |-> Out(i)]
    BY ReleasedIsOpen
  <2>2. s.claim = i /\ s.text = Out(i)
    BY <2>1
  <2> QED
    BY <2>2, OutFacts DEF IInv
<1> QED
    BY <1>1, Invariance, PTL

\* If ids do not repeat, the row of an id is the row that has it.
LEMMA RowOfId ==
    ASSUME NEW S, NEW rows \in Seq(S), NEW n \in 1..Len(rows),
           \A m \in 1..Len(rows) : rows[m].id = rows[n].id => m = n
    PROVE  HasId(rows, rows[n].id) /\ ById(rows, rows[n].id) = rows[n]
<1> DEFINE s == {m \in 1..Len(rows) : rows[m].id = rows[n].id}
<1>1. Len(rows) \in Nat /\ s \in SUBSET (1..Len(rows)) /\ s # {}
    OBVIOUS
<1>2. Max(s) \in s
    BY <1>1, MaxExists
<1>3. Max(s) = n
    BY <1>2
<1> QED
    BY <1>3 DEF HasId, ById

\* The rows that permissions.values() keeps are rows of the projection.
LEMMA KeptAreRows ==
    ASSUME NEW S, NEW rows \in Seq(S), NEW p \in Kept(rows)
    PROVE  \E n \in 1..Len(rows) : p = rows[n]
<1>1. PICK n \in 1..Len(rows) : p = ById(rows, rows[n].id)
    BY DEF Kept
<1> DEFINE s == {m \in 1..Len(rows) : rows[m].id = rows[n].id}
<1>2. Len(rows) \in Nat /\ s \in SUBSET (1..Len(rows)) /\ s # {}
    OBVIOUS
<1>3. Max(s) \in s
    BY <1>2, MaxExists
<1> QED
    BY <1>1, <1>3 DEF ById

\* A claim that is bound to an uncontested denial or a plain deletion of its target
\* is not released, if event ids do not repeat in the projection.
THEOREM VetoesReachTheAnswer == Spec => []BoundVetoEnforced
<1>1. IInv => BoundVetoEnforced
  <2> SUFFICES ASSUME IInv, DistinctIds, NEW s \in safe
               PROVE  LET c == Claims[s.claim] IN
                      /\ \A n \in 1..Len(input.permissions) : ~BoundDenial(c, input.permissions[n])
                      /\ \A n \in 1..Len(input.deletions) : ~BoundDeletion(c, input.deletions[n])
    BY DEF BoundVetoEnforced, VetoesEnforced
  <2>1. PICK i \in Indices : s.claim = i /\ Open(i) /\ i \in 1..Len(vetoes)
    BY ReleasedIsOpen
  <2> DEFINE c == Claims[i]
             permissions == input.permissions
             deletions == input.deletions
  <2>2. permissions \in Seq(Permission) /\ deletions \in Seq(Deletion)
    BY DEF IInv, TypeOK, Input
  <2>3. Reasons(c) = {}
    BY <2>1 DEF IInv, VetoesAreReasons, Open, Denied
  <2>4. ~PermissionVeto(c) /\ ~DeletionVeto(c)
    BY <2>3 DEF Reasons
  <2>5. /\ \A m, n \in 1..Len(permissions) : permissions[m].id = permissions[n].id => m = n
        /\ \A m, n \in 1..Len(deletions) : deletions[m].id = deletions[n].id => m = n
    BY DEF DistinctIds
  <2>6. ASSUME NEW n \in 1..Len(permissions), BoundDenial(c, permissions[n])
        PROVE  FALSE
    <3> DEFINE p == permissions[n]
    <3>1. HasId(permissions, p.id) /\ ById(permissions, p.id) = p
      BY <2>2, <2>5, RowOfId
    <3>2. /\ p.id \in c.binds /\ p.decision = "deny" /\ p.plain /\ p.target = c.target
          /\ \A m \in 1..Len(permissions) :
                permissions[m].target = c.target
                   => permissions[m].decision = "deny" \/ permissions[m].expired
      BY <2>6 DEF BoundDenial
    <3>3. ~Conflict(p.target)
      <4> SUFFICES ASSUME NEW q \in Kept(permissions), q.decision = "allow", ~q.expired,
                          q.target = p.target
                   PROVE  FALSE
        BY DEF Conflict
      <4>1. PICK m \in 1..Len(permissions) : q = permissions[m]
        BY <2>2, KeptAreRows
      <4> QED
        BY <3>2, <4>1
    <3> QED
      BY <2>4, <3>1, <3>2, <3>3 DEF PermissionVeto
  <2>7. ASSUME NEW n \in 1..Len(deletions), BoundDeletion(c, deletions[n])
        PROVE  FALSE
    <3>1. HasId(deletions, deletions[n].id) /\ ById(deletions, deletions[n].id) = deletions[n]
      BY <2>2, <2>5, RowOfId
    <3> QED
      BY <2>4, <2>7, <3>1 DEF DeletionVeto, BoundDeletion
  <2> QED
    BY <2>1, <2>6, <2>7
<1> QED
    BY <1>1, Invariance, PTL

\* A masked claim does not have its own text: something was cut from it.
LEMMA MaskedIsNotWhole ==
    ASSUME IInv, NEW i \in Indices, DeniedRanges(i) # {}
    PROVE  Out(i) # Text(i)
<1> DEFINE c == Claims[i]
           denied == DeniedOffsets(c.source)
<1>1. c.from \in Nat /\ c.to \in Nat /\ c.from < c.to
    BY ClaimFacts DEF IInv
<1>2. PICK r \in DeniedRanges(i) : r \in RangesOf(c.to - c.from)
    BY RangePoints DEF IInv
<1> DEFINE o == c.from + r[1]
<1>3. o \in Span(c) /\ In(o - c.from, r)
    BY <1>1, <1>2 DEF RangesOf, Ranges, In, Span
<1>4. o \in denied
    BY <1>2, <1>3, RangePoints DEF IInv
<1>5. o \notin Remaining(Out(i))
    BY <1>4, OutFacts DEF IInv
<1>6. Remaining(Text(i)) = Span(c)
  <2>1. IsMasking(Excerpt(c.from, c.to), {}, c.from, c.to, c.to - c.from)
    BY <1>1, ExcerptIsMasking
  <2> QED
    BY <2>1 DEF IsMasking, Text, Span
<1> QED
    BY <1>3, <1>5, <1>6

\* "answer" goes with every requested claim in full, "answer_redacted" with some
\* requested claim and without the whole of another, and a restriction is not
\* reported as missing memory.
THEOREM ActionTellsTheTruth == Spec => []ActionIsHonest
<1>1. IInv => ActionIsHonest
  <2> SUFFICES ASSUME IInv
               PROVE  ActionIsHonest
    OBVIOUS
  <2> DEFINE L == Len(Claims)
  <2>1. CASE action \in {"answer", "answer_redacted"}
    <3>1. pc = "done" /\ next = L /\ released \in Nat /\ Indices = 1..L
      BY <2>1 DEF IInv, TypeOK, ActionFollowsEvidence, BoundaryFollowsLedger, Indices
    <3>2. blocked = Refused(L) /\ safe = IF AllBlocked THEN {} ELSE Allowed(L)
      BY <3>1 DEF IInv, BoundaryFollowsLedger
    <3>3. CASE action = "answer"
      <4>1. BlockedRequested = {}
        BY <3>3 DEF IInv, ActionFollowsEvidence
      <4>2. safe = Allowed(L)
        BY <3>2, <4>1 DEF AllBlocked
      <4>3. ASSUME NEW i \in Indices, Claims[i].requested
            PROVE  [claim |-> i, text |-> Text(i)] \in safe
        <5>1. ~Listed(i)
          <6> SUFFICES ASSUME Listed(i)
                       PROVE  FALSE
            OBVIOUS
          <6>1. [claim |-> i, reasons |-> Why(i)] \in blocked
            BY <3>1, <3>2 DEF Refused
          <6>2. [claim |-> i, reasons |-> Why(i)] \in BlockedRequested
            BY <4>3, <6>1 DEF BlockedRequested
          <6> QED
            BY <4>1, <6>2
        <5>2. Open(i) /\ Out(i) = Text(i)
          BY <5>1 DEF Listed, Open, Out
        <5> QED
          BY <3>1, <4>2, <5>2 DEF Allowed
      <4> QED
        BY <3>3, <4>3 DEF ActionIsHonest
    <3>4. CASE action = "answer_redacted"
      <4>1. safe # {} /\ BlockedRequested # {}
        BY <3>4 DEF IInv, ActionFollowsEvidence
      <4>2. released > 0 /\ safe = Allowed(L)
        BY <3>1, <3>2, <4>1 DEF AllBlocked
      <4>3. \E s \in safe : Claims[s.claim].requested
        <5>1. PICK i \in 1..L : Open(i) /\ Claims[i].requested
          BY <3>1, <4>2 DEF IInv, BoundaryFollowsLedger
        <5>2. [claim |-> i, text |-> Out(i)] \in safe
          BY <4>2, <5>1 DEF Allowed
        <5> QED
          BY <5>1, <5>2
      <4>4. \E i \in Indices : Claims[i].requested /\ [claim |-> i, text |-> Text(i)] \notin safe
        <5>1. PICK e \in blocked : Claims[e.claim].requested
          BY <4>1 DEF BlockedRequested
        <5>2. PICK i \in 1..L : e = [claim |-> i, reasons |-> Why(i)] /\ Listed(i)
          BY <3>2, <5>1 DEF Refused
        <5>3. i \in Indices /\ Claims[i].requested
          BY <3>1, <5>1, <5>2
        <5>4. ASSUME [claim |-> i, text |-> Text(i)] \in safe
              PROVE  FALSE
          <6>1. PICK k \in 1..L : [claim |-> i, text |-> Text(i)] = [claim |-> k, text |-> Out(k)] /\ Open(k)
            BY <4>2, <5>4 DEF Allowed
          <6>2. k = i /\ Text(i) = Out(i) /\ Open(i)
            BY <6>1
          <6>3. DeniedRanges(i) # {}
            BY <5>2, <6>2 DEF Open, Listed
          <6> QED
            BY <5>3, <6>2, <6>3, MaskedIsNotWhole
        <5> QED
          BY <5>3, <5>4
      <4> QED
        BY <3>4, <4>3, <4>4 DEF ActionIsHonest
    <3> QED
      BY <2>1, <3>3, <3>4
  <2>2. CASE action \notin {"answer", "answer_redacted"}
    BY <2>2 DEF IInv, ActionFollowsEvidence, ActionIsHonest
  <2> QED
    BY <2>1, <2>2
<1> QED
    BY <1>1, Invariance, PTL
===============================================================================
