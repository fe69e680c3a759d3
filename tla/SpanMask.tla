------------------------------- MODULE SpanMask -------------------------------
(***************************************************************************)
(* Masking of the denied parts of a released excerpt, the range arithmetic  *)
(* of build_v8_safe_evidence.  A text is a sequence of source offsets, so   *)
(* that one sees what of the source is still in it; Withheld is "[withheld]".*)
(***************************************************************************)
EXTENDS Integers, FiniteSets, SequencesExt

Withheld == -1

\* The excerpt [from, to) of a source, offset by offset.
Excerpt(from, to) == [k \in 1..(to - from) |-> from + k - 1]

\* The part of [from, to) that [left, right) covers, relative to from.
Overlap(from, to, left, right) ==
    <<Max({from, left}) - from, Min({to, right}) - from>>

Overlaps(from, to, left, right) == Max({from, left}) < Min({to, right})

\* sorted(ranges): tuples in lexicographic order.
Precedes(a, b) == a[1] < b[1] \/ (a[1] = b[1] /\ a[2] < b[2])

SortedRanges(ranges) ==
    CHOOSE rows \in [1..Cardinality(ranges) -> ranges] :
        \A i, j \in DOMAIN rows : i < j => Precedes(rows[i], rows[j])

\* Variant: the end of the later range replaces the end of the earlier one.
Merge_LastEnd(merged, range) ==
    IF merged # <<>> /\ range[1] <= Last(merged)[2]
    THEN Append(Front(merged), <<Last(merged)[1], range[2]>>)
    ELSE Append(merged, range)

\* One step of the merge loop: touching and overlapping ranges become one.
Merge(merged, range) ==
    IF merged # <<>> /\ range[1] <= Last(merged)[2]
    THEN Append(Front(merged), <<Last(merged)[1], Max({range[2], Last(merged)[2]})>>)
    ELSE Append(merged, range)

Merged(ranges) == FoldLeft(Merge, <<>>, SortedRanges(ranges))

\* value[:left] + "[withheld]" + value[right:]
Cut(value, range) ==
    SubSeq(value, 1, range[1]) \o <<Withheld>> \o SubSeq(value, range[2] + 1, Len(value))

\* Variant: the ranges are cut from left to right, with offsets that have moved.
Masked_Forward(value, ranges) == FoldLeft(Cut, value, Merged(ranges))

\* The ranges are cut from right to left, which keeps the offsets to the left.
Masked(value, ranges) == FoldLeft(Cut, value, Reverse(Merged(ranges)))

Remaining(value) == ToSet(value) \ {Withheld}
===============================================================================
