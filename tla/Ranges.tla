------------------------------- MODULE Ranges -------------------------------
(***************************************************************************)
(* utils/range.ts: closed ranges of numbers and lists of them.             *)
(*                                                                         *)
(* Block numbers and dates follow the same algebra (rangeStrategies): both *)
(* are integers here.  Checks that throw on a range that ends before it    *)
(* starts (checkRange) are not modelled: no caller reaches them.           *)
(***************************************************************************)
EXTENDS Integers, Sequences, FiniteSets, SequencesExt

(***************************************************************************)
(* The filter and the stable sort of an array, spelled out so that they    *)
(* can be reasoned about: what comes before an element gives its place.    *)
(***************************************************************************)
Keep(seq, Test(_)) ==
    FlattenSeq([i \in DOMAIN seq |-> IF Test(seq[i]) THEN <<seq[i]>> ELSE <<>>])

StableSort(seq, Before(_, _)) ==
    LET upTo(i) == {j \in DOMAIN seq :
                       \/ Before(seq[j], seq[i])
                       \/ j <= i /\ ~Before(seq[i], seq[j])}
        place == [i \in DOMAIN seq |-> Cardinality(upTo(i))]
    IN  [k \in DOMAIN seq |-> seq[CHOOSE i \in DOMAIN seq : place[i] = k]]

Span(from, to) == [from |-> from, to |-> to]

(* What a list of ranges stands for. *)
Points(ranges) == UNION {r.from .. r.to : r \in ToSet(ranges)}

IsValidRange(r) == r.from <= r.to

RangeSize(r) == Max({0, r.to - r.from + 1})

RangeOverlap(a, b) == a.from <= b.to /\ b.from <= a.to

RangeSort(ranges) == StableSort(ranges, LAMBDA a, b : a.from < b.from)

(* Two neighbours of the sorted list overlap. *)
RangeArrayOverlap(ranges) ==
    LET sorted == RangeSort(ranges)
    IN  \E i \in 1 .. Len(sorted) - 1 : RangeOverlap(sorted[i], sorted[i + 1])

RangeManyOverlap(ranges, other) ==
    \E r \in ToSet(ranges), o \in ToSet(other) : RangeOverlap(r, o)

RangeIntersect(ranges, with) ==
    LET common == Keep(ranges, LAMBDA r : RangeOverlap(r, with))
    IN  [i \in DOMAIN common |-> Span(Max({common[i].from, with.from}),
                                      Min({common[i].to, with.to}))]

RangeCovering(ranges) ==
    Span(Min({r.from : r \in ToSet(ranges)}), Max({r.to : r \in ToSet(ranges)}))

(* Mutant: the bound of the excluded range stays in the first part. *)
RangeExcludeKeepingBound(r, ex) ==
    IF ~RangeOverlap(r, ex) THEN <<r>>
    ELSE (IF r.from < ex.from THEN <<Span(r.from, ex.from)>> ELSE <<>>)
            \o (IF ex.to < r.to THEN <<Span(ex.to + 1, r.to)>> ELSE <<>>)

(* What is left of a range on each side of an excluded one. *)
RangeExclude(r, ex) ==
    IF ~RangeOverlap(r, ex) THEN <<r>>
    ELSE (IF r.from < ex.from THEN <<Span(r.from, ex.from - 1)>> ELSE <<>>)
            \o (IF ex.to < r.to THEN <<Span(ex.to + 1, r.to)>> ELSE <<>>)

RangeExcludeMany(r, exclude) ==
    FoldLeft(LAMBDA left, ex :
                FlattenSeq([i \in DOMAIN left |-> RangeExclude(left[i], ex)]),
             <<r>>, exclude)

RangeArrayExclude(ranges, exclude) ==
    FlattenSeq([i \in DOMAIN ranges |-> RangeExcludeMany(ranges[i], exclude)])

(* Mutant: ranges that touch each other are left apart. *)
RangeMergeOverlapping(ranges) ==
    FoldLeft(LAMBDA merged, r :
                IF merged # <<>> /\ r.from <= Last(merged).to
                THEN [merged EXCEPT ![Len(merged)].to = Max({@, r.to})]
                ELSE Append(merged, r),
             <<>>, RangeSort(ranges))

(* In order, each range joined with the last one when it touches it. *)
RangeMerge(ranges) ==
    FoldLeft(LAMBDA merged, r :
                IF merged # <<>> /\ r.from <= Last(merged).to + 1
                THEN [merged EXCEPT ![Len(merged)].to = Max({@, r.to})]
                ELSE Append(merged, r),
             <<>>, RangeSort(ranges))

RangeSortedArrayExclude(ranges, exclude) ==
    RangeArrayExclude(RangeMerge(ranges), RangeMerge(exclude))

(* Parts of maxLength from the start of the range, then the rest. *)
RangeSlitToMaxLength(r, maxLength) ==
    [i \in 1 .. (RangeSize(r) + maxLength - 1) \div maxLength |->
        Span(r.from + (i - 1) * maxLength,
             Min({r.to, r.from + i * maxLength - 1}))]

RangeSplitManyToMaxLength(ranges, maxLength) ==
    FlattenSeq([i \in DOMAIN ranges |-> RangeSlitToMaxLength(ranges[i], maxLength)])

(***************************************************************************)
(* rangeSortedSplitManyToMaxLengthAndTakeSome with sort = "desc", the only *)
(* order its callers ask for: from the newest range of the queue down,     *)
(* split what is too long, merge what overlaps while it is not, and stop   *)
(* once enough are taken.  A step takes a range or shortens the queue.     *)
(***************************************************************************)
TakeStep(state, maxLength, take) ==
    LET current == Last(state.queue)
        rest == Front(state.queue)
        next == Last(rest)
        cut == Span(current.to + 1 - maxLength, current.to)
        Took(range, queue) == [queue |-> queue, taken |-> Append(state.taken, range)]
    IN  IF state.queue = <<>> \/ Len(state.taken) >= take
        THEN state
        ELSE IF RangeSize(current) > maxLength
        THEN Took(cut, Append(rest, Span(current.from, cut.from - 1)))
        ELSE IF rest = <<>> \/ ~RangeOverlap(current, next)
        THEN Took(current, rest)
        ELSE IF current.to - next.from + 1 > maxLength
        THEN Took(cut, Append(Front(rest), Span(next.from, cut.from - 1)))
        ELSE [state EXCEPT !.queue =
                Append(Front(rest), Span(Min({current.from, next.from}), current.to))]

(* Mutant: the part that is taken is one longer than the maximum. *)
TakeOneTooMany(ranges, maxLength, take) ==
    IF maxLength <= 0 \/ take <= 0 THEN <<>>
    ELSE FoldLeft(LAMBDA state, k : TakeStep(state, maxLength + 1, take),
                  [queue |-> RangeSort(ranges), taken |-> <<>>],
                  [k \in 1 .. Len(ranges) + take |-> k]).taken

TakeNewestRanges(ranges, maxLength, take) ==
    IF maxLength <= 0 \/ take <= 0 THEN <<>>
    ELSE FoldLeft(LAMBDA state, k : TakeStep(state, maxLength, take),
                  [queue |-> RangeSort(ranges), taken |-> <<>>],
                  [k \in 1 .. Len(ranges) + take |-> k]).taken
=============================================================================
