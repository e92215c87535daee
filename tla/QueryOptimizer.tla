--------------------------- MODULE QueryOptimizer ---------------------------
(***************************************************************************)
(* utils/query: from what is imported of each product to the queries of a  *)
(* run.                                                                    *)
(*                                                                         *)
(* A "state" is [obj, full, covered, toRetry], a "part" [obj, ranges].  A  *)
(* query is [type, objs, range, filter]: filter[o] are the ranges kept of  *)
(* the answer for the product o, <<>> for "no-filter".  The options are    *)
(* [ignore, maxAddresses, maxRange, maxQueries].  "luck" is the random     *)
(* number drawn for a product to settle ties.                              *)
(***************************************************************************)
EXTENDS Ranges

Chunk(s, n) ==
    [i \in 1 .. (Len(s) + n - 1) \div n |-> SubSeq(s, (i - 1) * n + 1, Min({Len(s), i * n}))]

Sum(s) == FoldLeft(+, 0, s)

Coverage(ranges) == Sum([i \in DOMAIN ranges |-> RangeSize(ranges[i])])

AllRanges(parts) == FlattenSeq([i \in DOMAIN parts |-> parts[i].ranges])

(* _getJsonRpcBatchQueries: one query per range of each product. *)
JsonRpcBatchQueries(parts, options) ==
    FlattenSeq(
        [i \in DOMAIN parts |->
            LET ranges == TakeNewestRanges(parts[i].ranges, options.maxRange, options.maxQueries)
            IN  [j \in DOMAIN ranges |->
                    [type |-> "jsonrpc batch", objs |-> {parts[i].obj},
                     range |-> ranges[j], filter |-> [o \in {parts[i].obj} |-> <<>>]]]])

(* Mutant: the answers for several products are not filtered. *)
AddressBatchUnfiltered(parts, luck, options) ==
    LET chunks == Chunk(parts, options.maxAddresses)
    IN  [c \in DOMAIN chunks |->
            LET objs == {chunks[c][i].obj : i \in DOMAIN chunks[c]}
            IN  [type |-> "address batch", objs |-> objs,
                 range |-> RangeCovering(AllRanges(chunks[c])),
                 filter |-> [o \in objs |-> <<>>]]]

(***************************************************************************)
(* _getAddressBatchQueries: the products with the most to query together,  *)
(* over a range that covers what all of them need, filtered afterwards.    *)
(***************************************************************************)
AddressBatchQueries(parts, luck, options) ==
    LET before(a, b) ==
            \/ Coverage(a.ranges) > Coverage(b.ranges)
            \/ Coverage(a.ranges) = Coverage(b.ranges) /\ luck[a.obj] > luck[b.obj]
        chunks == Chunk(StableSort(parts, before), options.maxAddresses)
    IN  [c \in DOMAIN chunks |->
            LET objs == {chunks[c][i].obj : i \in DOMAIN chunks[c]}
                covering == RangeCovering(AllRanges(chunks[c]))
                RangesOf(o) ==
                    (CHOOSE i \in DOMAIN chunks[c] : chunks[c][i].obj = o)
                Filter(o) == Keep(RangeMerge(chunks[c][RangesOf(o)].ranges),
                                  LAMBDA r : r # covering)
            IN  [type |-> "address batch", objs |-> objs, range |-> covering,
                 filter |-> [o \in objs |-> Filter(o)]]]

(* _findTheBestMethodForRanges, for the products of one slice. *)
BestMethodForRanges(parts, luck, options) ==
    LET json == JsonRpcBatchQueries(parts, options)
        address == AddressBatchQueries(parts, luck, options)
        jsonCoverage == Sum([i \in DOMAIN json |-> RangeSize(json[i].range)])
        addressCoverage == Coverage(AllRanges(parts))
        alone == \A i \in DOMAIN address : Cardinality(address[i].objs) <= 1
    IN  IF \/ options.maxAddresses = 1
           \/ Len(json) < Len(address)
           \/ Len(json) = Len(address) /\ jsonCoverage > addressCoverage
           \/ Len(json) = Len(address) /\ jsonCoverage = addressCoverage /\ alone
        THEN json ELSE address

(* Mutant: the ranges to retry are planned with the new ones as well. *)
StepsWithRetriesTwice(states, options) ==
    IF options.ignore
    THEN <<[i \in DOMAIN states |->
              [obj |-> states[i].obj, ranges |-> <<states[i].full>>]]>>
    ELSE <<[i \in DOMAIN states |->
              [obj |-> states[i].obj,
               ranges |-> Reverse(RangeSortedArrayExclude(<<states[i].full>>,
                    RangeArrayExclude(states[i].covered, states[i].toRetry)))]],
           [i \in DOMAIN states |->
              [obj |-> states[i].obj, ranges |-> Reverse(states[i].toRetry)]]>>

(* What was never covered first, the retries at the end. *)
Steps(states, options) ==
    IF options.ignore
    THEN <<[i \in DOMAIN states |->
              [obj |-> states[i].obj, ranges |-> <<states[i].full>>]]>>
    ELSE <<[i \in DOMAIN states |->
              [obj |-> states[i].obj,
               ranges |-> Reverse(RangeSortedArrayExclude(<<states[i].full>>,
                                       states[i].covered \o states[i].toRetry))]],
           [i \in DOMAIN states |->
              [obj |-> states[i].obj, ranges |-> Reverse(states[i].toRetry)]]>>

(* What a slice of the index leaves of the ranges of each product. *)
RestrictToSlice(parts, slice) ==
    Keep([i \in DOMAIN parts |->
            [parts[i] EXCEPT !.ranges = RangeIntersect(@, slice)]],
         LAMBDA part : part.ranges # <<>>)

(***************************************************************************)
(* optimizeQueries, for states of different products with valid ranges:    *)
(* each step is cut by the slices of its index (indices[s]), the newest    *)
(* first, no more than maxQueries slices are kept, and each has the method *)
(* that suits it.                                                          *)
(***************************************************************************)
OptimizeQueries(states, luck, options, indices) ==
    LET steps == Steps(states, options)
        Slices(parts, index) ==
            LET restricted == [i \in DOMAIN index |-> RestrictToSlice(parts, index[i])]
                slices == Keep(Reverse(restricted), LAMBDA slice : slice # <<>>)
            IN  SubSeq(slices, 1, Min({Len(slices), options.maxQueries}))
        Queries(parts, index) ==
            LET slices == Slices(parts, index)
            IN  FlattenSeq([i \in DOMAIN slices |->
                                BestMethodForRanges(slices[i], luck, options)])
    IN  FlattenSeq([s \in DOMAIN steps |-> Queries(steps[s], indices[s])])

(***************************************************************************)
(* createOptimizerIndexFromState: the blobs of blocks to query of all the  *)
(* products, joined when they are close, in slices.                        *)
(***************************************************************************)
IndexFromState(parts, mergeIfCloserThan, sliceSize) ==
    LET join(blobs, r) ==
            IF blobs # <<>> /\ Last(blobs).to + mergeIfCloserThan >= r.from
            THEN [blobs EXCEPT ![Len(blobs)].to = Max({@, r.to})]
            ELSE Append(blobs, r)
    IN  RangeSplitManyToMaxLength(
            FoldLeft(join, <<>>, RangeMerge(AllRanges(parts))), sliceSize)

(* Mutant: the range between the last listed block and the latest is lost. *)
IndexWithoutTail(list, latest, first, sliceSize) ==
    LET gaps == [i \in 1 .. Len(list) - 1 |-> Span(list[i], list[i + 1] - 1)]
        head == IF list[1] > first THEN <<Span(first, list[1] - 1)>> ELSE <<>>
    IN  IF Len(list) < 2 THEN <<>>
        ELSE RangeSplitManyToMaxLength(Keep(head \o gaps, IsValidRange), sliceSize)

(***************************************************************************)
(* createOptimizerIndexFromBlockList, for a list in increasing order: one  *)
(* slice from each block of the list to the next, one up to the latest     *)
(* block, one from the first block to consider; each at most sliceSize     *)
(* (rangeMaxLength) long.                                                  *)
(***************************************************************************)
IndexFromBlockList(list, latest, first, sliceSize) ==
    LET gaps == [i \in 1 .. Len(list) - 1 |-> Span(list[i], list[i + 1] - 1)]
        last == Last(list)
        tail == IF latest > last THEN <<Span(last, latest)>> ELSE <<>>
        head == IF list[1] > first THEN <<Span(first, list[1] - 1)>> ELSE <<>>
    IN  IF Len(list) < 2 THEN <<>>
        ELSE RangeSplitManyToMaxLength(
                Keep(head \o gaps \o tail, IsValidRange), sliceSize)

(* extractObjsAndRangeFromOptimizerOutput: what a query was made for. *)
ObjsAndRanges(query) ==
    UNION {IF query.filter[o] = <<>> THEN {[obj |-> o, range |-> query.range]}
           ELSE {[obj |-> o, range |-> r] : r \in ToSet(query.filter[o])}
           : o \in query.objs}

(***************************************************************************)
(* _restrictRangesWithImportState: the queries of a price feed, whatever   *)
(* room they leave under the limit being used for the retries.             *)
(***************************************************************************)
RestrictRangesWithImportState(full, covered, toRetry, ignore, maxRange, limit) ==
    LET ranges == IF ignore THEN <<full>>
                  ELSE RangeSortedArrayExclude(<<full>>, covered \o toRetry)
        fresh == TakeNewestRanges(ranges, maxRange, limit)
    IN  fresh \o TakeNewestRanges(toRetry, maxRange, limit - Len(fresh))
=============================================================================
