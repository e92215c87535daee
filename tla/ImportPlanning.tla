--------------------------- MODULE ImportPlanning ---------------------------
(***************************************************************************)
(* The runs of a historical importer, at the level of the lists of ranges: *)
(* what each run plans to query from the import states of its products,    *)
(* and what the results leave in them.  The importers plan in three ways:  *)
(* "investments" over an index of the blocks to query, "share rates" and   *)
(* "statistics" over the list of snapshot blocks of the chain, "prices"    *)
(* feed by feed over dates.                                                *)
(*                                                                         *)
(* The latest block is the newest one the run considers.  How runs are     *)
(* started, and what a query does, is in ChainRunner and ProductImport.    *)
(***************************************************************************)
EXTENDS QueryOptimizer, FiniteSets

CONSTANTS
    Products,           \* what is imported: products or price feeds
    Importers,          \* those considered, see above
    MaxBlock,           \* bound: the chain stops there
    Created,            \* Created[p]: contractCreatedAtBlock of a product
    MaxSpan,            \* rpcLimitations.maxGetLogsBlockSpan
    MaxAddresses,       \* products in one query: maxGetLogsAddressBatchSize
    MaxQueries,         \* behaviour.limitQueriesCountTo
    SnapshotBlocks,     \* blocks between two snapshots
    RecentSpan,         \* blocks in a query of the recent importer
    MaxRecent,          \* bound on the results of the recent importer
    MaxFaults           \* bound on the runs in which something fails

ASSUME PlanningAssumption ==
    /\ Importers \subseteq {"investments", "share rates", "statistics", "prices"}
    /\ MaxBlock \in Nat
    /\ IsFiniteSet(Products) /\ Products # {}
    /\ Created \in [Products -> 0 .. MaxBlock]
    /\ {MaxSpan, MaxAddresses, MaxQueries, SnapshotBlocks} \subseteq Nat \ {0}
    /\ RecentSpan \in 1 .. MaxSpan
    /\ MaxRecent \in Nat
    /\ MaxFaults \in Nat

VARIABLES
    importer,       \* which of the importers this is
    latest,         \* the newest block to consider
    rows,           \* the lists of ranges of each import state
    pc,             \* "idle", or "running" once a run has its queries
    plan,           \* the queries of the run
    recent,         \* number of results of the recent importer
    faults          \* number of runs in which something failed

vars == <<importer, latest, rows, pc, plan, recent, faults>>

ObjSeq == SetToSeq(Products)

Options == [ignore |-> FALSE, maxAddresses |-> MaxAddresses,
            maxRange |-> MaxSpan, maxQueries |-> MaxQueries]

Init ==
    /\ importer \in Importers
    /\ latest = 0
    /\ rows = [p \in Products |-> [covered |-> <<>>, toRetry |-> <<>>]]
    /\ pc = "idle"
    /\ plan = <<>>
    /\ recent = 0
    /\ faults = 0

NewBlock ==
    /\ latest < MaxBlock
    /\ latest' = latest + 1
    /\ UNCHANGED <<importer, rows, pc, plan, recent, faults>>

-----------------------------------------------------------------------------
(* generateQueries, or the pipeline that stands for it. *)

(* States with a valid full range: the others are filtered out. *)
States ==
    LET state(p) == [obj |-> p, full |-> Span(Created[p], latest),
                     covered |-> rows[p].covered, toRetry |-> rows[p].toRetry]
    IN  Keep([i \in DOMAIN ObjSeq |-> state(ObjSeq[i])],
             LAMBDA s : IsValidRange(s.full))

FirstCreated == Min({Created[p] : p \in Products})

(* fetchChainBlockList$: snapshots known when the list was cached. *)
BlockList(known) ==
    StableSort(SetToSeq({b \in FirstCreated .. known : b % SnapshotBlocks = 0}), <)

PlanInvestments(luck) ==
    LET steps == Steps(States, Options)
    IN  OptimizeQueries(States, luck, Options,
            [s \in DOMAIN steps |-> IndexFromState(steps[s], (MaxSpan + 1) \div 2, MaxSpan)])

(* The same index whatever the step: it is made of the block list. *)
PlanSnapshots(luck, known, sliceSize) ==
    LET list == BlockList(known)
        first == IF list = <<>> THEN FirstCreated ELSE Min({FirstCreated, list[1]})
    IN  OptimizeQueries(States, luck, Options,
            [s \in {1, 2} |-> IndexFromBlockList(list, latest, first, sliceSize)])

PlanShareRates(luck, known) ==
    PlanSnapshots(luck, known, Min({SnapshotBlocks, MaxSpan}))

(* maxBlocksPerQuery is Infinity: a query is a call at one block. *)
PlanStatistics(luck, known) == PlanSnapshots(luck, known, SnapshotBlocks)

(* addHistoricalDateQuery$, for one feed. *)
PlanPrices ==
    FlattenSeq(
        [i \in DOMAIN States |->
            LET s == States[i]
                ranges == RestrictRangesWithImportState(s.full, s.covered, s.toRetry,
                                                        FALSE, MaxSpan, MaxQueries)
            IN  [j \in DOMAIN ranges |->
                    [type |-> "prices", objs |-> {s.obj}, range |-> ranges[j],
                     filter |-> [o \in {s.obj} |-> <<>>]]]])

Lucks == {luck \in [Products -> 1 .. Cardinality(Products)] : IsInjective(luck)}

Plan ==
    /\ pc = "idle"
    /\ pc' = "running"
    /\ \/ /\ importer = "investments"
          /\ \E luck \in Lucks : plan' = PlanInvestments(luck)
       \/ /\ importer = "share rates"
          /\ \E luck \in Lucks, known \in {Max({0, latest - 1}), latest} :
                plan' = PlanShareRates(luck, known)
       \/ /\ importer = "statistics"
          /\ \E luck \in Lucks, known \in {Max({0, latest - 1}), latest} :
                plan' = PlanStatistics(luck, known)
       \/ /\ importer = "prices"
          /\ plan' = PlanPrices
    /\ UNCHANGED <<importer, latest, rows, recent, faults>>

-----------------------------------------------------------------------------
(* updateImportState$, for the results it has buffered. *)

UpdateImportRanges(row, covered, success, error) ==
    [covered |-> RangeMerge(row.covered \o covered),
     toRetry |-> RangeMerge(RangeArrayExclude(row.toRetry, success) \o error)]

(* mergeImportState: "items" are ranges, "failed" those that failed. *)
MergeImportState(row, items, failed) ==
    LET success == RangeMerge(SetToSeq(items \ failed))
        error == RangeMerge(SetToSeq(failed))
        covered == SetToSeq(items)
    IN  UpdateImportRanges(row,
            IF RangeArrayOverlap(covered) THEN RangeMerge(covered) ELSE covered,
            IF RangeManyOverlap(success, error)
            THEN RangeSortedArrayExclude(success, error) ELSE success,
            error)

(* The ranges of a product among the queries that are done. *)
RangesOf(p, queries) ==
    {item.range : item \in {i \in UNION {ObjsAndRanges(q) : q \in queries} : i.obj = p}}

(***************************************************************************)
(* The results of the run are recorded.  A query that fails does so for    *)
(* all it was made for; the results of others may be lost on the way, and  *)
(* the run may be cut short.                                               *)
(***************************************************************************)
RecordResults(done, failed) ==
    /\ pc = "running"
    /\ pc' = "idle"
    /\ rows' = [p \in Products |->
                  MergeImportState(rows[p], RangesOf(p, done), RangesOf(p, failed))]
    /\ plan' = <<>>
    /\ UNCHANGED <<importer, latest, recent>>

Record ==
    /\ RecordResults(ToSet(plan), {})
    /\ UNCHANGED faults

RecordSome ==
    /\ faults < MaxFaults
    /\ \E done \in SUBSET ToSet(plan) :
         \E failed \in SUBSET done :
            /\ done \ failed # ToSet(plan)
            /\ RecordResults(done, failed)
    /\ faults' = faults + 1

(***************************************************************************)
(* The recent importer has its own process: it queries the end of the      *)
(* chain whatever the state is, and its result is recorded in the rows     *)
(* that exist, here between any two steps of a run.                        *)
(***************************************************************************)
RecordRecent(p) ==
    LET window == Span(Max({Created[p], latest - RecentSpan + 1}), latest)
    IN  /\ Created[p] <= latest
        /\ recent < MaxRecent
        /\ recent' = recent + 1
        /\ \/ /\ rows' = [rows EXCEPT ![p] = MergeImportState(@, {window}, {})]
              /\ UNCHANGED faults
           \/ /\ faults < MaxFaults
              /\ rows' = [rows EXCEPT ![p] = MergeImportState(@, {window}, {window})]
              /\ faults' = faults + 1
        /\ UNCHANGED <<importer, latest, pc, plan>>

Next ==
    \/ NewBlock
    \/ Plan
    \/ Record
    \/ RecordSome
    \/ \E p \in Products : RecordRecent(p)

Spec == Init /\ [][Next]_vars

(***************************************************************************)
(* The chain goes on, the importer runs again and again                    *)
(* (repeatAtMostEvery) and a run ends; failures are finite.                *)
(***************************************************************************)
RunStarts == pc = "idle" /\ pc' = "running"
RunEnds == pc = "running" /\ pc' = "idle"

FairSpec == Spec /\ WF_vars(NewBlock) /\ WF_pc(RunStarts) /\ WF_pc(RunEnds)

-----------------------------------------------------------------------------
(* In order, valid, and apart: what RangeMerge leaves. *)
IsMerged(ranges) ==
    /\ \A i \in DOMAIN ranges : IsValidRange(ranges[i])
    /\ \A i \in 1 .. Len(ranges) - 1 : ranges[i].to + 1 < ranges[i + 1].from

(* The lists of a row never need to be sorted or merged again. *)
RowsMerged == \A p \in Products : IsMerged(rows[p].covered) /\ IsMerged(rows[p].toRetry)

(***************************************************************************)
(* "covered ranges should not be overlapping, this should never happen":   *)
(* a run queries no block of a product twice.                              *)
(***************************************************************************)
PlannedOnce ==
    \A i, j \in DOMAIN plan :
        \A a \in ObjsAndRanges(plan[i]), b \in ObjsAndRanges(plan[j]) :
            a.obj = b.obj /\ RangeOverlap(a.range, b.range) => i = j /\ a = b

(***************************************************************************)
(* "maxRangeSize: most rpc restrict on how much range we can query", and   *)
(* how many addresses (a statistic is read at one block of its range: the  *)
(* range is not restricted); nothing is asked outside of the life of a     *)
(* product.                                                                *)
(***************************************************************************)
WithinLimits ==
    \A i \in DOMAIN plan :
        /\ RangeSize(plan[i].range) \in
              1 .. (IF importer = "statistics" THEN Max({MaxSpan, SnapshotBlocks}) ELSE MaxSpan)
        /\ Cardinality(plan[i].objs) <= MaxAddresses
        /\ plan[i].range.to <= latest
        /\ \A a \in ObjsAndRanges(plan[i]) : a.range.from >= Created[a.obj]

(***************************************************************************)
(* Runs only query what was never covered or failed, and record it so: the *)
(* lists of ranges are the sets of ImportCoverage.                         *)
(***************************************************************************)
Abstract == INSTANCE ImportCoverage WITH
    Blocks <- 0 .. MaxBlock,
    covered <- [p \in Products |-> Points(rows[p].covered)],
    toRetry <- [p \in Products |-> Points(rows[p].toRetry)],
    planned <- [p \in Products |-> Points(SetToSeq(RangesOf(p, ToSet(plan))))]

ImplementsCoverage == Abstract!Spec

(***************************************************************************)
(* Whatever the limits leave out of a run, and whatever fails, the next    *)
(* runs query it: every block ends up imported, with nothing to retry.     *)
(* The latest block may wait for the next snapshot.                        *)
(***************************************************************************)
EverythingImported ==
    <>[](\A p \in Products :
            Created[p] .. MaxBlock - 1
                \subseteq Points(rows[p].covered) \ Points(rows[p].toRetry))
=============================================================================
