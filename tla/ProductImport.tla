--------------------------- MODULE ProductImport ----------------------------
(***************************************************************************)
(* The investment import of one product, as its importers run it: the      *)
(* historical importer (complete, from the creation of the contract), the  *)
(* recent importer (fast, the newest blocks only) and the command that     *)
(* schedules a reimport, all sharing the import_state row of the product.  *)
(*                                                                         *)
(* A run of an importer reads the row (historical only, it creates it when *)
(* missing), asks an RPC node for the latest block, plans the blocks to    *)
(* query, queries them, stores what they contain and records the results   *)
(* in the row.  The transaction that records them is atomic here:          *)
(* ImportStateUpdate is its detail.                                        *)
(*                                                                         *)
(* The nodes behind an RPC url do not all know the newest blocks.  Asked   *)
(* for the events of a block it does not know, a node answers with nothing *)
(* or with an error.  Nodes, chain and contract explorer are external.     *)
(*                                                                         *)
(* Not modelled: limitQueriesCountTo, which cuts the plan of one run short *)
(* and leaves the rest to the next runs, and forceConsideredBlockRange.    *)
(***************************************************************************)
EXTENDS ImportRanges

CONSTANTS
    Historical, Recent,         \* the importers, by behaviour.mode
    Ignoring,                   \* those run with behaviour.ignoreImportState
    Deployments,                \* the sets of importers that run side by side
    MaxBlock,                   \* bound: the chain stops there
    Created,                    \* importData.contractCreatedAtBlock
    WaitForBlockPropagation,    \* behaviour.waitForBlockPropagation
    MaxLag,                     \* how many blocks a node may be behind
    MaxBlocksPerQuery,          \* rpcLimitations.maxGetLogsBlockSpan
    PeriodInBlocks,             \* periodInBlockCountEstimate
    SkipRecent,                 \* what skipRecentWindowWhenHistorical says
    ReimportTo,                 \* the toBlock options given, 0 when none
    SettledReimports,           \* nobody asks for blocks still propagating
    MaxReimports, MaxFaults,    \* bounds
    NoRow                       \* the product has no import state yet

Workers == Historical \cup Recent

ASSUME WorkersAssumption ==
    /\ Historical \cap Recent = {}
    /\ Ignoring \subseteq Workers
    /\ Deployments \subseteq SUBSET Workers
ASSUME ChainAssumption ==
    /\ MaxBlock \in Nat
    /\ Blocks = 0 .. MaxBlock
    /\ Created \in 0 .. MaxBlock
    /\ WaitForBlockPropagation \in Nat
    /\ MaxLag \in Nat
ASSUME QueryAssumption ==
    /\ MaxBlocksPerQuery \in Nat \ {0}
    /\ PeriodInBlocks \in Nat \ {0}
    /\ SkipRecent \in BOOLEAN
ASSUME ReimportAssumption ==
    /\ ReimportTo \subseteq Blocks
    /\ SettledReimports \in BOOLEAN
    /\ MaxReimports \in Nat
    /\ MaxFaults \in Nat
ASSUME NoRowAssumption == NoRow \notin ImportState

VARIABLES
    deployed,       \* the importers that run, each in a process of its own
    head,           \* the newest block of the chain
    rpcHead,        \* the newest block that every node knows
    row,            \* the import state of the product, NoRow when missing
    stored,         \* the blocks whose events are in the database
    pc,             \* what the importer is doing
    seen,           \* the row a historical importer fetched
    latest,         \* the latest block number of the run
    todo,           \* the blocks left to query in the run
    buffer,         \* the results of the run that are not recorded yet
    reimport,       \* the blocks the reimport command is about to schedule
    reimports,      \* number of reimports asked for
    asked,          \* history: reimports scheduled and not queried since
    faults          \* number of failures

chain == <<head, rpcHead>>
run == <<pc, seen, latest, todo>>
command == <<reimport, reimports>>
vars == <<deployed, head, rpcHead, row, stored, pc, seen, latest, todo, buffer,
          reimport, reimports, asked, faults>>

MinOf(m, n) == IF m <= n THEN m ELSE n

Init ==
    /\ deployed \in Deployments
    /\ head = Created
    /\ rpcHead = Created
    /\ row = NoRow
    /\ stored = {}
    /\ pc = [w \in Workers |-> "idle"]
    /\ seen = [w \in Workers |-> NoRow]
    /\ latest = [w \in Workers |-> 0]
    /\ todo = [w \in Workers |-> {}]
    /\ buffer = [w \in Workers |-> NoResult]
    /\ reimport = {}
    /\ reimports = 0
    /\ asked = {}
    /\ faults = 0

-----------------------------------------------------------------------------
(* The chain and the RPC nodes. *)

ChainAdvances ==
    /\ head < MaxBlock
    /\ head + 1 - rpcHead <= MaxLag
    /\ head' = head + 1
    /\ UNCHANGED <<rpcHead, row, stored, run, buffer, command, asked, faults>>

NodesCatchUp ==
    /\ rpcHead < head
    /\ rpcHead' = rpcHead + 1
    /\ UNCHANGED <<head, row, stored, run, buffer, command, asked, faults>>

-----------------------------------------------------------------------------
(* A run of an importer. *)

Fails == faults < MaxFaults /\ faults' = faults + 1

(* The historical importer fetches the import state of the product. *)
Start(w) ==
    /\ w \in Historical
    /\ pc[w] = "idle"
    /\ seen' = [seen EXCEPT ![w] = row]
    /\ pc' = [pc EXCEPT ![w] = IF row = NoRow THEN "create" ELSE "plan"]
    /\ UNCHANGED <<chain, row, stored, latest, todo, buffer, command, asked, faults>>

(***************************************************************************)
(* INSERT ... ON CONFLICT DO UPDATE jsonb_merge: when the row was created  *)
(* in the meantime its ranges are kept (the new, empty lists are appended  *)
(* to them) and its latest block number is overwritten.                    *)
(***************************************************************************)
Create(w) ==
    /\ pc[w] = "create"
    /\ row' = IF row = NoRow THEN DefaultImportState(Created)
                             ELSE [row EXCEPT !.latest = Created]
    /\ seen' = [seen EXCEPT ![w] = row']
    /\ pc' = [pc EXCEPT ![w] = "plan"]
    /\ UNCHANGED <<chain, stored, latest, todo, buffer, command, asked, faults>>

(* The explorer does not find the contract: no product in this run. *)
CreationInfoMissing(w) ==
    /\ pc[w] = "create"
    /\ Fails
    /\ pc' = [pc EXCEPT ![w] = "idle"]
    /\ UNCHANGED <<chain, row, stored, seen, latest, todo, buffer, command, asked>>

(* Mutant: the window may start before the first block. *)
RecentFromUnclamped(last, l) ==
    l - MinOf(MaxBlocksPerQuery, PeriodInBlocks) - WaitForBlockPropagation

(***************************************************************************)
(* importStateToOptimizerRangeInput: the first block of the recent window, *)
(* one block after the last imported one when that is a shorter window.    *)
(***************************************************************************)
RecentFrom(last, l) ==
    LET window == MinOf(MaxBlocksPerQuery, PeriodInBlocks)
        sinceLast == MaxOf(0, l - (last + WaitForBlockPropagation + 1))
        count == IF last = 0 THEN window ELSE MinOf(window, sinceLast)
    IN  MaxOf(WaitForBlockPropagation, l - count) - WaitForBlockPropagation

(* Mutant: the newest blocks are considered too. *)
FullRangeWithoutWait(w, last, l) ==
    IF w \in Recent THEN RecentFrom(last, l) .. l ELSE Created .. l

(* The full range to consider, given what the runner last imported. *)
FullRange(w, last, l) ==
    LET settled == l - WaitForBlockPropagation
        recentFrom == RecentFrom(last, l)
    IN  IF w \in Recent THEN recentFrom .. settled
        ELSE Created .. (IF SkipRecent THEN MinOf(settled, recentFrom) ELSE settled)

(* Mutant: the retries are excluded from the range, and not queried. *)
RangesWithoutRetries(w, last, l) ==
    FullRange(w, last, l) \
        (IF w \in Recent \cup Ignoring THEN {} ELSE seen[w].covered)

(* Mutant: only the blocks after the last imported one are queried. *)
RangesAfterLastImported(w, last, l) == FullRange(w, last, l) \ 0 .. last

(***************************************************************************)
(* What optimizeQueries is asked to query: the blocks never covered, then  *)
(* the retries.  A product whose full range is empty is left out.          *)
(***************************************************************************)
RangesToQuery(w, last, l) ==
    LET full == FullRange(w, last, l)
        state == IF w \in Recent \cup Ignoring
                 THEN DefaultImportState(0) ELSE seen[w]
    IN  IF full = {} THEN {}
        ELSE (full \ state.covered) \cup state.toRetry

(***************************************************************************)
(* The run is planned with a latest block number and the lastImportCache   *)
(* of the runner: the highest block it imported for ANY product of the     *)
(* chain since the process started, hence any block here, or none (0).     *)
(* The recent importer does without the import state.                      *)
(***************************************************************************)
PlanWith(w, l) ==
    /\ pc[w] = IF w \in Recent THEN "idle" ELSE "plan"
    /\ latest' = [latest EXCEPT ![w] = l]
    /\ \E last \in 0 .. head :
         todo' = [todo EXCEPT ![w] = RangesToQuery(w, last, l)]
    /\ seen' = [seen EXCEPT ![w] = NoRow]
    /\ pc' = [pc EXCEPT ![w] = "query"]
    /\ UNCHANGED <<chain, row, stored, buffer, command, asked>>

(* eth_blockNumber is answered by any node behind the url. *)
Plan(w) ==
    /\ \E l \in rpcHead .. head : PlanWith(w, l)
    /\ UNCHANGED faults

(* It fails: the latest block of the database, or an old answer, is used. *)
PlanFromOldBlock(w) ==
    /\ \E l \in 0 .. head : PlanWith(w, l)
    /\ Fails

(***************************************************************************)
(* One query of at most MaxBlocksPerQuery blocks, its events split by      *)
(* block and stored, each range ending as a success or as an error.  The   *)
(* node knows the blocks up to "known": the others look empty.  "told"     *)
(* are the errors that reach the error stream of the run: the others are   *)
(* lost.                                                                   *)
(***************************************************************************)
QueryWith(w, first, failed, told) ==
    LET query == todo[w] \cap (first .. first + MaxBlocksPerQuery - 1)
        success == query \ failed
    IN  /\ pc[w] = "query"
        /\ first \in todo[w]
        /\ failed \subseteq query
        /\ told \subseteq failed
        /\ todo' = [todo EXCEPT ![w] = @ \ query]
        /\ \E known \in rpcHead .. head :
             stored' = stored \cup {b \in success : b <= known}
        /\ buffer' = [buffer EXCEPT ![w] = AddResult(@, success, told, latest[w])]
        /\ asked' = asked \ query
        /\ UNCHANGED <<chain, row, pc, seen, latest, command>>

Query(w) ==
    /\ \E first \in todo[w] : QueryWith(w, first, {}, {})
    /\ UNCHANGED faults

QueryFails(w) ==
    /\ \E first \in todo[w], failed \in (SUBSET todo[w]) \ {{}} :
         \E told \in {failed, {}} : QueryWith(w, first, failed, told)
    /\ Fails

(* updateImportState$, for the products that have an import state. *)
Record(w) ==
    /\ buffer[w] # NoResult
    /\ row' = IF row = NoRow THEN NoRow ELSE MergeImportState(buffer[w], row)
    /\ buffer' = [buffer EXCEPT ![w] = NoResult]
    /\ UNCHANGED <<chain, stored, run, command, asked, faults>>

(* The transaction timed out too often: the results are dropped. *)
RecordFails(w) ==
    /\ buffer[w] # NoResult
    /\ Fails
    /\ buffer' = [buffer EXCEPT ![w] = NoResult]
    /\ UNCHANGED <<chain, row, stored, run, command, asked>>

EndRun(w) ==
    /\ pc[w] = "query"
    /\ todo[w] = {}
    /\ buffer[w] = NoResult
    /\ pc' = [pc EXCEPT ![w] = "idle"]
    /\ latest' = [latest EXCEPT ![w] = 0]
    /\ UNCHANGED <<chain, row, stored, seen, todo, buffer, command, asked, faults>>

(***************************************************************************)
(* The run is cut short: the products were polled again while it was going *)
(* on, or the process ended.                                                *)
(***************************************************************************)
Stop(w) ==
    /\ pc[w] # "idle"
    /\ Fails
    /\ pc' = [pc EXCEPT ![w] = "idle"]
    /\ seen' = [seen EXCEPT ![w] = NoRow]
    /\ latest' = [latest EXCEPT ![w] = 0]
    /\ todo' = [todo EXCEPT ![w] = {}]
    /\ buffer' = [buffer EXCEPT ![w] = NoResult]
    /\ UNCHANGED <<chain, row, stored, command, asked>>

-----------------------------------------------------------------------------
(* beefy:reimport:schedule. *)

(* The command reads the row; without toBlock it uses its latest block. *)
ReimportRequest ==
    /\ reimports < MaxReimports
    /\ row # NoRow
    /\ reimport = {}
    /\ \E from \in Blocks, toBlock \in ReimportTo :
         LET to == IF toBlock = 0 THEN row.latest ELSE toBlock
             range == (MaxOf(from, Created + 1) .. to) \cap Blocks
         IN  /\ range # {}
             /\ SettledReimports => to <= head - WaitForBlockPropagation
             /\ reimport' = range
    /\ reimports' = reimports + 1
    /\ UNCHANGED <<chain, row, stored, run, buffer, asked, faults>>

(* updateImportState$ with the whole range as a failed query. *)
ReimportSchedule ==
    /\ reimport # {}
    /\ row' = MergeImportState(AddResult(NoResult, {}, reimport, 0), row)
    /\ asked' = asked \cup reimport
    /\ reimport' = {}
    /\ UNCHANGED <<chain, stored, run, buffer, reimports, faults>>

-----------------------------------------------------------------------------

Work(w) == Start(w) \/ Create(w) \/ Plan(w) \/ Query(w) \/ Record(w) \/ EndRun(w)

Fault(w) ==
    \/ CreationInfoMissing(w)
    \/ PlanFromOldBlock(w)
    \/ QueryFails(w)
    \/ RecordFails(w)
    \/ Stop(w)

Step ==
    \/ ChainAdvances
    \/ NodesCatchUp
    \/ ReimportRequest
    \/ ReimportSchedule
    \/ \E w \in deployed :
         \/ Work(w)
         \/ Fault(w)

Next == Step /\ UNCHANGED deployed

Spec == Init /\ [][Next]_vars

TakesStep(w, step) == w \in deployed /\ step /\ UNCHANGED deployed

(***************************************************************************)
(* The chain goes on, nodes catch up, and an importer that loops           *)
(* (repeatAtMostEvery) always takes its next step; failures are finite.    *)
(* Importing without the import state is a repair run by hand: nothing is  *)
(* expected of it.                                                         *)
(***************************************************************************)
Fairness ==
    /\ WF_vars(ChainAdvances /\ UNCHANGED deployed)
    /\ WF_vars(NodesCatchUp /\ UNCHANGED deployed)
    /\ \A w \in Workers \ Ignoring :
          /\ WF_vars(TakesStep(w, Start(w) \/ Create(w) \/ Plan(w) \/ EndRun(w)))
          /\ WF_vars(TakesStep(w, Query(w)))
          /\ WF_vars(TakesStep(w, Record(w)))

FairSpec == Spec /\ Fairness

-----------------------------------------------------------------------------

TypeOK ==
    /\ deployed \in Deployments
    /\ head \in Created .. MaxBlock
    /\ rpcHead \in Created .. MaxBlock
    /\ row \in ImportState \cup {NoRow}
    /\ stored \subseteq Blocks
    /\ pc \in [Workers -> {"idle", "create", "plan", "query"}]
    /\ seen \in [Workers -> ImportState \cup {NoRow}]
    /\ latest \in [Workers -> Nat]
    /\ todo \in [Workers -> SUBSET Blocks]
    /\ buffer \in [Workers -> Buffer]
    /\ reimport \subseteq Blocks
    /\ reimports \in 0 .. MaxReimports
    /\ asked \subseteq Blocks
    /\ faults \in 0 .. MaxFaults

(***************************************************************************)
(* A block the import state counts as imported has its events in the       *)
(* database: nothing will query it again, so a block missing there would   *)
(* be missing for ever.                                                    *)
(***************************************************************************)
NoSilentGap == row # NoRow => Imported(row) \subseteq stored

(***************************************************************************)
(* "wait some time to avoid errors ... where the RPC don't know about the  *)
(* block number he just gave us": no importer queries one of the newest    *)
(* waitForBlockPropagation blocks of the chain.                            *)
(***************************************************************************)
WaitsForPropagation ==
    \A w \in Workers : \A b \in todo[w] : b + WaitForBlockPropagation <= head

(***************************************************************************)
(* "makes sure we don't miss anything": every block of the contract that   *)
(* the recent window has left behind ends up imported, whatever the        *)
(* failures, and whatever the recent importer skipped.                     *)
(***************************************************************************)
SettledBlocks ==
    Created .. (MaxBlock - WaitForBlockPropagation - MinOf(MaxBlocksPerQuery, PeriodInBlocks))

AllImported == \A b \in SettledBlocks : <>(b \in stored)

(***************************************************************************)
(* "retries failed requests automatically": a range to retry does not stay *)
(* one for ever.                                                           *)
(***************************************************************************)
RetriesEnd ==
    \A b \in Blocks :
        (row # NoRow /\ b \in row.toRetry) ~> (row # NoRow /\ b \notin row.toRetry)

(***************************************************************************)
(* "Schedule the reimport of a product range": what was scheduled is       *)
(* queried again afterwards.                                               *)
(***************************************************************************)
ReimportHappens == \A b \in Blocks : b \in asked ~> b \notin asked
=============================================================================
