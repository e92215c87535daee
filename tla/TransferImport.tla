--------------------------- MODULE TransferImport ---------------------------
(***************************************************************************)
(* How the investment importer turns the events of products into rows: a   *)
(* run fetches the events of the blocks it planned, splits them by block,  *)
(* and loads each transfer through a pipeline of steps that work on        *)
(* batches, in any order: read the balance and the share rate, find the    *)
(* time of the block, insert the block, the investor, the price, the       *)
(* investment and its row of the investor cache.  A batch fails as a       *)
(* whole; the blocks of what failed are reported in error.                 *)
(*                                                                         *)
(* One chain, whose blocks are all there; the historical and the recent    *)
(* importer run at the same time.  What they plan from an import state,    *)
(* and how a report is recorded in it, is in ImportPlanning and            *)
(* ImportStateUpdate.  The time of a block is its number.                  *)
(***************************************************************************)
EXTENDS Integers, Sequences, FiniteSets, FiniteSetsExt

CONSTANTS
    Products,
    Owners,         \* the addresses that hold shares
    Ignored,        \* ignore_address: those that are left out
    MaxBlock,       \* the last block of the chain
    Created,        \* Created[p]: the block its contract was created in
    Logs,           \* the events of the products on the chain
    Chains,         \* the chains considered: their RPC and their products
    RecentBlocks,   \* what the recent importer plans
    MaxTake,        \* streamConfig.maxInputTake
    MaxRecent,      \* bound on the runs of the recent importer
    MaxFaults,      \* bound on the failures
    None

Blocks == 1 .. MaxBlock
Importers == {"historical", "recent"}

EventNames == {"Transfer", "Staked", "Withdrawn"}

(* A log whose "removed" flag is set was dropped by a reorganisation. *)
LogType == [product : Products, event : EventNames, from : Owners, to : Owners,
            amount : Nat, block : Blocks, index : Nat, removed : BOOLEAN]

Kinds == UNION {[P -> {"standard", "bridged", "boost", "gov"}] : P \in SUBSET Products}

(***************************************************************************)
(* What is said of an RPC in its limitations: whether a state can be read  *)
(* at its own block, the block the multicall contract was created in (None *)
(* when there is none), whether it can tell the time, and the number of    *)
(* eth_call in a batch (None for an RPC that cannot batch them).  And the  *)
(* types of the products there, with the blocks in which the vault of a    *)
(* product is empty ("empty vaults WILL throw an error" when asked for     *)
(* their share rate, share-rate-multi-block.ts).                           *)
(***************************************************************************)
ChainType == [sameBlock : BOOLEAN, multicall : Blocks \cup {None},
              timestamp : BOOLEAN, calls : Nat \cup {None},
              kind : Kinds, empty : SUBSET (Products \X Blocks)]

(* A chain has finitely many events, those of a contract after its creation. *)
ASSUME TransferAssumption ==
    /\ MaxBlock \in Nat
    /\ Ignored \subseteq Owners
    /\ Created \in [Products -> Blocks]
    /\ Logs \subseteq LogType
    /\ IsFiniteSet(Logs)
    /\ \A l \in Logs : Created[l.product] <= l.block
    /\ Chains \subseteq ChainType
    /\ RecentBlocks \subseteq Blocks
    /\ MaxTake \in Nat \ {0}
    /\ MaxRecent \in Nat
    /\ MaxFaults \in Nat
    /\ None \notin Nat

(* A block's time, as read at the block itself or at the next one. *)
Times == 1 .. MaxBlock + 1

VARIABLES
    chain,          \* the chain, its RPC and its products
    state,          \* import_state: what each product has, once created
    pc,             \* "idle" or "running"
    planned,        \* the blocks an importer has to query for each product
    pending,        \* the products whose events it has not fetched yet
    queue,          \* its items waiting for the sub pipeline
    current,        \* its items in the sub pipeline
    work,           \* the transfers of these items, and how far they are
    told,           \* how often a block of this run was reported
    blockTs,        \* block_ts: the times stored for a block
    investors,      \* investor: the addresses stored
    prices,         \* price_ts: the share rates stored
    investments,    \* investment_balance_ts
    cacheRows,      \* beefy_investor_timeline_cache_ts
    blind,          \* history: blocks whose time was stored twice unknowingly
    recentRuns,     \* number of runs of the recent importer
    faults          \* number of failures

tables == <<blockTs, investors, prices, investments, cacheRows, blind>>
runVars == <<pc, planned, pending, queue, current, work, told>>
vars == <<chain, state, runVars, tables, recentRuns, faults>>

-----------------------------------------------------------------------------
(* From events to transfers. *)

(* filterLogByTypeOfProduct *)
OfProduct(kind, l) ==
    /\ l.product \in DOMAIN kind
    /\ IF kind[l.product] \in {"boost", "gov"} THEN l.event \in {"Staked", "Withdrawn"}
       ELSE l.event = "Transfer"

(* logToTransfers: who gains or loses what. *)
LogToTransfers(l) ==
    LET Of(owner, amount) == [product |-> l.product, owner |-> owner, block |-> l.block,
                              amount |-> amount, index |-> l.index]
    IN  CASE l.event = "Transfer" -> {Of(l.from, -l.amount), Of(l.to, l.amount)}
          [] l.event = "Staked" -> {Of(l.from, l.amount)}
          [] l.event = "Withdrawn" -> {Of(l.from, -l.amount)}

SameGroup(m, n) == m.product = n.product /\ m.owner = n.owner /\ m.block = n.block

NetDiff(m, moves) ==
    MapThenSumSet(LAMBDA n : n.amount, {n \in moves : SameGroup(m, n)})

(* mergeErc20Transfers: the net transfer of an owner in a block, if any. *)
MergeErc20Transfers(moves) ==
    {t \in {[product |-> m.product, owner |-> m.owner, block |-> m.block,
             diff |-> NetDiff(m, moves)] : m \in moves} : t.diff # 0}

Moves(kind, logs) ==
    UNION {LogToTransfers(l) : l \in {x \in logs : ~x.removed /\ OfProduct(kind, x)}}

(***************************************************************************)
(* What the query for the products objs returns, each having its own       *)
(* blocks to query (the post filters).                                     *)
(***************************************************************************)
QueryTransfers(objs, blocks) ==
    LET wanted == UNION {blocks[p] : p \in objs}
        covering == {b \in Blocks : \E f, t \in wanted : f <= b /\ b <= t}
        rawLogs == {l \in Logs : l.product \in objs /\ l.block \in covering}
    IN  MergeErc20Transfers({m \in Moves(chain.kind, rawLogs) : m.block \in blocks[m.product]})

(* extractProductTransfersFromOutputAndTransfers *)
ProductTransfers(objs, blocks) ==
    LET transfers == QueryTransfers(objs, blocks)
    IN  {[product |-> p, blocks |-> blocks[p],
          transfers |-> {t \in transfers : t.product = p /\ t.block \in blocks[p]}]
          : p \in objs}

(* What an item has in some of its blocks. *)
PartOf(item, blocks) ==
    [product |-> item.product, blocks |-> blocks,
     transfers |-> {t \in item.transfers : t.block \in blocks}]

(* Mutant: the blocks with transfers are left in the range without. *)
SplitByBlockTwice(item) ==
    LET busy == {t.block : t \in item.transfers}
    IN  {PartOf(item, {b}) : b \in busy} \cup {[item EXCEPT !.transfers = {}]}

(* The blocks with transfers one by one, the others together. *)
SplitByBlock(item) ==
    LET busy == {t.block : t \in item.transfers}
        idle == item.blocks \ busy
    IN  {PartOf(item, {b}) : b \in busy}
        \cup (IF idle = {} THEN {} ELSE {PartOf(item, idle)})

-----------------------------------------------------------------------------

NothingPlanned == [p \in Products |-> {}]
NothingTold == [p \in Products |-> [b \in Blocks |-> 0]]

Init ==
    /\ chain \in Chains
    /\ state = [p \in Products |-> [created |-> FALSE, covered |-> {}, toRetry |-> {}]]
    /\ pc = [i \in Importers |-> "idle"]
    /\ planned = [i \in Importers |-> NothingPlanned]
    /\ pending = [i \in Importers |-> {}]
    /\ queue = [i \in Importers |-> {}]
    /\ current = [i \in Importers |-> {}]
    /\ work = [i \in Importers |-> <<>>]
    /\ told = [i \in Importers |-> NothingTold]
    /\ blockTs = [b \in Blocks |-> {}]
    /\ investors = {}
    /\ prices = {}
    /\ investments = {}
    /\ cacheRows = {}
    /\ blind = {}
    /\ recentRuns = 0
    /\ faults = 0

(* upsertBlock$ of times found without knowing of another one. *)
InsertTimes(rows, unknowing) ==
    /\ blockTs' = [b \in Blocks |-> blockTs[b] \cup {r.at : r \in {x \in rows : x.block = b}}]
    /\ blind' = blind \cup {b \in unknowing : Cardinality(blockTs'[b]) > 1}

-----------------------------------------------------------------------------
(* A run. *)

(***************************************************************************)
(* getContractCreationInfos: the explorer of the chain tells when the      *)
(* contracts were created, or fails for some (errors are caught).          *)
(***************************************************************************)
Creations(missing) == SUBSET missing

Start(i, plan) ==
    /\ pc[i] = "idle"
    /\ \E p \in Products : plan[p] # {}
    /\ pc' = [pc EXCEPT ![i] = "running"]
    /\ planned' = [planned EXCEPT ![i] = plan]
    /\ pending' = [pending EXCEPT ![i] = {p \in Products : plan[p] # {}}]
    /\ UNCHANGED <<chain, queue, current, work, told>>

(***************************************************************************)
(* The historical importer gives the products an import state, once their  *)
(* creation is known, and the block of the creation is stored.  A product  *)
(* whose creation cannot be found is left out of the run.  It plans all    *)
(* that is not imported.                                                   *)
(***************************************************************************)
StartHistorical ==
    LET missing == {p \in DOMAIN chain.kind : ~state[p].created}
    IN  \E found \in Creations(missing) :
        /\ found # missing => faults < MaxFaults
        /\ faults' = IF found = missing THEN faults ELSE faults + 1
        /\ state' = [p \in Products |-> [state[p] EXCEPT !.created = @ \/ p \in found]]
        /\ InsertTimes({[block |-> Created[p], at |-> Created[p]] : p \in found},
                       {Created[p] : p \in found})
        /\ Start("historical",
                 [p \in Products |->
                    IF state[p].created \/ p \in found
                    THEN (Created[p] .. MaxBlock) \ (state[p].covered \ state[p].toRetry)
                    ELSE {}])
        /\ UNCHANGED <<investors, prices, investments, cacheRows, recentRuns>>

StartRecent ==
    /\ recentRuns < MaxRecent
    /\ recentRuns' = recentRuns + 1
    /\ Start("recent", [p \in Products |->
                          IF p \in DOMAIN chain.kind THEN RecentBlocks ELSE {}])
    /\ UNCHANGED <<state, tables, faults>>

(* A report, recorded in the import state of the product if it has one. *)
Report(i, reports) ==
    /\ told' = [told EXCEPT ![i] =
                  [p \in Products |-> [b \in Blocks |->
                     @[p][b] + Cardinality({r \in reports : r.product = p /\ b \in r.blocks})]]]
    /\ state' = [p \in Products |->
                   LET Of(ok) == UNION {r.blocks : r \in {x \in reports :
                                           x.product = p /\ x.success = ok}}
                   IN  IF ~state[p].created THEN state[p]
                       ELSE [created |-> TRUE,
                             covered |-> state[p].covered \cup Of(TRUE) \cup Of(FALSE),
                             toRetry |-> (state[p].toRetry \ Of(TRUE)) \cup Of(FALSE)]]

(* fetchProductEvents$: one query for some products. *)
FetchEvents(i, objs) ==
    /\ pc[i] = "running"
    /\ objs # {}
    /\ pending' = [pending EXCEPT ![i] = @ \ objs]
    /\ queue' = [queue EXCEPT ![i] =
                   @ \cup UNION {SplitByBlock(item) :
                                   item \in ProductTransfers(objs, planned[i])}]
    /\ UNCHANGED <<chain, state, pc, planned, current, work, told, tables, recentRuns, faults>>

(* The query fails: all it was made for is in error. *)
FailEvents(i, objs) ==
    /\ pc[i] = "running"
    /\ objs # {}
    /\ faults < MaxFaults
    /\ faults' = faults + 1
    /\ pending' = [pending EXCEPT ![i] = @ \ objs]
    /\ Report(i, {[product |-> p, blocks |-> planned[i][p], success |-> FALSE] : p \in objs})
    /\ UNCHANGED <<chain, pc, planned, queue, current, work, tables, recentRuns>>

-----------------------------------------------------------------------------
(* executeSubPipeline$ *)

(* shouldIgnoreFn *)
TargetsOf(item) == {t \in item.transfers : t.owner \notin Ignored}

(***************************************************************************)
(* stage: the step a transfer waits for; at: the time of its block, None   *)
(* until it is known; unseen: the block was not stored when it was looked  *)
(* up; slow: the multicall could not be used for it.                       *)
(***************************************************************************)
NewTransfer == [stage |-> "data", at |-> None, unseen |-> FALSE, slow |-> FALSE]

(* The items that came since, when the batch before is done (concatMap). *)
Begin(i) ==
    /\ current[i] = {}
    /\ queue[i] # {}
    /\ current' = [current EXCEPT ![i] = queue[i]]
    /\ queue' = [queue EXCEPT ![i] = {}]
    /\ work' = [work EXCEPT ![i] =
                  [t \in UNION {TargetsOf(item) : item \in queue[i]} |-> NewTransfer]]
    /\ UNCHANGED <<chain, state, pc, planned, pending, told, tables, recentRuns, faults>>

(* Mutant: an item is in error when all its transfers are. *)
HasErrorIfAll(i, item) ==
    /\ TargetsOf(item) # {}
    /\ \A t \in TargetsOf(item) : work[i][t].stage = "failed"

(* An item is in error when one of its transfers is. *)
HasError(i, item) == \E t \in TargetsOf(item) : work[i][t].stage = "failed"

Finish(i) ==
    /\ current[i] # {}
    /\ \A t \in DOMAIN work[i] : work[i][t].stage \in {"stored", "failed"}
    /\ Report(i, {[product |-> item.product, blocks |-> item.blocks,
                   success |-> ~HasError(i, item)] : item \in current[i]})
    /\ current' = [current EXCEPT ![i] = {}]
    /\ work' = [work EXCEPT ![i] = <<>>]
    /\ UNCHANGED <<chain, pc, planned, pending, queue, tables, recentRuns, faults>>

(* All has been queried, loaded and reported. *)
Done(i) ==
    /\ pc[i] = "running"
    /\ pending[i] = {} /\ queue[i] = {} /\ current[i] = {}

Stop(i) ==
    /\ pc' = [pc EXCEPT ![i] = "idle"]
    /\ planned' = [planned EXCEPT ![i] = NothingPlanned]
    /\ pending' = [pending EXCEPT ![i] = {}]
    /\ queue' = [queue EXCEPT ![i] = {}]
    /\ current' = [current EXCEPT ![i] = {}]
    /\ work' = [work EXCEPT ![i] = <<>>]
    /\ told' = [told EXCEPT ![i] = NothingTold]
    /\ UNCHANGED <<chain, state, tables, recentRuns>>

End(i) ==
    /\ Done(i)
    /\ Stop(i)
    /\ UNCHANGED faults

(***************************************************************************)
(* The process stops, or a step throws (a ProgrammerError, the insertion   *)
(* of the block a time was fetched for): nothing more is reported.         *)
(***************************************************************************)
Crash(i) ==
    /\ pc[i] = "running"
    /\ faults < MaxFaults
    /\ faults' = faults + 1
    /\ Stop(i)

-----------------------------------------------------------------------------
(* The steps of the sub pipeline, each on a batch of transfers. *)

Waiting(i, stage) == {t \in DOMAIN work[i] : work[i][t].stage = stage}

Move(i, batch, New(_)) ==
    work' = [work EXCEPT ![i] = [t \in DOMAIN @ |-> IF t \in batch THEN New(t) ELSE @[t]]]

To(i, t, stage) == [work[i][t] EXCEPT !.stage = stage]

Idle(i) == UNCHANGED <<chain, state, pc, planned, pending, queue, current, told,
                       recentRuns, faults>>

(* getBatchConfigFromLimitations, for a number of eth_call per transfer. *)
MaxInputs(count) ==
    IF chain.calls = None THEN 1
    ELSE Max({1, Min({MaxTake, chain.calls \div count})})

(* Mutant: the balance is read at the block itself, whatever the RPC. *)
BlockTagItself(b) == b

(* The block whose state has the effects of this one (getBlockTag). *)
BlockTag(b) == IF chain.sameBlock THEN b ELSE b + 1

(* Can the multicall be used for these blocks, read together? *)
Multicall(batch) ==
    chain.multicall # None /\ \A t \in batch : chain.multicall < t.block

FetchesRate(t) == chain.kind[t.product] \in {"standard", "boost"}

AfterDate(i, t) ==
    IF work[i][t].slow /\ chain.multicall # None THEN "time" ELSE "block"

(* The multicall allows no failure: one empty vault rejects the batch. *)
Rejected(batch) ==
    /\ Multicall(batch)
    /\ \E t \in batch : FetchesRate(t) /\ <<t.product, t.block>> \in chain.empty

(* fetchBeefyTransferData$: balance, share rate and time in one multicall. *)
ReadData(i, batch) ==
    /\ Cardinality(batch) <= MaxInputs(2)
    /\ ~Rejected(batch)
    /\ Move(i, batch, LAMBDA t :
           IF ~Multicall(batch) THEN [To(i, t, "slow") EXCEPT !.slow = TRUE]
           ELSE IF chain.timestamp THEN [To(i, t, "time") EXCEPT !.at = BlockTag(t.block)]
           ELSE To(i, t, "date"))
    /\ UNCHANGED tables
    /\ Idle(i)

RejectData(i, batch) ==
    /\ Cardinality(batch) <= MaxInputs(2)
    /\ Rejected(batch)
    /\ Move(i, batch, LAMBDA t : To(i, t, "failed"))
    /\ UNCHANGED tables
    /\ Idle(i)

(* The call of a share rate by itself, then the time of its block. *)
RateAlone(i, t) == To(i, t, "date")

(* The share rate and the time of the block read for it, in one multicall. *)
RateByMulticall(i, t) == [To(i, t, AfterDate(i, t)) EXCEPT !.at = BlockTag(t.block)]

(***************************************************************************)
(* The share rate, then the balance, by calls of their own.  The share     *)
(* rates may be read by multicall after all, in batches made anew.  An     *)
(* empty vault has a share rate of one here.                               *)
(***************************************************************************)
ReadSlow(i, batch) ==
    LET rates == {t \in batch : FetchesRate(t)}
        byMulticall == chain.timestamp /\ Multicall(rates)
    IN  /\ Cardinality(rates) <= MaxInputs(IF chain.timestamp THEN 2 ELSE 1)
        /\ Move(i, batch, LAMBDA t :
               IF t \in rates /\ byMulticall THEN RateByMulticall(i, t) ELSE RateAlone(i, t))
        /\ UNCHANGED tables
        /\ Idle(i)

(* fetchBlock$: one of the times stored for each block, if there are any. *)
Answers ==
    {found \in [Blocks -> UNION {blockTs[b] : b \in Blocks} \cup {None}] :
        \A b \in Blocks :
            IF blockTs[b] = {} THEN found[b] = None ELSE found[b] \in blockTs[b]}

(* fetchBlockDatetime$: from the table if it is there. *)
LookUpDate(i, batch) ==
    /\ \E found \in Answers :
          Move(i, batch, LAMBDA t :
              IF found[t.block] = None THEN To(i, t, "rpc")
              ELSE [To(i, t, AfterDate(i, t)) EXCEPT !.at = found[t.block]])
    /\ UNCHANGED tables
    /\ Idle(i)

(* From the RPC if it is not, and into the table. *)
FetchDate(i, batch) ==
    /\ InsertTimes({[block |-> t.block, at |-> t.block] : t \in batch},
                   {t.block : t \in batch})
    /\ Move(i, batch, LAMBDA t : [To(i, t, AfterDate(i, t)) EXCEPT !.at = t.block])
    /\ UNCHANGED <<investors, prices, investments, cacheRows>>
    /\ Idle(i)

(* Mutant: the time of the multicall is used, stored block or not. *)
LookUpTimeUnused(i, batch) ==
    /\ \E found \in Answers :
          Move(i, batch, LAMBDA t :
              [To(i, t, "block") EXCEPT !.unseen = (found[t.block] = None)])
    /\ UNCHANGED tables
    /\ Idle(i)

(* The time stored for the block is preferred to the one of the multicall. *)
LookUpTime(i, batch) ==
    /\ \E found \in Answers :
          Move(i, batch, LAMBDA t :
              IF found[t.block] = None THEN [To(i, t, "block") EXCEPT !.unseen = TRUE]
              ELSE [To(i, t, "block") EXCEPT !.at = found[t.block]])
    /\ UNCHANGED tables
    /\ Idle(i)

(***************************************************************************)
(* upsertBlock$, once the share rate of a bridged vault has been read on   *)
(* the chain of the vault (fetchBeefyBridgedVaultShareRateIfNeeded).       *)
(***************************************************************************)
InsertBlocks(i, batch) ==
    /\ InsertTimes({[block |-> t.block, at |-> work[i][t].at] : t \in batch},
                   {t.block : t \in {u \in batch : work[i][u].unseen}})
    /\ Move(i, batch, LAMBDA t : [To(i, t, "rows") EXCEPT !.unseen = FALSE, !.slow = FALSE])
    /\ UNCHANGED <<investors, prices, investments, cacheRows>>
    /\ Idle(i)

(* The block on the chain of a bridged vault is found from the time. *)
SharePrice(i, t) ==
    [product |-> t.product, at |-> work[i][t].at,
     block |-> IF chain.kind[t.product] = "bridged" THEN work[i][t].at ELSE t.block]

(* balanceOf, in the state of a block *)
Shares ==
    [kind \in Kinds |-> [p \in Products |-> [o \in Owners |-> [b \in 0 .. MaxBlock + 1 |->
        MapThenSumSet(LAMBDA m : m.amount,
            {m \in Moves(kind, Logs) : m.product = p /\ m.owner = o /\ m.block <= b})]]]]

(***************************************************************************)
(* An RPC that cannot read the changes of a block in the block itself is   *)
(* asked for the next one.  It is taken to show there all the changes of   *)
(* the first and none of the second (stateChangeReadsOnSameBlock: such a   *)
(* node "will return 0, sometimes 1", rpc-limitations.ts).                 *)
(***************************************************************************)
BalanceRead(t) ==
    Shares[chain.kind][t.product][t.owner][
           IF chain.sameBlock THEN BlockTag(t.block) ELSE BlockTag(t.block) - 1]

Row(i, t) == [product |-> t.product, owner |-> t.owner, block |-> t.block,
              at |-> work[i][t].at, balance |-> BalanceRead(t), diff |-> t.diff]

(* Mutant: the rows of an owner are in conflict whatever their block. *)
SameOwner(r, s) == r.product = s.product /\ r.owner = s.owner

SameKey(r, s) == /\ r.product = s.product /\ r.owner = s.owner
                 /\ r.block = s.block /\ r.at = s.at

(* ON CONFLICT (product_id, investor_id, block_number, datetime) DO UPDATE *)
Upsert(rows, new) ==
    {r \in rows : \A n \in new : ~SameKey(r, n)} \cup new

(***************************************************************************)
(* upsertInvestor$, upsertPrice$, upsertInvestment$ and                    *)
(* upsertInvestorCacheChainInfos$: one statement after the other, up to    *)
(* the one that fails.  No step reads these tables, so that the moments    *)
(* between two of them are left out.                                       *)
(***************************************************************************)
Tables == <<"investor", "price", "investment", "cache">>

InsertRows(i, batch, done) ==
    LET rows == {Row(i, t) : t \in batch}
        Reached(n) == n <= done
    IN  /\ investors' = IF Reached(1) THEN investors \cup {t.owner : t \in batch} ELSE investors
        /\ prices' = IF Reached(2) THEN prices \cup {SharePrice(i, t) : t \in batch} ELSE prices
        /\ investments' = IF Reached(3) THEN Upsert(investments, rows) ELSE investments
        /\ cacheRows' = IF Reached(4) THEN Upsert(cacheRows, rows) ELSE cacheRows
        /\ UNCHANGED <<blockTs, blind>>

StoreRows(i, batch) ==
    /\ InsertRows(i, batch, Len(Tables))
    /\ Move(i, batch, LAMBDA t : To(i, t, "stored"))
    /\ Idle(i)

Stages == {"data", "slow", "date", "rpc", "time", "block", "rows"}

(* Mutant: the error is emitted for one of the batch only. *)
FailBatchOnce(i, batch) ==
    /\ faults < MaxFaults
    /\ faults' = faults + 1
    /\ \E u \in batch : Move(i, batch, LAMBDA t : To(i, t, IF t = u THEN "failed" ELSE "lost"))
    /\ UNCHANGED <<chain, state, pc, planned, pending, queue, current, told, recentRuns>>

(* A batch of calls or of rows fails, and all of it is in error. *)
FailBatch(i, batch) ==
    /\ faults < MaxFaults
    /\ faults' = faults + 1
    /\ Move(i, batch, LAMBDA t : To(i, t, "failed"))
    /\ UNCHANGED <<chain, state, pc, planned, pending, queue, current, told, recentRuns>>

FailRead(i, batch) ==
    /\ FailBatch(i, batch)
    /\ UNCHANGED tables

FailRows(i, batch) ==
    /\ FailBatch(i, batch)
    /\ \E done \in 0 .. Len(Tables) - 1 : InsertRows(i, batch, done)

-----------------------------------------------------------------------------

Batches(i, stage) == SUBSET Waiting(i, stage) \ {{}}

Step(i) ==
    \/ \E batch \in Batches(i, "data") : ReadData(i, batch) \/ RejectData(i, batch)
    \/ \E batch \in Batches(i, "slow") : ReadSlow(i, batch)
    \/ \E batch \in Batches(i, "date") : LookUpDate(i, batch)
    \/ \E batch \in Batches(i, "rpc") : FetchDate(i, batch)
    \/ \E batch \in Batches(i, "time") : LookUpTime(i, batch)
    \/ \E batch \in Batches(i, "block") : InsertBlocks(i, batch)
    \/ \E batch \in Batches(i, "rows") : StoreRows(i, batch)

(* What an importer does once it runs, whatever fails. *)
Progress(i) ==
    \/ \E objs \in SUBSET pending[i] : FetchEvents(i, objs)
    \/ Begin(i)
    \/ Step(i)
    \/ Finish(i)
    \/ End(i)

Failure(i) ==
    \/ \E objs \in SUBSET pending[i] : FailEvents(i, objs)
    \/ \E stage \in Stages \ {"rows"} : \E batch \in Batches(i, stage) : FailRead(i, batch)
    \/ \E batch \in Batches(i, "rows") : FailRows(i, batch)
    \/ Crash(i)

Next ==
    \/ StartHistorical
    \/ StartRecent
    \/ \E i \in Importers : Progress(i) \/ Failure(i)

Spec == Init /\ [][Next]_vars

(* Runs follow one another, and a run goes on. *)
FairSpec ==
    /\ Spec
    /\ WF_vars(StartHistorical)
    /\ WF_vars(Progress("historical"))

-----------------------------------------------------------------------------

(* The type of the variables. *)
TransferType == [product : Products, owner : Owners, block : Blocks, diff : Int]
ItemType == [product : Products, blocks : SUBSET Blocks, transfers : SUBSET TransferType]
WorkType == [stage : Stages \cup {"stored", "failed"}, at : Times \cup {None},
             unseen : BOOLEAN, slow : BOOLEAN]
RowType == [product : Products, owner : Owners, block : Blocks, at : Times,
            balance : Int, diff : Int]

TypeOK ==
    /\ chain \in Chains
    /\ state \in [Products -> [created : BOOLEAN, covered : SUBSET Blocks,
                               toRetry : SUBSET Blocks]]
    /\ pc \in [Importers -> {"idle", "running"}]
    /\ planned \in [Importers -> [Products -> SUBSET Blocks]]
    /\ pending \in [Importers -> SUBSET Products]
    /\ queue \in [Importers -> SUBSET ItemType]
    /\ current \in [Importers -> SUBSET ItemType]
    /\ DOMAIN work = Importers
    /\ \A i \in Importers :
          /\ DOMAIN work[i] \subseteq TransferType
          /\ \A t \in DOMAIN work[i] : work[i][t] \in WorkType
    /\ told \in [Importers -> [Products -> [Blocks -> Nat]]]
    /\ blockTs \in [Blocks -> SUBSET Times]
    /\ investors \subseteq Owners
    /\ prices \subseteq [product : Products, block : Times, at : Times]
    /\ investments \subseteq RowType
    /\ cacheRows \subseteq RowType
    /\ blind \subseteq Blocks
    /\ recentRuns \in Nat
    /\ faults \in Nat

(* What a product's events of a block amount to, for those not ignored. *)
NetTransfers == [kind \in Kinds |-> MergeErc20Transfers(Moves(kind, Logs))]

TransfersAt(p, b) ==
    {t \in NetTransfers[chain.kind] :
        t.product = p /\ t.block = b /\ t.owner \notin Ignored}

Imported(p) == state[p].covered \ state[p].toRetry

(* All the rows of a transfer are there. *)
Stored(t) ==
    \E r \in investments \cap cacheRows :
        /\ r.product = t.product /\ r.owner = t.owner
        /\ r.block = t.block /\ r.diff = t.diff
        /\ r.at \in blockTs[r.block]
        /\ r.owner \in investors
        /\ \E s \in prices : s.product = r.product /\ s.at = r.at

(***************************************************************************)
(* A block is recorded as imported only when each transfer of the product  *)
(* in it has all its rows, whatever batch, query or run failed before      *)
(* (executeSubPipeline$ reports an item when all its transfers are done).  *)
(***************************************************************************)
ImportedIsStored ==
    \A p \in Products : \A b \in Imported(p) : \A t \in TransfersAt(p, b) : Stored(t)

RowsOf(p, o, b) == {r \in investments : r.product = p /\ r.owner = o /\ r.block <= b}

(***************************************************************************)
(* The rows of an owner add up: once the blocks of a product are imported  *)
(* up to one, the changes of balance stored are what the owner holds, and  *)
(* so is the balance of the last row (mergeErc20Transfers, balanceOf).     *)
(***************************************************************************)
RowsAddUp ==
    \A p \in Products, b \in Blocks, o \in Owners \ Ignored :
        ((Created[p] .. b) \subseteq Imported(p) /\ blind = {}) =>
            LET rows == RowsOf(p, o, b)
            IN  /\ MapThenSumSet(LAMBDA r : r.diff, rows) = Shares[chain.kind][p][o][b]
                /\ \A r \in rows : (\A s \in rows : s.block <= r.block)
                                      => r.balance = Shares[chain.kind][p][o][b]

(***************************************************************************)
(* A block has one time, and an owner one row in it for each product: the  *)
(* time stored first is used by all, unless two of them stored one without *)
(* having seen the other's ("use the same datetime ... to avoid duplicate  *)
(* rows", transfer-data.ts).                                               *)
(***************************************************************************)
DatesAgree ==
    /\ \A b \in Blocks \ blind : Cardinality(blockTs[b]) <= 1
    /\ \A r, s \in investments :
          (/\ r.product = s.product /\ r.owner = s.owner
           /\ r.block = s.block /\ r.block \notin blind) => r = s

(***************************************************************************)
(* A row that is stored stays as it is: what is imported again, after a    *)
(* failure or by the other importer, gives the same rows                   *)
(* (upsertInvestment$ replaces the row with the same key).                 *)
(***************************************************************************)
RowsStay == [][investments \subseteq investments' /\ cacheRows \subseteq cacheRows']_vars

(***************************************************************************)
(* A run that ends has reported each block it had planned exactly once, a  *)
(* success or an error, and no run reports a block twice.                  *)
(***************************************************************************)
BlocksToldOnce ==
    \A i \in Importers, p \in Products, b \in Blocks :
        /\ told[i][p][b] <= 1
        /\ told[i][p][b] = 1 => b \in planned[i][p]
        /\ (Done(i) /\ b \in planned[i][p]) => told[i][p][b] = 1

(***************************************************************************)
(* Failures being bounded, all the transfers are stored in the end, unless *)
(* a vault is empty: a transfer in such a block, and those read with it,   *)
(* can be rejected for ever.                                               *)
(***************************************************************************)
EverythingStored ==
    <>[](chain.empty = {} =>
            \A p \in DOMAIN chain.kind : Created[p] .. MaxBlock \subseteq Imported(p))
=============================================================================
