# Beefy importer: specifications and proofs

TLA+ models of the Beefy dashboard importer (`src/`), the TLC configurations
that check them on small instances, and TLAPS proofs of the main results for
every instance. Paths are relative to the repository's `src/src/`.

The importer is a set of Node.js processes (one per chain, importer and mode:
`deploy/import`) around one PostgreSQL database and one Redis. A process polls
its products, splits them between the RPC endpoints of the chain and runs an
rxjs pipeline per endpoint: read what was imported, plan block ranges, query
them, store what they contain, record what was covered. Its promise is that
every block is imported once it can be, whatever fails on the way. The state
that carries this promise from run to run is the `import_state` table, and
this is where the project starts.

## 1. Inventory

For each component: its state, its operations, whom it talks to, what is hard,
what makes it correct. What has no module is listed in section 7.

| component | state | operations | talks to |
|---|---|---|---|
| Import result recording (`protocol/common/loader/import-state.ts`, `utils/import-ranges.ts`, `utils/async.ts`) | one row per product or feed: covered ranges, ranges to retry, latest block; a buffer of results per process | fetch, create (upsert), buffer by time, merge under `SELECT ... FOR UPDATE`, retry, give up | every importer, the database |
| Database access (`utils/db.ts`) | connection pool, open transactions | `db_query`, `db_transaction` with timeouts on connection and work | PostgreSQL |
| Product investment import (`protocol/beefy/loader/investment`, `utils/query/import-state-to-range-input.ts`, `connector/latest-block-number.ts`) | last imported block of the runner, results of the run | create the state, get the latest block, generate ranges, query events, store, record | recording, RPC nodes, explorers, investor cache |
| Scheduled reimport (`protocol/beefy/loader/schedule-reimport.ts`) | none | read the state, record a range as failed | recording |
| Chain runner (`utils/rpc-chain-runner.ts`, `utils/rxjs/utils`, `utils/import-state-updater-runner.ts`) | per worker: inputs, stop flag, the run in progress, the queue of the error stream | poll and split the inputs, start, stop, repeat, merge errors back | every importer |
| Historical and recent runners (prices, share rates, statistics; `historical-recent-pipeline.ts`) | as the product import, over dates or block lists | same skeleton | recording, optimizer, cached block lists |
| Range algebra (`utils/range.ts`) | none (pure) | merge, exclude, split, sorted split and take | optimizer, recording |
| Query optimizer (`utils/query`) | none (pure) | group products, choose between address batches and single queries, index by state or by block list, limit | range algebra |
| RPC call lock (`utils/shared-resources/shared-rpc.ts`, `shared-lock.ts`) | a Redis lock and the time of the last call per endpoint | acquire, wait for the spacing, release, retry | Redis, every RPC call |
| RPC batching (`batch-rpc-calls.ts`, `rpc-config.ts`, `ethers.ts`) | batch sizes and timeouts per endpoint | group calls, classify errors | RPC lock |
| Batch and sub pipelines (`db-batch.ts`, `execute-sub-pipeline.ts`, `cache-operator-result.ts`) | a cache of results with expiry | one batched query for many items, sub pipelines per item, cached operator | all pipelines |
| Investor cache and prices (`investor-cache.ts`, `loader/prices.ts`, `import-underlying-prices.ts`) | one row per investor and block, prices by time | insert with prices, price later, reset on price reimport | product import, price import |
| Products and price feeds (`loader/products.ts`, `vault-list.ts`, `boost-list.ts`) | products, feeds, ignored addresses, closing dates | upsert from the git history of two files | git access, every importer |
| Git repository access (`git-file-history.ts`, `shared-gitrepo.ts`) | a working copy shared by processes | clone, pull under a lock, log and show | Redis lock |
| Contract creation and blocks | cached block lists, creation block | explorer and database lookups with fallbacks | explorers |
| On-chain connectors (`product-events.ts`, `transfer-data.ts`, `share-rate`) | none | calls and decoding | RPC lock |
| API service (`api/`) | local cache | read-only queries | database, Redis |
| Profit and loss (`utils/pnl.ts`) | FIFO of lots (pure) | buy, sell, claim | its test only |
| Command line, configuration, deployment (`script/beefy.ts`) | none | defaults, products of an importer, cron, dashboards | every importer |

What is hard, and what would make each correct:

- **Recording.** Several processes merge into the same rows while connections,
  statements and timers fail in any order; JavaScript promises are not
  cancelled when a timeout rejects. Correct: rows merged from what they are,
  no lost update, no lock cycle, every batch ends, a failed range is kept.
- **Product import.** Nodes behind one URL do not know the same blocks, the
  recent and the historical importer each do a part, runs are cut short.
  Correct: no block counted as imported without its data, every block is
  imported in the end, retries are retried, propagation is waited for.
- **Reimport.** Concurrent with importers of the same product. Correct: what
  was scheduled is queried again.
- **Chain runner.** One error stream is used by all the runs of a worker; the
  poll unsubscribes runs whose promises go on; a timer closes the stream.
  Correct: runs end, every input of a run is answered, by this run.
- **Optimizer and ranges.** Boundaries, overlaps, limits, lists that are not
  in order. Correct: what is planned covers what is wanted, once, within the
  limits, and what the limits leave out comes back.
- **RPC lock, git access.** A lock with an expiry, work that outlives it; a
  clone shared by processes. Correct: one call at a time per endpoint, no
  result lost on release; versions read are those of the history.
- **Pipelines.** Batches that mix the items of several queries and fail as a
  whole. Correct: an item leaves by a result or by an error, never both or
  neither, and by a result only when all it contains is stored.
- **Transfers.** Two importers insert the same block, chains differ in what a
  read returns. Correct: rows add up to what the owner holds, one row per
  transfer, one time per block.
- **Investor cache.** Three writers of one price. Correct: a guessed price is
  right, a corrected price reaches the rows, every row is priced.
- **Products.** A history that is not in the order of its dates, files that
  cannot be parsed, batches that fail. Correct: closing dates are those of the
  history, importers work on what the repository lists.

Every hazard is listed at its line in `PROJECT.json`, with the properties that
would catch it, or why none does.

## 2. Plan

In order of importance; 1 to 11 are done.

1. `ImportRanges`, `ImportLedger`, `ImportStateUpdate`: recording, with the
   abstract ledger it implements.
2. `ProductImport`: one product, its importers and the reimport command, over
   an atomic recording (justified by 1).
3. Proofs about 1 and 2.
4. `ChainRunner`: the worker loops and the error stream, and its proofs.
5. `RpcLock`: processes calling one endpoint under a lock that expires, and
   its proofs, beside those of `ChainRunner`.
6. `Ranges`, `QueryOptimizer`, `ImportPlanning` with its abstraction
   `ImportCoverage`: what runs plan, on lists of ranges.
7. `InvestorPrices`: a row priced by three writers, and its proofs.
8. `TransferImport`: from events to rows, through batches that fail.
9. `ProductCatalogue`: from git to the products of the importers.
10. Proofs about `ProductCatalogue`: the feeds and the vaults of products, the
    closing dates.
11. Proofs about `TransferImport`; `NoWaitCycle`; `ReimportReachesRows`.
12. Proofs about `ImportPlanning`, on the list functions of `Ranges` and
    `QueryOptimizer`: what runs plan, and that they implement `ImportCoverage`.

Composition: `ProductImport` uses `ImportRanges` directly and stands on
`ImportStateUpdate` through the ledger; `ChainRunner` gives the meaning of the
runs `ProductImport` starts, stops and loses errors of (`told` in
`QueryFails`). `ImportPlanning` is what a plan of `ProductImport` is (there, any
subset of what is wanted) and `TransferImport` what one of its queries is
(there, one success or failure). `ProductCatalogue` gives the products and the
ignored addresses `TransferImport` starts from.

## 3. Modules

### ImportRanges
The value of one row and its merge. The code keeps sorted lists of closed
ranges; here a list is the set of blocks it contains, so `rangeMerge` is union
and `rangeExcludeMany` is difference. This hides the arithmetic of `range.ts`,
the subject of `Ranges`, and nothing else: the code never distinguishes two
lists of the same blocks. `lastImportDate` is left out.

### ImportLedger
What recording promises: `HandOver` a batch, then `Record` it, all keys at
once and into the current rows, or `Drop` it.

### ImportStateUpdate
`updateImportState$` over `db_transaction`, one writer per connection.

| model | code |
|---|---|
| `Flush` | the buffer of `bufferTime` reaches the concatMap; data is already stored |
| `Connect` | `client.connect()`, `BEGIN`, within the connect timeout |
| `LockRow` | `SELECT ... ORDER BY import_key FOR UPDATE` takes its next row |
| `Update`, `Updated`, `Commit` | UPDATE statements, end of the work, `COMMIT` |
| `ConnectTimeout`, `SelectTimeout`, `UpdateTimeout` | `withTimeout` rejects |
| `RollbackExpired`, `ApplyLate`, `LoseLate` | the `ROLLBACK` of a timed out transaction is served after the SELECT, and the work nobody cancelled has queued an UPDATE that may run in autocommit, or not leave |
| `RetryOrGiveUp` | `backOff` around the transaction |
| `Crash` | the process ends, the server aborts |

Row locks and statement order on a connection are PostgreSQL's and external.
`succeeded` is a history variable.

### ProductImport
One product, any numbers of historical and recent importers and the reimport
command; chain, nodes and explorer are external.

| model | code |
|---|---|
| `Start`, `Create`, `CreationInfoMissing` | `createImportStateIfNeeded$`: fetch, upsert, missing creation block |
| `Plan`, `PlanFromOldBlock` | `latestBlockNumber$` and its fallback, then `importStateToOptimizerRangeInput` |
| `RecentFrom`, `FullRange`, `RangesToQuery` | the ranges of each mode |
| `Query`, `QueryFails` | events of at most `maxGetLogsBlockSpan` blocks, stored, success or error |
| `Record`, `RecordFails` | `updateImportState$` with the buffered results |
| `EndRun`, `Stop` | the run ends, or is stopped by the poll or the process |
| `ReimportRequest`, `ReimportSchedule` | the command reads the row, then records the range as failed |

`lastImportCache` is shared by the products of a runner, so any block up to
the head may be in it. Which importers run side by side is chosen at the start
among `Deployments`. Which blocks of the plan are queried first is left
open, which covers every order the optimizer may choose.

### ChainRunner
The worker loops of `createChainRunner`, the poll, and the error stream
(`createObservableWithNext`) each worker creates once for all its runs.

| model | code |
|---|---|
| `Start`, `Leave`, `EndRun`, `Wake` | the `while (!stop)` loop of `createRpcRunner`, `sleepTime` |
| `Poll`, `Split` | `updateInputs`, `_weightedDistribute` (random, so any split) |
| `Succeed`, `Fail`, `SourceEnds` | an item answered; `finalize(() => setTimeout(completeErrorObs))` |
| `Emit`, `Replayed`, `Completes` | `next`, and the replay of the queue on subscription |
| `TimerFires` | `complete` |
| `LateFailure`, `LateSuccess` | work of an unsubscribed run that was in flight |
| `Throw` | an exception rejects the run and ends the loop |

An action is one turn of the event loop: continuations of an `await` ("again")
go before any timer. Not modelled: `stop`, which nothing calls, a poll whose
`getInputs` is rejected, the streams that save RPC errors.

### RpcLock
`callLockProtectedRpc` on one URL with a `minDelayBetweenCalls`, called by any
number of pipelines and processes; the lock and the date of the last call are
in Redis.

| model | code |
|---|---|
| `Request`, `Retry`, `Return` | a call, `backOff` around its attempts, its answer or last error |
| `CheckBefore`, `CheckHeld` | `waitUntilWeCanCallRPCAgain` before the lock is asked for, and under it |
| `WakeUp` | `sleep(delayBetweenCalls)`: the whole delay, not what is left of it |
| `Acquire`, `AcquireFails` | `redlock.acquire`, which gives up after `retryCount` tries |
| `SetLastCallDate`, `Send`, `WorkEnds` | date, work, date again (`finally`) |
| `Release` | `lock.release()`, which throws if the lock is gone |
| `ExpireInUse`, `ExpireOrphan`, `Crash` | the two minutes are over; a process ends |

The lock is acquired for two minutes and never extended, while a single call
may take `rpcTimeoutMs` (two minutes by default) after a sleep under the
lock, so "we are the only one running this code" holds as long as no lock
expires while it is used: the properties say exactly that. The caller that is
late gets an error from the release and, if attempts are left, calls again
although it was answered. `quiet` is a history variable: how long the URL has
been at rest. Names that `ChainRunner` has too
are prefixed here, as one module proves things about both. Not modelled:
`callNoLimitRpc`, the time between two attempts.

### Ranges, QueryOptimizer
`utils/range.ts` and `utils/query` as functions on lists of closed ranges, in
the order the code keeps them: merge, exclude, split, take the newest, index
from a state or from a block list, address batches with their filters or
single queries, limits. Ties the code settles by `Math.random` are an argument
(`luck`). `Points` is what a list stands for, the link with the sets of the
other modules. `Keep` and `StableSort`, the filter and the sort of JavaScript
arrays, are written with what the prover knows (`SelectSeq` and `SortSeq` are
not), and the loop of `TakeNewestRanges` is a fold of one step.

### ImportPlanning, ImportCoverage
The runs of the four historical importers and what remains after each.

| model | code |
|---|---|
| `Plan`, from `PlanInvestments`, `PlanShareRates`, `PlanStatistics`, `PlanPrices` | the queries of a run: `optimizeQueries` over an index of blocks, of snapshots or of dates |
| `BlockList(known)` | `fetchChainBlockList$`, as old as its cache allows |
| `Record`, `RecordSome` | `extractObjsAndRangeFromOptimizerOutput`, then the merge of the results; some lost or failed |
| `RecordRecent` | windows of the recent importer, between the runs |

`ImportCoverage` says in sets of blocks what this must amount to: a run only
queries blocks not covered or to retry, results only touch these.

### InvestorPrices
One product, one feed and the rows of some blocks; time in buckets.

| model | code |
|---|---|
| `Invest`, `RecordInvestment`, `FailInvestment` | the price looked up, the row inserted over the one that may be there, the block recorded or not |
| `Select`, `FetchState`, `FindFirst`, `Guess`, `UpdatePrices` | the pass of `investor-cache.ts` over rows without a price, with its three heuristics |
| `FetchHistorical`, `FetchRecent`, `FetchReimport` | the ranges of a run of each import of prices, and the answer of the API |
| `Store`, `Refresh`, `Record`, `FailImport` | the prices stored, `refreshPriceCaches`, the import state |
| `Tick`, `Correct` | the API has a price when its time comes, or only later, or changes it (external) |

The historical and the recent importer and a reimport by the operator are
processes of their own: they overlap (`job` has one run of each). `published`
are the times the API has a price of as soon as they come. A price that comes
later, in a gap the importers have already been through, is a `Correct` of a
time without price: nothing but a reimport brings it, so guesses are only
promised for what is published in time. `leftBehind` is a history variable:
the times whose rows a reimport could not reset (a range cut by the ones it is
batched with, a row being priced meanwhile, an older answer stored later). A
failed pass updates nothing and is not a case of its own.

### TransferImport
The pipeline of the investment importers for a chain given at the start; the
historical and the recent importer run side by side on the same database.

| model | code |
|---|---|
| `Moves`, `MergeErc20Transfers` | logs to transfers by type of product, summed by block and owner |
| `StartHistorical`, `StartRecent`, `FetchEvents`, `FailEvents` | a run and its queries, split by block |
| `Begin`, `Finish`, `HasError`, `Crash` | `executeSubPipeline$`, which may throw |
| `ReadData`, `ReadSlow`, `LookUpDate`, `FetchDate`, `LookUpTime`, `RejectData` | balance, share rate and time of the block, by multicall or not, in the batches `batchRpcCalls$` makes |
| `InsertBlocks`, `InsertRows`, `StoreRows` | the insertions, each in batches of its own |
| `FailBatch` | a batch fails as a whole, whoever its items belong to |
| `Report`, `End`, `Stop` | the blocks told to the import state |

A chain is its RPC limitations and its products, with the blocks a vault is
empty in. The items of a query arrive together, so a whole queue is taken at
once. `blind` is a history variable: the blocks two importers inserted without
having seen each other's.

An RPC without `stateChangeReadsOnSameBlock` is asked for the next block. The
model takes it that the answer has all the changes of the transfer's block
and none of the next one, which is how `rpc-limitations.ts` describes these
nodes; a node that shows the changes of both would give balances the model
does not have, so `RowsAddUp` says nothing of it. The time read there is that
of the next block, and this is in the model (`BlockTag`).

### ProductCatalogue
The products task of several processes over one clone, for one chain. A run
takes all the chains in one pipeline: what ends it for another chain is a
fault here (`OtherChainFails`).

| model | code |
|---|---|
| `CommitFile`, `Tick` | the developers (external): a commit has an author date, which a rebase keeps |
| `Clone`, `Pull`, `GitFails` | `git-file-history.ts` under the lock, in two sections: clone when there is no directory; checkout and pull |
| `Log` | `git log` of the file without the lock, in the clone as it is then; the file may be missing while another task pulls |
| `Read`, `ShowFails` | the versions by their hash, sorted by date and parsed; one that `git show` cannot get is left out |
| `ApplyVersion`, `ItemsOf` | the `reduce` that dates the closing of vaults and boosts |
| `UpsertFeeds`, `UpsertProducts`, `IgnoreAddresses`, `UpsertFails` | `dbBatchCall$` steps, vaults first and boosts with the vaults that went through |
| `Crash` | the process ends; during a clone or a pull it may leave a directory, or a lock of the index, that makes every later pull fail |
| `LiveProducts` | `productFilter$` over `productList$`: what an importer finds at its next poll |

`read`, in a row, is history: the versions it was computed from.
`EolDatesRight` compares the dates of the fold with their definition over
these. `ImportersFollowGit` uses no column of the table but what importers
read: it compares `LiveProducts` with the history of the branch.

Modules named `MC...` only define the small sets of the configurations,
`..._proofs` hold the theorems about the module of that name.

## 4. Runs

| run | properties | shows |
|---|---|---|
| `UpdateTimeouts` | `TypeOK`, `RowConsistent`, `MergedFromCurrentRow`, `NoWaitCycle`, `BatchEnds`, `LedgerExceptLate` | timers firing anywhere, retries, crashes and late statements keep rows consistent, writes current, locks acyclic, batches finite, and every step is the ledger's except the late write |
| `UpdateLate` | `CoveredRemembered`, violated | a late UPDATE overwrites a row another importer changed |
| `ProductRuns` | `TypeOK`, `NoSilentGap`, `WaitsForPropagation`, `AllImported`, `RetriesEnd` | a historical importer beside the recent one or beside one that ignores the state, lagging nodes, a reimport of a settled block, one failure of any kind |
| `ReimportTooNew` | `WaitsForPropagation`, violated | a reimport without `toBlock` reaches blocks still propagating |
| `ReimportLost` | `ReimportHappens`, violated | an import already running removes the scheduled range |
| `RunnerPolled` | `TypeOK`, `AnsweredUntilStopped`, `OwnAnswersUntilStopped`, `RunsEnd` | two workers, a poll, an exception, repeating or not |
| `RunnerErrorsLost` | `ErrorsMergedBack`, violated | after a stopped run the errors of the next are lost |
| `RpcCalls` | `LockTypeOK`, `OneCallAtATime`, `AnswerKept`, `CallsSpaced`, `CallsEnd` | two callers, crashes, failures of each kind, one lock that may expire in use |
| `Planning` | `RowsMerged`, `PlannedOnce`, `WithinLimits`, `ImplementsCoverage`, `EverythingImported` | two products, four importers: rows stay merged lists, a block is planned once per product and within the limits, runs implement `ImportCoverage`, all is imported |
| `InvestorCache` | `GuessesAreRight`, `ReimportReachesRows`, `EveryRowPriced` | overlapping imports of prices, passes that take one row of two; a failure, or a corrected price and its reimport: guesses only where the API had nothing in time, resets reach the rows, every row that can be priced is |
| `TransferRows` | `TypeOK`, `ImportedIsStored`, `RowsAddUp`, `DatesAgree`, `BlocksToldOnce`, `RowsStay`, `EverythingStored` | four chains, two importers, one failure of any step: what is imported is stored, what is imported again changes no row |
| `Catalogue` | `TypeOK`, `EolDatesRight`, `BoostsHaveVaults`, `ImportersFollowGit` | two products tasks on one clone, one more commit, out of order or unparsable, one failure of any kind or a kill: in the end importers work on what git lists |

Run one with `tlc -config UpdateTimeouts.cfg MCImportStateUpdate` (the module
of each run is in `PROJECT.json`). Each finishes
within about three minutes with two workers.

### Findings

- *Late update* (`utils/db.ts`). `withTimeout` does not stop the work. An
  expired SELECT that is answered later lets the work send an UPDATE behind
  the ROLLBACK, outside of the transaction, computed from a row that may have
  changed: covered ranges are forgotten and imported again. `RowConsistent`
  still holds: it costs work, not data.
- *Reimport without `toBlock`*: retries are not limited by
  `waitForBlockPropagation`, unlike the other ranges.
- *Reimport lost*: the schedule is only a set of ranges to retry; a success of
  an older query of the same range cancels it.
- *Errors lost after a stop* (`create-observable-with-next.ts`). The queue is
  never emptied and the stream outlives its runs. A stop leaves a completion:
  every later run of this worker is closed at once and its failures never
  reach the import state. `NoSilentGap` is not threatened, since a failure
  that is not recorded leaves its blocks uncovered (`told = {}` in
  `QueryFails`); the retry is.

### What the properties leave out

These are premises of properties that pass. Each is a behaviour of the code
that is in the model, and TLC finds a counterexample to the property when its
premise is dropped.

- *Two calls at once* (`shared-rpc.ts`). Acquired for two minutes, never
  extended, released after a sleep and a call that may last two minutes by
  itself: the lock can be gone while its holder calls. `expiries = 0` in the
  properties of `RpcCalls` is this premise.
- *Reset and never priced* (`investor-cache.ts`). `LIMIT_BATCH_SIZE` rows
  without a price are selected in no order, among them those no heuristic can
  price ("Unable to interpolate price"). When these fill the batch, a row that
  a refresh has reset stays without a price although it is stored.
  `EveryRowPriced` holds as long as fewer rows than a batch are of this kind.
- *Refresh cut short* (`prices.ts`). The end of the dates to reset is the
  least end of a batch, where the greatest is needed.
- *Old price written back*. The reset does not reach what the import of
  investments or a pass has read already; written after it, the old price
  stays, as only rows without one are priced again. `ReimportReachesRows`
  leaves out exactly the times of this point and of the one before
  (`leftBehind`).
- *Duplicate rows* (`transfer-data.ts`). The time of a block is looked up
  before it is inserted. Where a multicall is read at the next block, it tells
  a time one block later than the RPC does; the importer whose batch reaches
  back before the multicall contract uses the other. Two importers that have
  not seen each other's time make two rows of a transfer, as the time is in
  the key of a row. `DatesAgree` says that this is the only way (`blind`).
- *Broken, reordered or killed* (`git-file-history.ts`, `vault-list.ts`):
  `Orderly`, the premise of `ImportersFollowGit`, names what the products task
  does not recover from.

### Bounds

- `MCBatches` has a buffer of a block both succeeded and failed, and two
  writers that need overlapping sets of row locks. Two rows and two blocks are
  enough for a lock cycle and for a failed range next to a successful one.
  `MaxAttempts = 2` has a retry and a last attempt; `MaxTimeouts = 2` lets two
  timers overlap, one per writer or both on one.
- `ProductRuns`: `MaxBlock = 2` with one block of propagation gives a settled
  block, one propagating and one not yet mined. `MaxLag = 1` is a node behind
  by what propagation waits for. `MaxFaults = 1`: liveness needs failures to
  stop, and a failure of each kind is explored at every point. The proofs
  have no such bounds.
- `MaxRuns = 2`, `MaxPolls = 1`, one input: a stopped run and the one after
  it, on either worker. A second input only adds elements to the sets of
  answers. `CHECK_DEADLOCK FALSE` there: the loops end at the bound.
- `Delay = 2`: a date that is recent, half way and old enough, and sleeps that
  overlap. Two callers, one more than the lock admits; `MaxAttempts = 2` has a
  retry and a last attempt. `MaxExpiries = 1` covers calls ending after their
  lock; the proofs have no such bounds.

- `Planning`: six blocks, of which a query takes at most four and a snapshot
  every second one, two queries a run: each limit is reached by some run, and
  a product is created after the other. One failure and two windows of the
  recent importer at any point give lists with holes and retries.
- `InvestorCache`: three times, margins and windows of one; a query takes one
  time and a pass one row (`LimitBatch = 1`), so each heuristic has a case and
  a neighbour. A behaviour is of one of nine scenarios (`MCScenarios`). Five
  have two rows, at 0 and 1, nothing failing, and an API with no price, one
  price, at any time, or those around the row at 1. With a price at 0 only, no
  heuristic prices the row at 1, and `EveryRowPriced` promises nothing then.
  Three have the row at 1 and one failure, with no price, its own, or those
  around it; one has its price corrected once and reimported. Other sets of
  prices add a price next to one that is there already. The proofs have no
  such bounds.
- `TransferRows`: two blocks, two events of one owner in a block, a transfer
  that comes and goes, an ignored address, a removed log; a batch of two items
  mixes queries. The chains differ in what `transfer-data.ts` tells apart.
- `Catalogue`: vaults of one id, one replacing the other, a boost of each kind
  (with and without vault), a vault closed and opened again in the history;
  one more commit, which may break a file, at any date around now. The history
  ends at 4 and the clock at 5: with `EolAfter = 0`, a product closed by a
  commit of 4 is closed for longer than the dashboard waits at 5, and must
  leave the importers; one closed by the last commit, at 5, is not yet.
- Where nothing is left to do at the bounds, deadlock is not checked.

## 5. Fairness

- `ImportStateUpdate`: a live process goes on after each answer and the server
  answers (weak fairness per writer); PostgreSQL's lock queue is first come
  first served, hence strong fairness of `LockRow`. Timers and crashes are not
  assumed.
- `ProductImport`: importers repeat (`repeatAtMostEvery`), the chain grows to
  the bound and nodes catch up. Failures are finite. Nothing is assumed of the
  reimport command, nor of an importer that ignores the import state, a repair
  run by hand.
- `ChainRunner`: the event loop serves timers, and queries are answered since
  calls have a timeout and a limited number of retries. Polls, exceptions and
  late answers are not assumed.
- `RpcLock`: a live process goes on, since calls to the URL have a timeout and
  `redlock` gives up. Time passes: `Tick` waits for a caller that set the date
  to call, so it is strongly fair. Locks need not expire, processes need not
  end, and `Acquire` has no fairness of its own: `CallsEnd` holds because
  waiting ends with an error.

- `ImportPlanning`: runs follow one another, each ends, blocks come. Failures
  are bounded; nothing is assumed of the recent importer.
- `InvestorPrices`: runs of the historical importer repeat and their steps end,
  so do those of the import of investments and the passes. Nothing is assumed
  of the recent importer, nor of the operator who reimports what the API
  corrected (hence `toReimport = {}` in `EveryRowPriced`).
- `TransferImport`: the historical importer runs again and a run goes on,
  since calls and queries have timeouts. An answer an empty vault rejects is
  not a bounded failure: `EverythingStored` is about the other chains.
- `ProductCatalogue`: the tasks loop, and at least one of them goes on; the
  other may stop anywhere. Nothing is assumed of the developers, so
  `ImportersFollowGit` is about what is there once they stop; its premise
  `Orderly` names what the code does not recover from: a clone that a kill left
  unusable, a vault file that cannot be parsed (or a boost file, while it is
  the last version), a last version that is not last by author date.

## 6. Proofs

`tlapm` on each `..._proofs.tla` and on `InductionLemmas.tla` checks everything
below, for any constants that satisfy the named assumptions of the modules:
disjoint roles, numbers in `Nat`, `Keys \subseteq Nat`, well-typed batches,
special values outside their sets; finitely many `Writers` (processes); for
`TransferImport`, finitely many logs, each after the creation of its contract
(a contract that does not exist emits nothing); for `ImportPlanning`, finitely
many products and limits above zero; for `ProductCatalogue`, file
versions made of products of that file, dated by the clock.

**InductionLemmas** states once what several proofs need: induction on numbers
and on finite sets, least and greatest elements, sums over a finite set, the
sequence that sorts a finite set, the existence of recursive functions and of
folds. The induction is over the subsets of a set, not over a predicate: to
prove that every number has a property one proves it of the set of those that
have it, which no operator parameter is needed for.

**ImportStateUpdate_proofs**
- `TypeCorrect`: `Spec => []TypeOK`. `TypeOK` is inductive.
- `RowsStayConsistent`: `Spec => []RowConsistent`. The rows alone are not
  inductive: a transaction merges a row it read, a late UPDATE writes one
  computed long ago. `SourcesConsistent` extends the claim to reads (`snap`),
  to `late` and to batches, each against `succeeded`, which only grows.
- `MergesCurrentRow`: `Spec => []MergedFromCurrentRow`, from `LocksProtect`:
  whoever holds a row's lock has read the row as it is, and a transaction
  that writes holds all its locks. A late UPDATE needs the lock free.
- `ImplementsLedger`: `Spec => LedgerExceptLate`, with `ledger <- row, pending
  <- batch`. `Commit` maps to `Record`, giving up and crashing to `Drop`,
  `Flush` to `HandOver`, a late UPDATE to `WrittenLate`, the rest to stutters.
- `ExactWithoutTimers`: `MaxTimeouts = 0` implies that `Spec` implements the
  ledger itself. `NothingLate` is the invariant it needs. With timers it is
  false, as `UpdateLate` shows.
- `NoDeadlock`: `Spec => []NoWaitCycle`. Writers lock their rows in the order of
  the keys (`ORDER BY import_key`), so whoever waits for a key holds only
  smaller ones. Of a group in which everyone waits for another member, take
  the one that waits for the greatest key: its holder waits for a greater
  one. That there is such a member is where the group has to be finite.

**ProductImport_proofs**
- `TypeCorrect`: `Spec => []TypeOK`, with `RowKnown`: a plan is only made from
  a row that exists.
- `PropagationAwaited`: when reimports only ask for settled blocks, `Spec =>
  []WaitsForPropagation`. `RangesSettled` says it of every set that may become
  a retry: the row's, the fetched one's, the planned, the failed, the
  requested. `ReimportTooNew` shows that the assumption is needed.
- `GapsAreRemembered`: when moreover no node lags by more than
  `waitForBlockPropagation`, `Spec => []NoSilentGap`. A success was answered
  by a node that knew the block (`NodesLag`, `RangesSettled`), so its events
  are stored (`ResultsStored`); merging never counts a block as imported
  unless it did before or it succeeded (`MergeImported`).

**ChainRunner_proofs**
- `TypeCorrect`: `Spec => []TypeOK`; what a subscription replays stops before
  the first completion, so only failures are recorded.
- `EveryItemAnswered` and `AnswersAreOwn`: `Spec => []AnsweredUntilStopped`
  and `Spec => []OwnAnswersUntilStopped`. Neither is inductive: both need to
  know that the error stream follows the run (`StreamFollowsRun`: subscribed
  to while it goes on, one timer to close it, nothing queued) and that each
  item is still to do or answered (`ItemsAccountedFor`). A step of a worker
  leaves the others untouched, and a poll only disturbs workers with a run in
  progress. That the poll breaks the invariant for these is the finding of
  `RunnerErrorsLost`.
- The lock under which these runs call a URL (the module extends `RpcLock`
  too):
  - `LockTypeCorrect`: `LockSpec => []LockTypeOK`.
  - `MutualExclusion`: `LockSpec => []OneCallAtATime`. Inductive is
    `LockHeld`: until a lock expires in use, whoever is between acquisition
    and release has the lock, so a lock left by a crash is never taken for
    one's own.
  - `Spacing`: `LockSpec => CallsSpaced`. `DateIsFresh`: the date in
    Redis is never older than the last use of the URL. With `LockHeld`,
    whoever looked at it under the lock or slept after that finds the URL at
    rest (`HolderRested`), as nobody else can use it meanwhile.
  - `AnswersAreReturned`: `LockSpec => []AnswerKept`, from `LockHeld`: a
    release only throws when the lock is gone.

**InvestorPrices_proofs**
- `PricesTyped`: `Spec => []TypeOK`.
- `GuessesSafe`: `Spec => []GuessesAreRight`. A price that is published in time
  is followed on its way to a pass: an import only asks for times that have
  come (`ImportsArePast`), so it fetches the price, and stores it before the
  import state says so (`ImportedIsStored`): a pass that believes the state
  knows it;
  the first price found is the first there is among those imported
  (`FirstIsFirst`); rows are never ahead of the clock.
- `ReimportsReachRows`: `Spec => []ReimportReachesRows`. `NewestInv` follows the
  price to every place it is kept: for a time with no correction left to deal
  with, what is stored, fetched, held by a pass or by the import of a row is
  the newest price or none (`FollowsApi`). A reimport brings this about in two
  steps, for the prices when it stores them, for the rows when it refreshes.

**TransferImport_proofs**
- `TypeCorrect`: `Spec => []TypeOK`.
- `ReportsOnce`: `Spec => []BlocksToldOnce`. A planned block is still to be
  queried, or in one item of the pipeline, or reported (`BlockPlaced`,
  `ItemsApart`), and an item has exactly the net transfers of its product in
  its blocks (`ExactItem`): the query for several products gives each its own
  (`QueryIsExact`).
- `ImportedHasRows`: `Spec => []ImportedIsStored`. The transfers at work are
  those of the items taken, and each is as far as its stage says (`RightWork`):
  with the time of its block in the table before its rows, stored at the end.
  An item leaves without error only when all of them are.
- `RowsAreFinal`: `Spec => RowsStay`, and `HoldingsAreRows`: `Spec =>
  []RowsAddUp`. Every row is that of a net transfer of the chain, with the
  holding of its owner after that block (`RightRow`): an import repeated
  writes the same row, and the changes of an owner add up to its balance,
  by induction on the blocks. This is where events come after the creation of
  their contract.
- `OneRowPerBlock`: `Spec => []DatesAgree`. A block has one time unless both
  importers inserted it without seeing the other (`OneTime`, `blind`), and a
  row has the time of its block.

**ProductCatalogue_proofs**
- `CatalogueBoostsHaveVaults`: `Spec => []BoostsHaveVaults`, and
  `CatalogueProductsHaveFeeds`: `Spec => []ProductsHaveFeeds`, which `TypeOK`
  includes. The tables alone say nothing of the next write, so the invariant
  follows the items: past the feeds, those left in a pipeline have their feeds
  (`StreamFed`), past the products their rows (`StreamUpserted`), hence the
  vaults boosts are looked up in have theirs (`VaultItemsUpserted`). A failing
  batch only takes items away, with or without rows for the new ones. The proof
  assumes that no address is both a vault and a boost (`CatalogueAssumption`),
  and needs nothing of the history read.
- `CatalogueTyped`: `Spec => []TypeOK`.
- `CatalogueEolDates`: `Spec => []EolDatesRight`. Two parts: the fold over the
  versions, in any order of dates, leaves for each product the date of the
  first version since which it is never open (`ItemsAreEolDates`, by induction
  over the versions), and the history a row was computed from stays what it
  was while commits are added (`VersionsStay`).

**ImportPlanning_proofs**
- What the functions of `Ranges` and `QueryOptimizer` return, for any lists:
  `RangeMergeMerges`, `RangeArrayExcludeExcludes`, `MergeImportStateUpdates`
  and lemmas on intersecting, splitting, taking the newest, sorting, chunking
  and covering. `FlattenSeq`, `FoldLeft` and `StableSort` are given by stages,
  whose existence `InductionLemmas` proves.
- `RowsStayMerged`: `Spec => []RowsMerged`. The invariant, `PlanningInv`, says
  that rows are merged lists of blocks their products have lived (`RowsKnown`)
  and that what a run queries is a list of `Queries`: records whose claims, as
  `ObjsAndRanges` gives them, are valid ranges of that life. It needs the whole
  way from rows to queries (`PlansAreWanted`): states, steps, index, slices,
  one of two methods, filters.
- `QueriesStayWithinLimits`: `Spec => []WithinLimits`, from the same invariant.
- `BlocksPlannedOnce`: `Spec => []PlannedOnce`. This is the part `Once(plan)`
  of `PlanningInv`: what a query is made for meets itself only, and nothing
  another query of the run is made for. Products are apart in a query for
  several of them, slices are apart by the index (`SlicePlannedOnce`), new
  blocks are apart from those to be retried (`StatesApart`), and lists put end
  to end for wants that are apart stay so (`OnceFlattens`).
- `RunsImplementCoverage`: `Spec => ImplementsCoverage`, with sets of blocks in
  place of lists of ranges. `Plan` maps to `Plan` (`PlansAreWanted`), results
  to `Record` and `RecordRecent` (`MergeImportStateUpdates`), a new block to a
  stutter.

Only model-checked: the liveness properties (`BatchEnds`, `AllImported`,
`RetriesEnd`, `RunsEnd`, `CallsEnd`, `EverythingImported`, `EveryRowPriced`,
`EverythingStored`, `ImportersFollowGit`), since temporal reasoning with
fairness and ENABLED is out of the prover's reach. Every invariant that a
passing run checks is a theorem.

## 7. Not modelled

- The API service: each request is one SQL query over tables the importers
  write, behind a cache with an expiry; its content is joins and aggregates.
- `utils/pnl.ts` is called by its test only.
- The providers of `utils/ethers.ts`, the choice of endpoints and the classes
  of RPC errors: they decide whether and when a call fails, which the modules
  leave open. The streams that save RPC errors, and their listeners.
- The values of share rates and statistics snapshots, and the recent pipelines
  of these importers; what a run plans for them is in `ImportPlanning`.
- The operator cache: its promise is replaced by what it may return where it
  matters (old block lists in `ImportPlanning`).
- Bridged and cowcentrated vaults and the removal of a whole file in
  `ProductCatalogue`; tables of origin chains in `TransferImport`.
- `limitQueriesCountTo` in `ProductImport` (it is in `ImportPlanning`) and
  `forceConsideredBlockRange`.
- The ignored addresses an importer loads once, when it starts, against those
  the products task adds later: both sides are modelled, their composition
  over the life of a process is not (see the hazard at
  `import-investments.ts`).
- Command line parsing, logs, migrations, deployment files, dashboards and the
  probe scripts.
