--------------------------- MODULE InvestorPrices ---------------------------
(***************************************************************************)
(* The price of a row of the investor cache, and who writes it: the import *)
(* of investments inserts the row with the price known then, the pass of   *)
(* the cache runner prices the rows without one, by a guess if need be,    *)
(* and the import of prices resets them when it is told to refresh caches. *)
(*                                                                         *)
(* One product and its price feed.  Time is counted in buckets of 15 min   *)
(* from the creation of the contract; a row stands for the investors of a  *)
(* block, and is named by its time.  The API has the price of a published  *)
(* time when that time comes; it corrects it, or gets a price it did not   *)
(* have (late, or in a gap), in a new version.                             *)
(***************************************************************************)
EXTENDS Integers, FiniteSets

CONSTANTS
    MaxTime,        \* bound: the clock stops there
    Scenarios,      \* what is bound to happen outside the program, see below
    Corrected,      \* bound: the times whose price the API corrects or gets late
    RowTimes,       \* the times of the rows
    NoPriceMargin,  \* "1month" of the first heuristic
    NearMargin,     \* "1day" of the third heuristic
    Window,         \* "3days": window of an interpolation
    Span,           \* beefyPriceDataQueryRange
    LimitBatch      \* LIMIT_BATCH_SIZE

(* A scenario: the times the API gets a price of in time, the rows there   *)
(* will be, and bounds on the corrections of the API and on the failures.  *)
ASSUME PricesAssumption ==
    /\ MaxTime \in Nat
    /\ Scenarios \subseteq [published : SUBSET (0 .. MaxTime), rows : SUBSET RowTimes,
                            corrections : Nat, faults : Nat]
    /\ Corrected \subseteq 0 .. MaxTime
    /\ RowTimes \subseteq 0 .. MaxTime
    /\ {NoPriceMargin, NearMargin, Window} \subseteq Nat
    /\ {Span, LimitBatch} \subseteq Nat \ {0}

Times == 0 .. MaxTime

(* Processes of their own; the last is started by an operator. *)
Importers == {"historical", "recent", "reimport"}

(* The price of a row: none, zero, interpolated, or the price of a time. *)
Null == [kind |-> "null", at |-> 0, version |-> 0]
Zero == [kind |-> "zero", at |-> 0, version |-> 0]
Between == [kind |-> "between", at |-> 0, version |-> 0]
PriceOf(t, v) == [kind |-> "price", at |-> t, version |-> v]
RowPrices == [kind : {"null", "zero", "between", "price"}, at : Times, version : Nat]

VARIABLES
    now,            \* the clock
    published,      \* API: the times it has a price of as soon as they come
    invested,       \* the rows there will be
    api,            \* API: the version of the price of each time, 0 if none
    prices,         \* price_ts: the same, as far as imported
    importState,    \* import_state of the feed
    job,            \* what each importer of prices is doing
    cached,         \* beefy_investor_timeline_cache_ts: the rows it has
    price,          \* their underlying_to_usd_price
    imported,       \* the rows whose block is recorded as imported
    writer,         \* what the import of investments is doing
    pass,           \* what the pass of the cache runner is doing
    toReimport,     \* corrected times no reimport has dealt with yet
    leftBehind,     \* history: times a reimport left an older price of
    corrections,    \* bound: the corrections the API may still make
    faults          \* bound: the failures that may still happen

apiVars == <<now, published, invested, api, toReimport, corrections>>
priceVars == <<prices, importState, job>>
rowVars == <<cached, price, imported>>
vars == <<apiVars, priceVars, rowVars, writer, pass, leftBehind, faults>>

IdleJob == [stage |-> "idle", from |-> 0, to |-> 0, times |-> {},
            fetched |-> [t \in Times |-> 0]]
IdleWriter == [stage |-> "idle", row |-> 0, held |-> Null]
NothingHeld == [r \in RowTimes |-> Null]
IdlePass == [stage |-> "idle", rows |-> {}, held |-> NothingHeld,
             success |-> {}, first |-> {}]

Init ==
    /\ now = 0
    /\ \E s \in Scenarios :
          /\ published = s.published
          /\ invested = s.rows
          /\ corrections = s.corrections
          /\ faults = s.faults
    /\ api = [t \in Times |-> IF t = now /\ t \in published THEN 1 ELSE 0]
    /\ prices = [t \in Times |-> 0]
    /\ importState = [exists |-> FALSE, covered |-> {}, toRetry |-> {}]
    /\ job = [i \in Importers |-> IdleJob]
    /\ cached = {}
    /\ price = [r \in RowTimes |-> Null]
    /\ imported = {}
    /\ writer = IdleWriter
    /\ pass = IdlePass
    /\ toReimport = {}
    /\ leftBehind = {}

Least(S) == CHOOSE m \in S : \A n \in S : m <= n
Lower(m, n) == IF m <= n THEN m ELSE n
Higher(m, n) == IF m >= n THEN m ELSE n

Tick ==
    /\ now < MaxTime
    /\ now' = now + 1
    /\ api' = [t \in Times |-> IF t = now' /\ t \in published THEN 1 ELSE api[t]]
    /\ UNCHANGED <<published, invested, toReimport, corrections, priceVars, rowVars,
                   writer, pass, leftBehind, faults>>

(* The API corrects a price, or gets one it did not have in time. *)
Correct(t) ==
    /\ t <= now
    /\ corrections > 0
    /\ api' = [api EXCEPT ![t] = @ + 1]
    /\ toReimport' = toReimport \cup {t}
    /\ corrections' = corrections - 1
    /\ UNCHANGED <<now, published, invested, priceVars, rowVars, writer, pass,
                   leftBehind, faults>>

-----------------------------------------------------------------------------
(* The import of prices. *)

CreateState ==
    /\ ~importState.exists
    /\ importState' = [importState EXCEPT !.exists = TRUE]
    /\ UNCHANGED <<apiVars, prices, job, rowVars, writer, pass, leftBehind, faults>>

(* fetchBeefyDataPrices$ for the ranges of a run. *)
Fetch(i, from, to, times) ==
    /\ job[i].stage = "idle"
    /\ times # {}
    /\ job' = [job EXCEPT ![i] =
                 [stage |-> "fetched", from |-> from, to |-> to, times |-> times,
                  fetched |-> [t \in Times |-> IF t \in times THEN api[t] ELSE 0]]]
    /\ UNCHANGED <<apiVars, prices, importState, rowVars, writer, pass, leftBehind, faults>>

FetchHistorical ==
    /\ importState.exists
    /\ Fetch("historical", 0, 0,
          ((0 .. now) \ importState.covered) \cup importState.toRetry)

(* addLatestDateQuery$: from the last imported date of any feed. *)
FetchRecent ==
    \E from \in Higher(0, now - Span) .. now :
        /\ ~(importState.exists /\ from .. now \subseteq importState.covered)
        /\ Fetch("recent", 0, 0, from .. now)

(* An operator has prices queried again from the first corrected one on,  *)
(* with ignoreImportState and refreshPriceCaches.                         *)
FetchReimport ==
    /\ importState.exists
    /\ toReimport # {}
    /\ \E from \in toReimport, to \in 0 .. now :
          /\ toReimport \subseteq from .. to
          /\ Fetch("reimport", from, to, from .. to)

(***************************************************************************)
(* upsertPrice$.  Another job may hold older prices and store them later:  *)
(* a reimport does not prevent it.                                         *)
(***************************************************************************)
Store(i) ==
    LET f == job[i].fetched
        overtaken == {t \in job[i].times : \E j \in Importers \ {i} :
                         job[j].stage = "fetched" /\ job[j].fetched[t] \in 1 .. f[t] - 1}
    IN  /\ job[i].stage = "fetched"
        /\ prices' = [t \in Times |-> IF f[t] > 0 THEN f[t] ELSE prices[t]]
        /\ job' = [job EXCEPT ![i].stage = IF i = "reimport" THEN "stored" ELSE "refreshed"]
        /\ leftBehind' = IF i = "reimport" THEN leftBehind \cup overtaken ELSE leftBehind
        /\ UNCHANGED <<apiVars, importState, rowVars, writer, pass, faults>>

(* The oldest of the queries from .. to is split into, the newest first. *)
OldestQueryTo(from, to) ==
    Least({t \in from .. to : (to - t) % Span = 0})

(* A writer may write a price of the row that it read or guessed before. *)
Held(r) ==
    \/ writer.stage = "priced" /\ writer.row = r /\ writer.held # Null
    \/ r \in pass.rows

(* Mutant: the end of the range is left out. *)
RefreshBefore(i) ==
    LET end == OldestQueryTo(job[i].from, job[i].to)
        missed == {r \in RowTimes \cap job[i].times :
                      Held(r) \/ (r \notin job[i].from .. end /\ price[r] # Null)}
    IN  /\ job[i].stage = "stored"
        /\ price' = [r \in RowTimes |->
                       IF job[i].from <= r /\ r < end THEN Null ELSE price[r]]
        /\ job' = [job EXCEPT ![i].stage = "refreshed"]
        /\ leftBehind' = leftBehind \cup missed
        /\ UNCHANGED <<apiVars, prices, importState, cached, imported, writer, pass, faults>>

(***************************************************************************)
(* refreshPriceCachesIfRequested$, for the queries of a batch: from their  *)
(* first "from" to the first of their "to".  It leaves the rows after that *)
(* as they are, and does not reach what the other writers hold.            *)
(***************************************************************************)
Refresh(i) ==
    LET refreshed == job[i].from .. OldestQueryTo(job[i].from, job[i].to)
        missed == {r \in RowTimes \cap job[i].times :
                      Held(r) \/ (r \notin refreshed /\ price[r] # Null)}
    IN  /\ job[i].stage = "stored"
        /\ price' = [r \in RowTimes |-> IF r \in refreshed THEN Null ELSE price[r]]
        /\ job' = [job EXCEPT ![i].stage = "refreshed"]
        /\ leftBehind' = leftBehind \cup missed
        /\ UNCHANGED <<apiVars, prices, importState, cached, imported,
                       writer, pass, faults>>

(* updateImportState$: the recent importer has none until it is created. *)
Record(i) ==
    LET done == job[i].times
    IN  /\ job[i].stage = "refreshed"
        /\ importState' = IF importState.exists
                          THEN [importState EXCEPT !.covered = @ \cup done,
                                                   !.toRetry = @ \ done]
                          ELSE importState
        /\ toReimport' = IF i = "reimport"
                         THEN {t \in toReimport : t \in done => job[i].fetched[t] # api[t]}
                         ELSE toReimport
        /\ job' = [job EXCEPT ![i] = IdleJob]
        /\ UNCHANGED <<now, published, invested, api, corrections, prices, rowVars,
                       writer, pass, leftBehind, faults>>

(* A step fails: recorded, unless this is the recent importer or a crash. *)
FailImport(i) ==
    /\ job[i].stage # "idle"
    /\ faults > 0
    /\ \/ UNCHANGED importState
       \/ /\ i # "recent"
          /\ importState' = [importState EXCEPT !.covered = @ \cup job[i].times,
                                                !.toRetry = @ \cup job[i].times]
    /\ job' = [job EXCEPT ![i] = IdleJob]
    /\ faults' = faults - 1
    /\ UNCHANGED <<apiVars, prices, rowVars, writer, pass, leftBehind>>

-----------------------------------------------------------------------------
(* The import of investments, one row at a time (loadTransfers$). *)

(* findMatchingPriceData$: the price of the bucket of the row. *)
MatchingPrice(r) == IF prices[r] > 0 THEN PriceOf(r, prices[r]) ELSE Null

Invest(r) ==
    /\ writer.stage = "idle"
    /\ r <= now
    /\ r \in invested \ imported
    /\ writer' = [stage |-> "priced", row |-> r, held |-> MatchingPrice(r)]
    /\ UNCHANGED <<apiVars, priceVars, rowVars, pass, leftBehind, faults>>

(* upsertInvestorCacheChainInfos$: the price found replaces the current one. *)
UpsertCache ==
    /\ writer.stage = "priced"
    /\ cached' = cached \cup {writer.row}
    /\ price' = [price EXCEPT ![writer.row] = writer.held]
    /\ writer' = IdleWriter

(* The block is recorded as imported, or is to be imported again. *)
RecordInvestment ==
    /\ UpsertCache
    /\ imported' = imported \cup {writer.row}
    /\ UNCHANGED <<apiVars, priceVars, pass, leftBehind, faults>>

FailInvestment ==
    /\ faults > 0
    /\ UpsertCache \/ (writer.stage = "priced" /\ writer' = IdleWriter /\ UNCHANGED <<cached, price>>)
    /\ faults' = faults - 1
    /\ UNCHANGED <<apiVars, priceVars, imported, pass, leftBehind>>

-----------------------------------------------------------------------------
(* A pass of the cache runner (addMissingInvestorCacheUsdInfos$). *)

Unpriced == {r \in cached : price[r] = Null}

(* Rows without a price, with the price of their bucket if it is there now. *)
Select ==
    /\ pass.stage = "idle"
    /\ \E rows \in SUBSET Unpriced :
          /\ Cardinality(rows) = Lower(LimitBatch, Cardinality(Unpriced))
          /\ rows # {}
          /\ pass' = [IdlePass EXCEPT !.stage = "matched", !.rows = rows,
                        !.held = [r \in RowTimes |->
                                    IF r \in rows THEN MatchingPrice(r) ELSE Null]]
    /\ UNCHANGED <<apiVars, priceVars, rowVars, writer, leftBehind, faults>>

(* Mutant: what is to be retried counts as imported. *)
FetchStateWithRetries ==
    /\ pass.stage = "matched"
    /\ pass' = [pass EXCEPT !.stage = IF importState.exists THEN "fetched" ELSE "guessed",
                            !.success = importState.covered]
    /\ UNCHANGED <<apiVars, priceVars, rowVars, writer, leftBehind, faults>>

(* Rows of a feed without import state are dropped. *)
FetchState ==
    /\ pass.stage = "matched"
    /\ pass' = [pass EXCEPT !.stage = IF importState.exists THEN "fetched" ELSE "guessed",
                            !.success = importState.covered \ importState.toRetry]
    /\ UNCHANGED <<apiVars, priceVars, rowVars, writer, leftBehind, faults>>

(* findFirstPriceData$: at most one price. *)
FindFirst ==
    /\ pass.stage = "fetched"
    /\ \/ /\ \A t \in Times : prices[t] = 0
          /\ pass' = [pass EXCEPT !.stage = "first", !.first = {}]
       \/ \E t \in Times :
             /\ prices[t] > 0
             /\ \A u \in 0 .. t - 1 : prices[u] = 0
             /\ pass' = [pass EXCEPT !.stage = "first", !.first = {PriceOf(t, prices[t])}]
    /\ UNCHANGED <<apiVars, priceVars, rowVars, writer, leftBehind, faults>>

(* Heuristic 1: there are no prices. *)
HasDefinitelyNoPrices(r) ==
    /\ pass.first = {}
    /\ 0 .. Lower(r + NoPriceMargin, now) \subseteq pass.success

(* Heuristic 2: the first price is after the row. *)
IsDefinitelyBefore(r, f) ==
    /\ r < f
    /\ 0 .. f \subseteq pass.success

(* Heuristic 3: prices before and after, in the window (interpolatePrice$). *)
IsDefinitelyInterpolated(r, f) ==
    /\ f <= r
    /\ Higher(r - NearMargin, f) .. Lower(r + NearMargin, now) \subseteq pass.success

(* Mutant: the ends of the window are left out. *)
InterpolateInside(r) ==
    LET around(from, to) == \E t \in Times : from <= t /\ t <= to /\ prices[t] > 0
    IN  IF prices[r] > 0 THEN PriceOf(r, prices[r])
        ELSE IF around(r - Window + 1, r) /\ around(r, r + Window - 1) THEN Between
        ELSE Null

Interpolate(r) ==
    LET around(from, to) == \E t \in Times : from <= t /\ t <= to /\ prices[t] > 0
    IN  IF prices[r] > 0 THEN PriceOf(r, prices[r])
        ELSE IF around(r - Window, r) /\ around(r, r + Window) THEN Between
        ELSE Null

(* The price of a row that has none of its own: at most one applies. *)
Heuristic(r) ==
    LET before == {f \in pass.first : IsDefinitelyBefore(r, f.at)}
        after == {f \in pass.first : IsDefinitelyInterpolated(r, f.at)}
    IN  IF HasDefinitelyNoPrices(r) THEN Zero
        ELSE IF before # {} THEN CHOOSE f \in before : TRUE
        ELSE IF after # {} THEN Interpolate(r)
        ELSE Null

Guess ==
    /\ pass.stage = "first"
    /\ pass' = [pass EXCEPT !.stage = "guessed",
                  !.held = [r \in RowTimes |-> 
                      IF r \in pass.rows /\ pass.held[r] = Null THEN Heuristic(r)
                      ELSE pass.held[r]]]
    /\ UNCHANGED <<apiVars, priceVars, rowVars, writer, leftBehind, faults>>

(* The rows are updated whatever their price is now. *)
UpdatePrices ==
    /\ pass.stage = "guessed"
    /\ price' = [r \in RowTimes |-> IF pass.held[r] # Null THEN pass.held[r] ELSE price[r]]
    /\ pass' = IdlePass
    /\ UNCHANGED <<apiVars, priceVars, cached, imported, writer,
                   leftBehind, faults>>

-----------------------------------------------------------------------------
ImportStep(i) == Store(i) \/ Refresh(i) \/ Record(i)
PassStep == FetchState \/ FindFirst \/ Guess \/ UpdatePrices

Next ==
    \/ Tick \/ CreateState
    \/ \E t \in Corrected : Correct(t)
    \/ FetchHistorical \/ FetchRecent \/ FetchReimport
    \/ \E i \in Importers : ImportStep(i) \/ FailImport(i)
    \/ \E r \in RowTimes : Invest(r)
    \/ RecordInvestment \/ FailInvestment
    \/ Select \/ PassStep

Spec == Init /\ [][Next]_vars

(***************************************************************************)
(* Runs are started again and again (repeatAtMostEvery) and their steps    *)
(* end; nothing is assumed of the recent importer, nor of the operator who *)
(* reimports what the API corrected.                                       *)
(***************************************************************************)
FairSpec ==
    /\ Spec
    /\ WF_vars(Tick)
    /\ WF_vars(CreateState \/ FetchHistorical \/ ImportStep("historical"))
    /\ WF_vars(RecordInvestment \/ \E r \in RowTimes : Invest(r))
    /\ WF_vars(Select \/ PassStep)

-----------------------------------------------------------------------------
Stages == {"idle", "fetched", "stored", "refreshed"}

TypeOK ==
    /\ now \in Times /\ published \subseteq Times /\ invested \subseteq RowTimes
    /\ api \in [Times -> Nat] /\ prices \in [Times -> Nat]
    /\ importState \in [exists : BOOLEAN, covered : SUBSET Times, toRetry : SUBSET Times]
    /\ job \in [Importers -> [stage : Stages, from : Times, to : Times,
                              times : SUBSET Times, fetched : [Times -> Nat]]]
    /\ cached \subseteq RowTimes /\ imported \subseteq RowTimes
    /\ price \in [RowTimes -> RowPrices]
    /\ writer.stage \in {"idle", "priced"}
    /\ writer.row \in Times /\ writer.held \in RowPrices
    /\ writer.stage = "priced" => writer.row \in RowTimes
    /\ pass.stage \in {"idle", "matched", "fetched", "first", "guessed"}
    /\ pass.rows \subseteq RowTimes /\ pass.held \in [RowTimes -> RowPrices]
    /\ pass.success \subseteq Times /\ pass.first \subseteq RowPrices
    /\ toReimport \subseteq Times /\ leftBehind \subseteq Times
    /\ corrections \in Nat /\ faults \in Nat

(***************************************************************************)
(* "hasDefinitelyNoPrices", "isDefinitelyBeforeFirstPrice",                *)
(* "isDefinitelyInterpolated": a price is only guessed when the API had    *)
(* none to give for the row, whatever failed and in whatever order rows,   *)
(* prices and import states were written and read.                         *)
(***************************************************************************)
GuessIsRight(r, p) ==
    /\ p.kind = "zero" => published \cap (0 .. r) = {}
    /\ p.kind = "between" => r \notin published
    /\ p.kind = "price" /\ p.at # r =>
          r < p.at /\ published \cap (0 .. p.at - 1) = {}

GuessesAreRight == \A r \in RowTimes : GuessIsRight(r, price[r])

(***************************************************************************)
(* "remove all price info from investor rows": what is priced has the      *)
(* newest price of its time, if there is one, once a reimport has dealt    *)
(* with it, unless the refresh or another writer left an older one.        *)
(***************************************************************************)
ReimportReachesRows ==
    \A r \in RowTimes \ (toReimport \cup leftBehind) :
        api[r] > 0 /\ price[r] # Null => price[r] = PriceOf(r, api[r])

(***************************************************************************)
(* A price there is, or may be guessed, for the row from what the API has. *)
(* The heuristics leave other rows as they are: "Unable to interpolate     *)
(* price".                                                                 *)
(***************************************************************************)
Priceable(r) ==
    LET around(from, to) == \E t \in Times : from <= t /\ t <= to /\ api[t] > 0
    IN  \/ api[r] > 0
        \/ ~around(0, r)
        \/ around(r - Window, r) /\ around(r, r + Window)

RowsPriced == \A r \in invested : Priceable(r) => price[r] # Null

(***************************************************************************)
(* "these will be recalculated on the next price cache pass": every row    *)
(* that can be priced ends up with a price, whatever failed or was reset   *)
(* meanwhile, as long as the rows that cannot do not fill every pass.      *)
(***************************************************************************)
EveryRowPriced ==
    <>[](toReimport = {} =>
            (Cardinality({r \in Unpriced : ~Priceable(r)}) < LimitBatch => RowsPriced))
=============================================================================
