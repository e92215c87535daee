----------------------- MODULE InvestorPrices_proofs ------------------------
(***************************************************************************)
(* Proofs about the prices of the investor cache, for any times, rows,     *)
(* margins and failures.                                                   *)
(***************************************************************************)
EXTENDS InvestorPrices, TLAPS

USE PricesAssumption

-----------------------------------------------------------------------------
(* Types. *)

JobType == [stage : Stages, from : Times, to : Times,
            times : SUBSET Times, fetched : [Times -> Nat]]

PassType == [stage : {"idle", "matched", "fetched", "first", "guessed"},
             rows : SUBSET RowTimes, held : [RowTimes -> RowPrices],
             success : SUBSET Times, first : SUBSET RowPrices]

(* TypeOK with the pass as a record, which the provers handle better. *)
Typed ==
    /\ TypeOK
    /\ pass \in PassType
    /\ writer \in [stage : {"idle", "priced"}, row : Times, held : RowPrices]

LEMMA PriceTypes ==
    /\ 0 \in Times
    /\ Null \in RowPrices /\ Zero \in RowPrices /\ Between \in RowPrices
    /\ \A t \in Times, v \in Nat : PriceOf(t, v) \in RowPrices
    /\ IdleJob \in JobType
    /\ IdlePass \in PassType
    /\ IdleWriter \in [stage : {"idle", "priced"}, row : Times, held : RowPrices]
    /\ IdleWriter.stage = "idle"
BY DEF Times, Null, Zero, Between, PriceOf, RowPrices, IdleJob, JobType, Stages,
       IdlePass, PassType, NothingHeld, IdleWriter

LEMMA JobStage ==
    ASSUME NEW j \in JobType, NEW stage \in Stages
    PROVE  [j EXCEPT !.stage = stage] \in JobType
BY DEF JobType

LEMMA MatchingPriceType ==
    ASSUME Typed, NEW r \in RowTimes
    PROVE  MatchingPrice(r) \in RowPrices
BY PriceTypes DEF Typed, TypeOK, MatchingPrice, Times

LEMMA HeuristicType ==
    ASSUME Typed, NEW r \in RowTimes
    PROVE  Heuristic(r) \in RowPrices
<1> DEFINE before == {f \in pass.first : IsDefinitelyBefore(r, f.at)}
<1>1. Interpolate(r) \in RowPrices
  BY PriceTypes DEF Typed, TypeOK, Interpolate, Times
<1>2. before # {} => (CHOOSE f \in before : TRUE) \in RowPrices
  BY DEF Typed, PassType
<1> HIDE DEF before
<1>3. before = {f \in pass.first : IsDefinitelyBefore(r, f.at)}
  BY DEF before
<1> QED
  BY <1>1, <1>2, <1>3, PriceTypes DEF Heuristic

LEMMA TypedInit == Init => Typed
<1> SUFFICES ASSUME Init PROVE Typed
  OBVIOUS
<1>1. api \in [Times -> Nat]
  BY DEF Init
<1>2. job \in [Importers -> JobType]
  BY PriceTypes DEF Init
<1> QED
  BY <1>1, <1>2, PriceTypes DEF Init, Typed, TypeOK, Times, JobType, PassType

LEMMA TypedNext == Typed /\ [Next]_vars => Typed'
<1> SUFFICES ASSUME Typed, [Next]_vars PROVE Typed'
  OBVIOUS
<1> USE DEF Typed, TypeOK
<1>a. job \in [Importers -> JobType]
  BY DEF JobType
<1>1. CASE Tick
  <2>1. now' \in Times
    <3>1. now \in Times
      OBVIOUS
    <3> QED
      BY <1>1, <3>1 DEF Tick, Times
  <2>2. api' \in [Times -> Nat]
    BY <1>1 DEF Tick
  <2> QED
    BY <1>1, <2>1, <2>2 DEF Tick, priceVars, rowVars
<1>2. CASE CreateState
  BY <1>2 DEF CreateState, apiVars, rowVars
<1>3. CASE \E t \in Corrected : Correct(t)
  <2> PICK t \in Corrected : Correct(t)
    BY <1>3
  <2>1. t \in Times
    BY DEF Times
  <2>2. api' \in [Times -> Nat]
    BY <2>1 DEF Correct
  <2>3. toReimport' \subseteq Times
    BY <2>1 DEF Correct
  <2>4. corrections' \in Nat
    BY DEF Correct
  <2> QED
    BY <2>2, <2>3, <2>4 DEF Correct, priceVars, rowVars
<1>4. ASSUME NEW i \in Importers, NEW from \in Times,
             NEW to \in Times, NEW times \in SUBSET Times, Fetch(i, from, to, times)
      PROVE  Typed'
  <2>1. [t \in Times |-> IF t \in times THEN api[t] ELSE 0] \in [Times -> Nat]
    OBVIOUS
  <2>2. job' \in [Importers -> JobType]
    BY <1>4, <1>a, <2>1 DEF Fetch, JobType, Stages
  <2> QED
    BY <1>4, <2>2 DEF Fetch, apiVars, rowVars, JobType
<1>5. CASE FetchHistorical
  <2>1. (((0 .. now) \ importState.covered) \cup importState.toRetry) \in SUBSET Times
    BY DEF Times
  <2> QED
    BY <1>5, <1>4, <2>1, PriceTypes DEF FetchHistorical, Importers
<1>6. CASE FetchRecent
  <2> PICK from \in Higher(0, now - Span) .. now : Fetch("recent", 0, 0, from .. now)
    BY <1>6 DEF FetchRecent
  <2>1. from .. now \in SUBSET Times
    BY DEF Higher, Times
  <2> QED
    BY <1>4, <2>1, PriceTypes DEF Importers
<1>7. CASE FetchReimport
  <2> PICK from \in toReimport, to \in 0 .. now :
              Fetch("reimport", from, to, from .. to)
    BY <1>7 DEF FetchReimport
  <2>1. from \in Times /\ to \in Times /\ from .. to \in SUBSET Times
    BY DEF Times
  <2> QED
    BY <1>4, <2>1 DEF Importers
<1>8. ASSUME NEW i \in Importers, Store(i) PROVE Typed'
  <2>1. prices' \in [Times -> Nat]
    BY <1>8, <1>a DEF Store, JobType
  <2>2. job' \in [Importers -> JobType]
    <3> DEFINE stage == IF i = "reimport" THEN "stored" ELSE "refreshed"
    <3>1. [job[i] EXCEPT !.stage = stage] \in JobType
      BY <1>a, JobStage DEF Stages
    <3>2. job' = [job EXCEPT ![i] = [job[i] EXCEPT !.stage = stage]]
      BY <1>8 DEF Store
    <3> QED
      BY <1>a, <3>1, <3>2
  <2>3. leftBehind' \subseteq Times
    BY <1>8, <1>a DEF Store, JobType
  <2> QED
    BY <1>8, <2>1, <2>2, <2>3 DEF Store, apiVars, rowVars, JobType
<1>9. ASSUME NEW i \in Importers, Refresh(i) PROVE Typed'
  <2>1. price' \in [RowTimes -> RowPrices]
    BY <1>9, PriceTypes DEF Refresh
  <2>2. job' \in [Importers -> JobType]
    <3>1. [job[i] EXCEPT !.stage = "refreshed"] \in JobType
      BY <1>a, JobStage DEF Stages
    <3>2. job' = [job EXCEPT ![i] = [job[i] EXCEPT !.stage = "refreshed"]]
      BY <1>9 DEF Refresh
    <3> QED
      BY <1>a, <3>1, <3>2
  <2>3. leftBehind' \subseteq Times
    BY <1>9 DEF Refresh, Times
  <2> QED
    BY <1>9, <2>1, <2>2, <2>3 DEF Refresh, apiVars, JobType
<1>10. ASSUME NEW i \in Importers, Record(i) PROVE Typed'
  <2>1. job' \in [Importers -> JobType]
    BY <1>10, <1>a, PriceTypes DEF Record
  <2>2. job[i].times \in SUBSET Times
    BY <1>a DEF JobType
  <2>3. importState' \in [exists : BOOLEAN, covered : SUBSET Times, toRetry : SUBSET Times]
    BY <1>10, <2>2 DEF Record
  <2> QED
    BY <1>10, <2>1, <2>3 DEF Record, rowVars, JobType
<1>11. ASSUME NEW i \in Importers, FailImport(i) PROVE Typed'
  <2>1. job' \in [Importers -> JobType]
    BY <1>11, <1>a, PriceTypes DEF FailImport
  <2>2. job[i].times \in SUBSET Times
    BY <1>a DEF JobType
  <2>3. importState' \in [exists : BOOLEAN, covered : SUBSET Times, toRetry : SUBSET Times]
    <3>1. CASE UNCHANGED importState
      BY <3>1
    <3>2. CASE importState' = [importState EXCEPT !.covered = @ \cup job[i].times,
                                                  !.toRetry = @ \cup job[i].times]
      <4>1. /\ importState.covered \cup job[i].times \in SUBSET Times
            /\ importState.toRetry \cup job[i].times \in SUBSET Times
        BY <2>2
      <4> QED
        BY <3>2, <4>1
    <3> QED
      BY <1>11, <3>1, <3>2 DEF FailImport
  <2> QED
    BY <1>11, <2>1, <2>3 DEF FailImport, apiVars, rowVars, JobType
<1>12. ASSUME NEW r \in RowTimes, Invest(r) PROVE Typed'
  BY <1>12, MatchingPriceType DEF Invest, apiVars, priceVars, rowVars, Times
<1>13. CASE RecordInvestment \/ FailInvestment
  <2>1. cached' \subseteq RowTimes /\ imported' \subseteq RowTimes
    BY <1>13 DEF RecordInvestment, FailInvestment, UpsertCache
  <2>2. price' \in [RowTimes -> RowPrices]
    BY <1>13 DEF RecordInvestment, FailInvestment, UpsertCache
  <2>3. writer' = IdleWriter /\ faults' \in Nat
    BY <1>13 DEF RecordInvestment, FailInvestment, UpsertCache
  <2> QED
    BY <1>13, <2>1, <2>2, <2>3, PriceTypes
    DEF RecordInvestment, FailInvestment, apiVars, priceVars
<1>14. CASE Select
  <2> PICK rows \in SUBSET Unpriced :
        pass' = [IdlePass EXCEPT !.stage = "matched", !.rows = rows,
                   !.held = [r \in RowTimes |-> IF r \in rows THEN MatchingPrice(r) ELSE Null]]
    BY <1>14 DEF Select
  <2>1. [r \in RowTimes |-> IF r \in rows THEN MatchingPrice(r) ELSE Null]
          \in [RowTimes -> RowPrices]
    BY MatchingPriceType, PriceTypes
  <2>2. pass' \in PassType
    BY <2>1, PriceTypes DEF PassType, Unpriced
  <2> QED
    BY <1>14, <2>2 DEF Select, apiVars, priceVars, rowVars, PassType
<1>15. CASE FetchState
  <2>1. pass' \in PassType
    BY <1>15 DEF FetchState, PassType
  <2> QED
    BY <1>15, <2>1 DEF FetchState, apiVars, priceVars, rowVars, PassType
<1>16. CASE FindFirst
  <2>1. \A t \in Times : PriceOf(t, prices[t]) \in RowPrices
    BY PriceTypes
  <2>2. pass' \in PassType
    <3>1. CASE pass' = [pass EXCEPT !.stage = "first", !.first = {}]
      BY <3>1 DEF PassType
    <3>2. ASSUME NEW t \in Times,
                 pass' = [pass EXCEPT !.stage = "first", !.first = {PriceOf(t, prices[t])}]
          PROVE  pass' \in PassType
      <4> {PriceOf(t, prices[t])} \in SUBSET RowPrices
        BY <2>1
      <4> QED
        BY <3>2 DEF PassType
    <3> QED
      BY <1>16, <3>1, <3>2 DEF FindFirst
  <2> QED
    BY <1>16, <2>2 DEF FindFirst, apiVars, priceVars, rowVars, PassType
<1>17. CASE Guess
  <2>1. [r \in RowTimes |-> IF r \in pass.rows /\ pass.held[r] = Null
                            THEN Heuristic(r) ELSE pass.held[r]] \in [RowTimes -> RowPrices]
    BY HeuristicType
  <2>2. pass' \in PassType
    BY <1>17, <2>1 DEF Guess, PassType
  <2> QED
    BY <1>17, <2>2 DEF Guess, apiVars, priceVars, rowVars, PassType
<1>18. CASE UpdatePrices
  BY <1>18, PriceTypes DEF UpdatePrices, apiVars, priceVars, PassType
<1>19. CASE UNCHANGED vars
  BY <1>19 DEF vars, apiVars, priceVars, rowVars
<1> QED
  BY <1>1, <1>2, <1>3, <1>5, <1>6, <1>7, <1>8, <1>9, <1>10, <1>11, <1>12, <1>13, <1>14,
     <1>15, <1>16, <1>17, <1>18, <1>19 DEF Next, ImportStep, PassStep

(* Every variable keeps its type, for all values of the constants. *)
THEOREM PricesTyped == Spec => []TypeOK
<1>1. Typed => TypeOK
  BY DEF Typed
<1> QED
  BY TypedInit, TypedNext, <1>1, PTL DEF Spec

-----------------------------------------------------------------------------
(* Guesses. *)

(* Only times that have come are imported, or have a price. *)
ImportsArePast ==
    /\ \A t \in Times : t > now => api[t] = 0
    /\ \A i \in Importers : job[i].times \subseteq 0 .. now
    /\ importState.toRetry \subseteq 0 .. now
    /\ toReimport \subseteq 0 .. now

(***************************************************************************)
(* What the API had in time is there in every later state of its way to a  *)
(* pass: fetched, stored before the import state says so, and so known to  *)
(* a pass that believes the import state.                                  *)
(***************************************************************************)
ImportedIsStored ==
    /\ \A t \in published : t <= now => api[t] > 0
    /\ \A i \in Importers, t \in published :
          t \in job[i].times =>
            /\ job[i].stage = "fetched" => job[i].fetched[t] > 0
            /\ job[i].stage \in {"stored", "refreshed"} => prices[t] > 0
    /\ \A t \in published :
          t \in importState.covered \ importState.toRetry => prices[t] > 0
    /\ \A t \in published : t \in pass.success => prices[t] > 0

RowsArePast ==
    /\ \A r \in cached : r <= now
    /\ pass.rows \subseteq cached
    /\ writer.stage = "priced" => writer.row <= now

FirstIsFirst ==
    pass.stage = "first" =>
        /\ pass.first = {} => published \cap pass.success = {}
        /\ \A f \in pass.first :
              /\ f.kind = "price" /\ f.at \in Times
              /\ \A t \in published \cap pass.success : ~(t < f.at)

HeldIsRight ==
    /\ \A r \in RowTimes : GuessIsRight(r, pass.held[r])
    /\ writer.stage = "priced" => GuessIsRight(writer.row, writer.held)

IInv ==
    /\ Typed /\ ImportsArePast /\ ImportedIsStored /\ RowsArePast /\ FirstIsFirst
    /\ HeldIsRight /\ GuessesAreRight

LEMMA NullIsRight == \A r \in RowTimes : GuessIsRight(r, Null)
BY DEF GuessIsRight, Null

LEMMA MatchingPriceIsRight ==
    ASSUME Typed, NEW r \in RowTimes
    PROVE  GuessIsRight(r, MatchingPrice(r))
BY DEF GuessIsRight, MatchingPrice, PriceOf, Null

(* What the steps of a pass leave in each of its fields. *)
LEMMA PassFields ==
    ASSUME Typed
    PROVE  /\ Select => /\ pass'.stage = "matched"
                        /\ pass'.rows \subseteq Unpriced
                        /\ pass'.success = {} /\ pass'.first = {}
                        /\ \A r \in RowTimes : pass'.held[r] \in {Null, MatchingPrice(r)}
           /\ FetchState => /\ pass'.stage \in {"fetched", "guessed"}
                            /\ pass'.rows = pass.rows /\ pass'.held = pass.held
                            /\ pass'.success = importState.covered \ importState.toRetry
           /\ FindFirst => /\ pass'.stage = "first" /\ pass'.rows = pass.rows
                           /\ pass'.held = pass.held /\ pass'.success = pass.success
           /\ Guess => /\ pass.stage = "first" /\ pass'.stage = "guessed"
                       /\ pass'.rows = pass.rows /\ pass'.success = pass.success
                       /\ \A r \in RowTimes : pass'.held[r] =
                            IF r \in pass.rows /\ pass.held[r] = Null
                            THEN Heuristic(r) ELSE pass.held[r]
           /\ UpdatePrices => pass' = IdlePass
<1>0. pass \in PassType /\ IdlePass \in PassType
  BY PriceTypes DEF Typed
<1>1. ASSUME Select
      PROVE  /\ pass'.stage = "matched"
             /\ pass'.rows \subseteq Unpriced
             /\ pass'.success = {} /\ pass'.first = {}
             /\ \A r \in RowTimes : pass'.held[r] \in {Null, MatchingPrice(r)}
  <2> PICK rows \in SUBSET Unpriced :
        pass' = [IdlePass EXCEPT !.stage = "matched", !.rows = rows,
                   !.held = [r \in RowTimes |-> IF r \in rows THEN MatchingPrice(r) ELSE Null]]
    BY <1>1 DEF Select
  <2>1. /\ pass'.stage = "matched" /\ pass'.rows = rows
        /\ pass'.success = IdlePass.success /\ pass'.first = IdlePass.first
        /\ pass'.held = [r \in RowTimes |-> IF r \in rows THEN MatchingPrice(r) ELSE Null]
    BY <1>0 DEF PassType
  <2> QED
    BY <2>1 DEF IdlePass
<1>2. ASSUME FetchState
      PROVE  /\ pass'.stage \in {"fetched", "guessed"}
             /\ pass'.rows = pass.rows /\ pass'.held = pass.held
             /\ pass'.success = importState.covered \ importState.toRetry
  BY <1>2, <1>0 DEF FetchState, PassType
<1>3. ASSUME FindFirst
      PROVE  /\ pass'.stage = "first" /\ pass'.rows = pass.rows
             /\ pass'.held = pass.held /\ pass'.success = pass.success
  <2> PICK first : pass' = [pass EXCEPT !.stage = "first", !.first = first]
    BY <1>3 DEF FindFirst
  <2> QED
    BY <1>0 DEF PassType
<1>4. ASSUME Guess
      PROVE  /\ pass.stage = "first" /\ pass'.stage = "guessed"
             /\ pass'.rows = pass.rows /\ pass'.success = pass.success
             /\ \A r \in RowTimes : pass'.held[r] =
                  IF r \in pass.rows /\ pass.held[r] = Null
                  THEN Heuristic(r) ELSE pass.held[r]
  <2> DEFINE held == [r \in RowTimes |-> IF r \in pass.rows /\ pass.held[r] = Null
                                         THEN Heuristic(r) ELSE pass.held[r]]
  <2>1. pass.stage = "first" /\ pass' = [pass EXCEPT !.stage = "guessed", !.held = held]
    BY <1>4 DEF Guess
  <2> HIDE DEF held
  <2>2. /\ pass'.stage = "guessed" /\ pass'.rows = pass.rows
        /\ pass'.success = pass.success /\ pass'.held = held
    BY <2>1, <1>0 DEF PassType
  <2> QED
    BY <2>1, <2>2 DEF held
<1>5. UpdatePrices => pass' = IdlePass
  BY DEF UpdatePrices
<1> QED
  BY <1>1, <1>2, <1>3, <1>4, <1>5

(* The heuristics only conclude from what is imported. *)
LEMMA HeuristicIsRight ==
    ASSUME Typed, ImportedIsStored, RowsArePast, FirstIsFirst,
           pass.stage = "first", NEW r \in pass.rows
    PROVE  GuessIsRight(r, Heuristic(r))
<1> USE DEF Typed, TypeOK
<1> DEFINE before == {f \in pass.first : IsDefinitelyBefore(r, f.at)}
           after == {f \in pass.first : IsDefinitelyInterpolated(r, f.at)}
<1>0. r \in RowTimes /\ r \in Nat /\ r <= now /\ now \in Nat
  <2>1. r \in RowTimes /\ r <= now /\ now \in Times
    BY DEF RowsArePast
  <2>2. r \in Times
    BY <2>1 DEF Times
  <2> QED
    BY <2>1, <2>2 DEF Times
<1>1. CASE HasDefinitelyNoPrices(r)
  <2>1. Heuristic(r) = Zero
    BY <1>1 DEF Heuristic
  <2>2. 0 .. r \subseteq 0 .. Lower(r + NoPriceMargin, now)
    BY <1>0 DEF Lower
  <2>3. published \cap pass.success = {}
    BY <1>1 DEF HasDefinitelyNoPrices, FirstIsFirst
  <2>4. published \cap (0 .. r) = {}
    BY <1>1, <2>2, <2>3 DEF HasDefinitelyNoPrices
  <2> QED
    BY <2>1, <2>4 DEF GuessIsRight, Zero
<1>2. CASE ~HasDefinitelyNoPrices(r) /\ before # {}
  <2>1. Heuristic(r) = CHOOSE f \in before : TRUE
    BY <1>2 DEF Heuristic
  <2>2. Heuristic(r) \in before
    BY <1>2, <2>1
  <2> DEFINE f == Heuristic(r)
  <2>3. /\ f \in pass.first /\ f.kind = "price" /\ f.at \in Times
        /\ r < f.at /\ 0 .. f.at \subseteq pass.success
        /\ \A t \in published \cap pass.success : ~(t < f.at)
    BY <2>2 DEF FirstIsFirst, IsDefinitelyBefore
  <2> HIDE DEF f
  <2>4. ASSUME NEW t \in published, t \in 0 .. f.at - 1 PROVE FALSE
    <3>1. f.at \in Nat
      BY <2>3 DEF Times
    <3>2. t < f.at /\ t \in 0 .. f.at
      BY <2>4, <3>1
    <3> QED
      BY <2>3, <3>2
  <2> USE DEF f
  <2> QED
    BY <2>3, <2>4 DEF GuessIsRight
<1>3. CASE ~HasDefinitelyNoPrices(r) /\ before = {} /\ after # {}
  <2>1. Heuristic(r) = Interpolate(r)
    BY <1>3 DEF Heuristic
  <2> PICK f \in pass.first : IsDefinitelyInterpolated(r, f.at)
    BY <1>3
  <2>2. f.at \in Times /\ f.at <= r
    BY DEF FirstIsFirst, IsDefinitelyInterpolated
  <2>3. r \in Higher(r - NearMargin, f.at) .. Lower(r + NearMargin, now)
    <3>1. f.at \in Nat /\ NearMargin \in Nat
      BY <2>2 DEF Times
    <3> DEFINE first == f.at
    <3>2. first \in Nat /\ first <= r
      BY <2>2, <3>1
    <3> HIDE DEF first, Typed, TypeOK
    <3>3. r \in Higher(r - NearMargin, first) .. Lower(r + NearMargin, now)
      BY <1>0, <3>1, <3>2 DEF Higher, Lower
    <3> QED
      BY <3>3 DEF first
  <2>4. r \in published => prices[r] > 0
    BY <2>3 DEF IsDefinitelyInterpolated, ImportedIsStored
  <2>5. CASE prices[r] > 0
    BY <2>1, <2>5 DEF Interpolate, GuessIsRight, PriceOf
  <2>6. CASE ~(prices[r] > 0)
    BY <2>1, <2>4, <2>6 DEF Interpolate, GuessIsRight, Between, Null
  <2> QED
    BY <2>5, <2>6
<1>4. CASE ~HasDefinitelyNoPrices(r) /\ before = {} /\ after = {}
  <2>1. Heuristic(r) = Null
    BY <1>4 DEF Heuristic
  <2> QED
    BY <2>1, <1>0, NullIsRight
<1> QED
  BY <1>1, <1>2, <1>3, <1>4

LEMMA GuessesInit == Init => IInv
<1> SUFFICES ASSUME Init PROVE IInv
  OBVIOUS
<1>0. ImportsArePast
  BY DEF Init, ImportsArePast, IdleJob, Times
<1>1. ImportedIsStored
  BY DEF Init, ImportedIsStored, IdleJob, IdlePass, Times
<1>2. RowsArePast /\ FirstIsFirst
  BY DEF Init, RowsArePast, FirstIsFirst, IdleWriter, IdlePass
<1>3. HeldIsRight /\ GuessesAreRight
  BY NullIsRight DEF Init, HeldIsRight, GuessesAreRight, IdlePass, IdleWriter, NothingHeld
<1> QED
  BY <1>0, <1>1, <1>2, <1>3, TypedInit DEF IInv

(* A price that is stored is never removed. *)
LEMMA PricesStay ==
    ASSUME Typed, [Next]_vars
    PROVE  /\ published' = published
           /\ \A t \in Times : prices[t] > 0 => prices'[t] > 0
<1>1. ASSUME NEW i \in Importers, Store(i)
      PROVE  \A t \in Times : prices[t] > 0 => prices'[t] > 0
  BY <1>1 DEF Store, Typed, TypeOK
<1>2. ASSUME NEW i \in Importers, Store(i) PROVE published' = published
  BY <1>2 DEF Store, apiVars
<1>3. CASE \/ Tick \/ CreateState \/ \E t \in Corrected : Correct(t)
           \/ FetchHistorical \/ FetchRecent \/ FetchReimport \/ UNCHANGED vars
  BY <1>3 DEF Tick, CreateState, Correct, FetchHistorical, FetchRecent, FetchReimport,
              Fetch, apiVars, priceVars, vars
<1>4. CASE \E i \in Importers : Refresh(i) \/ Record(i) \/ FailImport(i)
  BY <1>4 DEF Refresh, Record, FailImport, apiVars
<1>5. CASE (\E r \in RowTimes : Invest(r)) \/ RecordInvestment \/ FailInvestment
  BY <1>5 DEF Invest, RecordInvestment, FailInvestment, apiVars, priceVars
<1>6. CASE Select \/ PassStep
  BY <1>6 DEF Select, PassStep, FetchState, FindFirst, Guess, UpdatePrices,
              apiVars, priceVars
<1> QED
  BY <1>1, <1>2, <1>3, <1>4, <1>5, <1>6 DEF Next, ImportStep

(* What the three importers fetch. *)
LEMMA FetchTimes ==
    ASSUME Typed, ImportsArePast, FetchHistorical \/ FetchRecent \/ FetchReimport
    PROVE  \E i \in Importers : \E from, to : \E times \in SUBSET (0 .. now) :
              Fetch(i, from, to, times)
<1>1. now \in Nat /\ Importers = {"historical", "recent", "reimport"}
  BY DEF Typed, TypeOK, Times, Importers
<1>2. CASE FetchHistorical
  <2>1. (((0 .. now) \ importState.covered) \cup importState.toRetry) \in SUBSET (0 .. now)
    BY DEF ImportsArePast
  <2> QED
    BY <1>1, <1>2, <2>1 DEF FetchHistorical
<1>3. CASE FetchRecent
  <2> PICK from \in Higher(0, now - Span) .. now : Fetch("recent", 0, 0, from .. now)
    BY <1>3 DEF FetchRecent
  <2>1. from .. now \in SUBSET (0 .. now)
    BY <1>1 DEF Higher
  <2> QED
    BY <1>1, <2>1
<1>4. CASE FetchReimport
  <2> PICK from \in toReimport, to \in 0 .. now : Fetch("reimport", from, to, from .. to)
    BY <1>4 DEF FetchReimport
  <2>1. from .. to \in SUBSET (0 .. now)
    <3>1. from \in 0 .. now
      BY DEF ImportsArePast
    <3> QED
      BY <1>1, <3>1
  <2> QED
    BY <1>1, <2>1
<1> QED
  BY <1>2, <1>3, <1>4

LEMMA ImportsArePastNext == IInv /\ [Next]_vars => ImportsArePast'
<1> SUFFICES ASSUME IInv, [Next]_vars PROVE ImportsArePast'
  OBVIOUS
<1>0. Typed /\ ImportsArePast /\ now \in Nat /\ job \in [Importers -> JobType]
  <2>1. Typed /\ ImportsArePast
    BY DEF IInv
  <2>2. now \in Times /\ job \in [Importers -> JobType]
    BY <2>1 DEF Typed, TypeOK, JobType
  <2> QED
    BY <2>1, <2>2 DEF Times
<1>1. \/ UNCHANGED <<now, api, toReimport>>
      \/ Tick \/ \E t \in Corrected : Correct(t)
      \/ \E i \in Importers : Record(i)
  BY DEF Next, CreateState, FetchHistorical, FetchRecent, FetchReimport, Fetch,
         ImportStep, Store, Refresh, FailImport, Invest, RecordInvestment,
         FailInvestment, Select, PassStep, FetchState, FindFirst, Guess, UpdatePrices,
         apiVars, vars
<1>a. UNCHANGED now \/ now' = now + 1
  BY <1>1 DEF Tick, Correct, Record
<1>2. \A t \in Times : t > now' => api'[t] = 0
  <2> SUFFICES ASSUME NEW t \in Times, t > now' PROVE api'[t] = 0
    OBVIOUS
  <2>0. t \in Nat /\ t > now /\ api[t] = 0 /\ api \in [Times -> Nat]
    <3>1. t \in Nat
      BY DEF Times
    <3>2. t > now
      BY <1>0, <1>a, <3>1
    <3> QED
      BY <1>0, <3>1, <3>2 DEF ImportsArePast, Typed, TypeOK
  <2>1. CASE Tick
    <3>1. t # now'
      BY <2>0, <1>0, <1>a
    <3> QED
      BY <2>0, <2>1, <3>1 DEF Tick
  <2>2. ASSUME NEW c \in Corrected, Correct(c) PROVE api'[t] = 0
    <3>1. c # t
      <4>1. c <= now /\ c \in Nat
        BY <2>2 DEF Correct, Times
      <4> QED
        BY <4>1, <2>0, <1>0
    <3> QED
      BY <2>0, <2>2, <3>1 DEF Correct
  <2>3. ASSUME NEW i \in Importers, Record(i) PROVE api'[t] = 0
    BY <2>0, <2>3 DEF Record
  <2> QED
    BY <1>1, <2>0, <2>1, <2>2, <2>3
<1>3. 0 .. now \subseteq 0 .. now'
  BY <1>0, <1>a
<1>4. \A i \in Importers : job'[i].times \subseteq 0 .. now'
  <2> SUFFICES ASSUME NEW i \in Importers PROVE job'[i].times \subseteq 0 .. now'
    OBVIOUS
  <2>1. CASE job'[i].times = job[i].times
    BY <2>1, <1>0, <1>3 DEF ImportsArePast
  <2>2. ASSUME NEW j \in Importers, NEW from, NEW to, NEW times \in SUBSET (0 .. now),
               Fetch(j, from, to, times)
        PROVE  job'[i].times \subseteq 0 .. now'
    <3>1. job'[i].times \in {times, job[i].times}
      BY <2>2, <1>0 DEF Fetch
    <3> QED
      BY <3>1, <1>0, <1>3 DEF ImportsArePast
  <2>3. CASE job'[i] = IdleJob
    BY <2>3 DEF IdleJob
  <2>4. \/ job'[i].times = job[i].times \/ job'[i] = IdleJob
        \/ \E j \in Importers : \E from, to : \E times \in SUBSET (0 .. now) :
              Fetch(j, from, to, times)
    <3>1. ASSUME NEW j \in Importers, Store(j) \/ Refresh(j) \/ Record(j) \/ FailImport(j)
          PROVE  job'[i].times = job[i].times \/ job'[i] = IdleJob
      BY <3>1, <1>0 DEF Store, Refresh, Record, FailImport, JobType
    <3>2. \/ UNCHANGED job
          \/ FetchHistorical \/ FetchRecent \/ FetchReimport
          \/ \E j \in Importers : Store(j) \/ Refresh(j) \/ Record(j) \/ FailImport(j)
      BY DEF Next, Tick, CreateState, Correct, ImportStep, Invest, RecordInvestment,
             FailInvestment, Select, PassStep, FetchState, FindFirst, Guess, UpdatePrices,
             priceVars, vars
    <3> QED
      BY <1>0, <3>1, <3>2, FetchTimes
  <2> QED
    BY <2>1, <2>2, <2>3, <2>4
<1>5. importState'.toRetry \subseteq 0 .. now'
  <2>1. CASE importState'.toRetry \subseteq importState.toRetry
    BY <2>1, <1>0, <1>3 DEF ImportsArePast
  <2>2. ASSUME NEW i \in Importers, FailImport(i)
        PROVE  importState'.toRetry \subseteq importState.toRetry \cup job[i].times
    BY <2>2, <1>0 DEF FailImport, Typed, TypeOK
  <2>3. \/ importState'.toRetry \subseteq importState.toRetry
        \/ \E i \in Importers : FailImport(i)
    <3>1. CASE CreateState
      BY <3>1, <1>0 DEF CreateState, Typed, TypeOK
    <3>2. ASSUME NEW i \in Importers, Record(i)
          PROVE  importState'.toRetry \subseteq importState.toRetry
      BY <3>2, <1>0 DEF Record, Typed, TypeOK
    <3>3. \/ UNCHANGED importState \/ CreateState
          \/ \E i \in Importers : Record(i) \/ FailImport(i)
      BY DEF Next, Tick, Correct, FetchHistorical, FetchRecent, FetchReimport, Fetch,
             ImportStep, Store, Refresh, Invest, RecordInvestment, FailInvestment,
             Select, PassStep, FetchState, FindFirst, Guess, UpdatePrices, priceVars, vars
    <3> QED
      BY <3>1, <3>2, <3>3
  <2> QED
    BY <1>0, <1>3, <2>1, <2>2, <2>3 DEF ImportsArePast
<1>6. toReimport' \subseteq 0 .. now'
  <2>1. \A t \in Corrected : Correct(t) => t \in 0 .. now
    BY <1>0 DEF Correct, Times
  <2>2. \A t \in Corrected : Correct(t) => toReimport' = toReimport \cup {t}
    BY DEF Correct
  <2>3. Tick => toReimport' = toReimport
    BY DEF Tick
  <2>4. \A i \in Importers : Record(i) => toReimport' \subseteq toReimport
    BY DEF Record
  <2> QED
    BY <1>0, <1>1, <1>3, <2>1, <2>2, <2>3, <2>4 DEF ImportsArePast
<1> QED
  BY <1>2, <1>4, <1>5, <1>6 DEF ImportsArePast

LEMMA ImportedNext == IInv /\ [Next]_vars => ImportedIsStored'
<1> SUFFICES ASSUME IInv, [Next]_vars PROVE ImportedIsStored'
  OBVIOUS
<1> USE DEF IInv
<1>0. /\ published' = published /\ published \subseteq Times
      /\ \A t \in Times : prices[t] > 0 => prices'[t] > 0
  BY PricesStay DEF Typed, TypeOK
<1>a. job \in [Importers -> JobType]
  BY DEF Typed, TypeOK, JobType
<1>b. api \in [Times -> Nat] /\ now \in Nat /\ published \subseteq Nat
  BY <1>0 DEF Typed, TypeOK, Times
<1>1. \A t \in published : t <= now' => api'[t] > 0
  <2> SUFFICES ASSUME NEW t \in published, t <= now' PROVE api'[t] > 0
    OBVIOUS
  <2>1. CASE UNCHANGED <<now, api>>
    BY <2>1 DEF ImportedIsStored
  <2>2. ASSUME NEW c \in Corrected, Correct(c) PROVE api'[t] > 0
    <3>1. now' = now /\ api[t] > 0 /\ api[t] \in Nat
      BY <2>2, <1>0, <1>b DEF Correct, ImportedIsStored
    <3>2. api'[t] \in {api[t], api[t] + 1}
      BY <2>2, <1>0, <1>b DEF Correct
    <3> QED
      BY <3>1, <3>2
  <2>3. CASE Tick
    <3>1. now' = now + 1 /\ t \in Nat /\ (t = now' \/ t <= now)
      BY <2>3, <1>b DEF Tick
    <3>2. api'[t] = IF t = now' THEN 1 ELSE api[t]
      BY <2>3, <1>0 DEF Tick
    <3> QED
      BY <3>1, <3>2 DEF ImportedIsStored
  <2>4. UNCHANGED <<now, api>> \/ Tick \/ \E c \in Corrected : Correct(c)
    BY DEF Next, CreateState, FetchHistorical, FetchRecent, FetchReimport, Fetch,
           ImportStep, Store, Refresh, Record, FailImport, Invest, RecordInvestment,
           FailInvestment, Select, PassStep, FetchState, FindFirst, Guess, UpdatePrices,
           apiVars, vars
  <2> QED
    BY <2>1, <2>2, <2>3, <2>4
<1>2. \A i \in Importers, t \in published :
         t \in job'[i].times =>
           /\ job'[i].stage = "fetched" => job'[i].fetched[t] > 0
           /\ job'[i].stage \in {"stored", "refreshed"} => prices'[t] > 0
  <2> SUFFICES ASSUME NEW i \in Importers, NEW t \in published, t \in job'[i].times
               PROVE  /\ job'[i].stage = "fetched" => job'[i].fetched[t] > 0
                      /\ job'[i].stage \in {"stored", "refreshed"} => prices'[t] > 0
    OBVIOUS
  <2>0. t \in Times /\ (t <= now => api[t] > 0)
    BY <1>0 DEF ImportedIsStored
  <2>1. CASE job'[i] = job[i]
    BY <2>1, <1>0 DEF ImportedIsStored
  <2>2. ASSUME NEW from, NEW to, NEW times \in SUBSET (0 .. now), Fetch(i, from, to, times)
        PROVE  job'[i].stage = "fetched" /\ job'[i].fetched[t] > 0
    <3>1. job'[i].stage = "fetched" /\ job'[i].times = times
          /\ job'[i].fetched = [u \in Times |-> IF u \in times THEN api[u] ELSE 0]
      BY <2>2, <1>a DEF Fetch
    <3>2. t \in times /\ t <= now
      BY <3>1, <1>b
    <3> QED
      BY <3>1, <3>2, <2>0
  <2>3. CASE Store(i)
    BY <2>3, <2>0, <1>a DEF Store, ImportedIsStored, JobType
  <2>4. CASE Refresh(i)
    <3>1. job[i].stage = "stored" /\ job'[i].times = job[i].times
      BY <2>4, <1>a DEF Refresh, JobType
    <3>2. prices[t] > 0
      BY <3>1 DEF ImportedIsStored
    <3>3. job'[i].stage = "refreshed"
      BY <2>4, <1>a DEF Refresh, JobType
    <3> QED
      BY <3>2, <3>3, <1>0
  <2>5. CASE job'[i] = IdleJob
    BY <2>5 DEF IdleJob
  <2>6. \/ job'[i] = job[i] \/ job'[i] = IdleJob \/ Store(i) \/ Refresh(i)
        \/ \E from, to : \E times \in SUBSET (0 .. now) : Fetch(i, from, to, times)
    <3>1. CASE UNCHANGED job
      BY <3>1
    <3>2. ASSUME NEW j \in Importers, NEW from, NEW to, NEW times,
                 Fetch(j, from, to, times)
          PROVE  job'[i] = job[i] \/ Fetch(i, from, to, times)
      BY <3>2, <1>a DEF Fetch
    <3>3. CASE FetchHistorical \/ FetchRecent \/ FetchReimport
      BY <3>3, <3>2, FetchTimes
    <3>4. ASSUME NEW j \in Importers, Store(j) \/ Refresh(j) \/ Record(j) \/ FailImport(j)
          PROVE  job'[i] = job[i] \/ job'[i] = IdleJob \/ Store(i) \/ Refresh(i)
      BY <3>4, <1>a DEF Store, Refresh, Record, FailImport
    <3>5. \/ UNCHANGED job
          \/ FetchHistorical \/ FetchRecent \/ FetchReimport
          \/ \E j \in Importers : Store(j) \/ Refresh(j) \/ Record(j) \/ FailImport(j)
      BY DEF Next, Tick, CreateState, Correct, ImportStep, Invest, RecordInvestment,
             FailInvestment, Select, PassStep, FetchState, FindFirst, Guess, UpdatePrices,
             priceVars, vars
    <3> QED
      BY <3>1, <3>3, <3>4, <3>5
  <2> QED
    BY <2>1, <2>2, <2>3, <2>4, <2>5, <2>6
<1>3. \A t \in published :
         t \in importState'.covered \ importState'.toRetry => prices'[t] > 0
  <2> SUFFICES ASSUME NEW t \in published,
                      t \in importState'.covered \ importState'.toRetry
               PROVE  prices'[t] > 0
    OBVIOUS
  <2>1. CASE t \in importState.covered \ importState.toRetry
    BY <2>1, <1>0 DEF ImportedIsStored
  <2>2. ASSUME NEW i \in Importers, Record(i), t \in job[i].times PROVE prices'[t] > 0
    BY <2>2, <1>0 DEF Record, ImportedIsStored
  <2>3. \/ t \in importState.covered \ importState.toRetry
        \/ \E i \in Importers : Record(i) /\ t \in job[i].times
    <3>1. CASE UNCHANGED importState
      BY <3>1
    <3>2. CASE CreateState
      BY <3>2 DEF CreateState, Typed, TypeOK
    <3>3. ASSUME NEW i \in Importers, Record(i)
          PROVE  t \in importState.covered \ importState.toRetry \/ t \in job[i].times
      BY <3>3 DEF Record, Typed, TypeOK
    <3>4. ASSUME NEW i \in Importers, FailImport(i)
          PROVE  t \in importState.covered \ importState.toRetry
      <4>1. CASE UNCHANGED importState
        BY <4>1
      <4>2. CASE importState' = [importState EXCEPT !.covered = @ \cup job[i].times,
                                                    !.toRetry = @ \cup job[i].times]
        <5>1. /\ importState'.covered = importState.covered \cup job[i].times
              /\ importState'.toRetry = importState.toRetry \cup job[i].times
          BY <4>2 DEF Typed, TypeOK
        <5> QED
          BY <5>1
      <4> QED
        BY <3>4, <4>1, <4>2 DEF FailImport
    <3>5. \/ UNCHANGED importState \/ CreateState
          \/ \E i \in Importers : Record(i) \/ FailImport(i)
      BY DEF Next, Tick, Correct, FetchHistorical, FetchRecent, FetchReimport, Fetch,
             ImportStep, Store, Refresh, Invest, RecordInvestment, FailInvestment,
             Select, PassStep, FetchState, FindFirst, Guess, UpdatePrices, priceVars, vars
    <3> QED
      BY <3>1, <3>2, <3>3, <3>4, <3>5
  <2> QED
    BY <2>1, <2>2, <2>3
<1>4. \A t \in published : t \in pass'.success => prices'[t] > 0
  <2> SUFFICES ASSUME NEW t \in published, t \in pass'.success PROVE prices'[t] > 0
    OBVIOUS
  <2>1. t \in pass.success \/ t \in importState.covered \ importState.toRetry
    <3>1. CASE UNCHANGED pass
      BY <3>1
    <3>2. CASE Select \/ FetchState \/ FindFirst \/ Guess
      BY <3>2, PassFields
    <3>3. CASE UpdatePrices
      BY <3>3, PassFields DEF IdlePass
    <3> QED
      BY <3>1, <3>2, <3>3
      DEF Next, Tick, Correct, CreateState, FetchHistorical, FetchRecent, FetchReimport,
          Fetch, ImportStep, Store, Refresh, Record, FailImport, Invest, RecordInvestment,
          FailInvestment, PassStep, vars
  <2> QED
    BY <2>1, <1>0 DEF ImportedIsStored
<1> QED
  BY <1>0, <1>1, <1>2, <1>3, <1>4 DEF ImportedIsStored

LEMMA RowsArePastNext == IInv /\ [Next]_vars => RowsArePast'
<1> SUFFICES ASSUME IInv, [Next]_vars PROVE RowsArePast'
  OBVIOUS
<1> USE DEF IInv
<1>0. now \in Nat /\ now' \in Nat /\ now <= now'
  <2>1. now \in Nat
    BY DEF Typed, TypeOK, Times
  <2>2. now' = now \/ Tick
    BY DEF Next, Correct, CreateState, FetchHistorical, FetchRecent, FetchReimport,
         Fetch, ImportStep, Store, Refresh, Record, FailImport, Invest, RecordInvestment,
         FailInvestment, Select, PassStep, FetchState, FindFirst, Guess, UpdatePrices,
         apiVars, vars
  <2>3. now' = now \/ now' = now + 1
    BY <2>2 DEF Tick
  <2> HIDE DEF IInv
  <2> QED
    BY <2>1, <2>3
<1>a. /\ cached \subseteq Nat /\ writer.row \in Nat /\ RowTimes \subseteq Nat
  <2>1. Times \subseteq Nat /\ RowTimes \subseteq Nat
    BY DEF Times
  <2>2. cached \subseteq RowTimes /\ writer.row \in Times
    BY DEF Typed, TypeOK
  <2> QED
    BY <2>1, <2>2
<1>b. /\ \A r \in cached : r <= now'
      /\ writer.stage = "priced" => writer.row <= now'
  <2>1. /\ \A r \in cached : r <= now
        /\ writer.stage = "priced" => writer.row <= now
    BY DEF RowsArePast
  <2> HIDE DEF IInv
  <2> QED
    BY <2>1, <1>0, <1>a
<1>1. CASE UNCHANGED <<cached, writer, pass>>
  BY <1>1, <1>b DEF RowsArePast
<1>2. ASSUME NEW r \in RowTimes, Invest(r) PROVE RowsArePast'
  BY <1>2, <1>0, <1>a DEF Invest, rowVars, RowsArePast, Typed, TypeOK
<1>3. CASE RecordInvestment \/ FailInvestment
  <2>1. cached' \in {cached, cached \cup {writer.row}} /\ writer' = IdleWriter
        /\ writer.stage = "priced" /\ pass' = pass
    BY <1>3 DEF RecordInvestment, FailInvestment, UpsertCache
  <2> QED
    BY <2>1, <1>b DEF RowsArePast, IdleWriter
<1>4. CASE Select
  <2>1. pass'.rows \subseteq cached
    BY <1>4, PassFields DEF Unpriced
  <2> QED
    BY <1>4, <2>1, <1>b DEF Select, rowVars, RowsArePast
<1>5. CASE PassStep
  <2>1. pass'.rows \subseteq cached
    BY <1>5, PassFields DEF PassStep, IdlePass, RowsArePast
  <2>2. cached' = cached /\ writer' = writer
    BY <1>5 DEF PassStep, FetchState, FindFirst, Guess, UpdatePrices, rowVars
  <2> QED
    BY <2>1, <2>2, <1>b DEF RowsArePast
<1> QED
  BY <1>1, <1>2, <1>3, <1>4, <1>5
  DEF Next, Tick, Correct, CreateState, FetchHistorical, FetchRecent, FetchReimport, Fetch,
      ImportStep, Store, Refresh, Record, FailImport, rowVars, vars

LEMMA FirstIsFirstNext == IInv /\ [Next]_vars => FirstIsFirst'
<1> SUFFICES ASSUME IInv, [Next]_vars PROVE FirstIsFirst'
  OBVIOUS
<1> USE DEF IInv
<1>0. published' = published /\ published \subseteq Times
  BY PricesStay DEF Typed, TypeOK
<1>1. CASE UNCHANGED pass
  BY <1>0, <1>1 DEF FirstIsFirst
<1>2. CASE FindFirst
  <2>a. \A t \in published : t \in pass.success => prices[t] > 0
    BY DEF ImportedIsStored
  <2>1. CASE /\ \A t \in Times : prices[t] = 0
             /\ pass' = [pass EXCEPT !.stage = "first", !.first = {}]
    <3>1. pass'.success = pass.success /\ pass'.first = {}
      BY <2>1 DEF Typed, PassType
    <3>2. published \cap pass.success = {}
      BY <2>1, <2>a, <1>0
    <3>3. \A t \in published \cap pass'.success : FALSE
      BY <3>1, <3>2
    <3> QED
      BY <3>1, <3>2, <1>0 DEF FirstIsFirst
  <2>2. ASSUME NEW t \in Times, prices[t] > 0, \A u \in 0 .. t - 1 : prices[u] = 0,
               pass' = [pass EXCEPT !.stage = "first", !.first = {PriceOf(t, prices[t])}]
        PROVE  FirstIsFirst'
    <3>1. pass'.success = pass.success /\ pass'.first = {PriceOf(t, prices[t])}
      BY <2>2 DEF Typed, PassType
    <3>2. ASSUME NEW u \in published \cap pass.success, u < t PROVE FALSE
      <4>1. prices[u] > 0
        BY <3>2, <2>a
      <4>2. u \in Nat /\ t \in Nat
        BY <1>0 DEF Times
      <4>3. u \in 0 .. t - 1
        BY <3>2, <4>2
      <4>4. prices[u] = 0
        BY <4>3, <2>2
      <4> HIDE DEF IInv
      <4> QED
        BY <4>1, <4>4
    <3>3. \A f \in pass'.first : f.kind = "price" /\ f.at = t
      BY <3>1 DEF PriceOf
    <3>4. pass'.first # {}
      BY <3>1
    <3> QED
      BY <3>1, <3>2, <3>3, <3>4, <1>0 DEF FirstIsFirst
  <2> QED
    BY <1>2, <2>1, <2>2 DEF FindFirst
<1>3. CASE Select \/ FetchState \/ Guess \/ UpdatePrices
  <2>1. pass'.stage # "first"
    BY <1>3, PassFields DEF IdlePass
  <2> QED
    BY <2>1 DEF FirstIsFirst
<1> QED
  BY <1>1, <1>2, <1>3
  DEF Next, Tick, Correct, CreateState, FetchHistorical, FetchRecent, FetchReimport, Fetch,
      ImportStep, Store, Refresh, Record, FailImport, Invest, RecordInvestment,
      FailInvestment, PassStep, vars

LEMMA HeldIsRightNext == IInv /\ [Next]_vars => HeldIsRight' /\ GuessesAreRight'
<1> SUFFICES ASSUME IInv, [Next]_vars PROVE HeldIsRight' /\ GuessesAreRight'
  OBVIOUS
<1>0. published' = published
  BY PricesStay DEF IInv
<1>a. Typed /\ RowTimes = RowTimes
  BY DEF IInv
<1>b. \A r, p : GuessIsRight(r, p)' <=> GuessIsRight(r, p)
  BY <1>0 DEF GuessIsRight
<1>c. /\ \A r \in RowTimes : GuessIsRight(r, pass.held[r])
      /\ writer.stage = "priced" => GuessIsRight(writer.row, writer.held)
      /\ \A r \in RowTimes : GuessIsRight(r, price[r])
  BY DEF IInv, HeldIsRight, GuessesAreRight
<1>1. \A r \in RowTimes : GuessIsRight(r, pass'.held[r])
  <2>1. CASE UNCHANGED pass
    BY <2>1, <1>c
  <2>2. CASE Select
    <3> SUFFICES ASSUME NEW r \in RowTimes PROVE GuessIsRight(r, pass'.held[r])
      OBVIOUS
    <3>1. pass'.held[r] \in {Null, MatchingPrice(r)}
      BY <2>2, <1>a, PassFields
    <3> QED
      BY <3>1, <1>a, NullIsRight, MatchingPriceIsRight
  <2>3. CASE FetchState \/ FindFirst
    BY <2>3, <1>a, <1>c, PassFields
  <2>4. CASE Guess
    <3> SUFFICES ASSUME NEW r \in RowTimes PROVE GuessIsRight(r, pass'.held[r])
      OBVIOUS
    <3>1. /\ pass.stage = "first"
          /\ pass'.held[r] = IF r \in pass.rows /\ pass.held[r] = Null
                             THEN Heuristic(r) ELSE pass.held[r]
      BY <2>4, <1>a, PassFields
    <3>2. r \in pass.rows => GuessIsRight(r, Heuristic(r))
      BY <3>1, HeuristicIsRight DEF IInv
    <3> QED
      BY <3>1, <3>2, <1>c
  <2>5. CASE UpdatePrices
    BY <2>5, <1>a, PassFields, NullIsRight DEF IdlePass, NothingHeld
  <2> QED
    BY <2>1, <2>2, <2>3, <2>4, <2>5
    DEF Next, Tick, Correct, CreateState, FetchHistorical, FetchRecent, FetchReimport,
        Fetch, ImportStep, Store, Refresh, Record, FailImport, Invest, RecordInvestment,
        FailInvestment, PassStep, vars
<1>2. writer'.stage = "priced" => GuessIsRight(writer'.row, writer'.held)
  <2>1. CASE UNCHANGED writer
    BY <2>1, <1>c
  <2>2. ASSUME NEW r \in RowTimes, Invest(r)
        PROVE  GuessIsRight(writer'.row, writer'.held)
    BY <2>2, <1>a, MatchingPriceIsRight DEF Invest
  <2>3. CASE RecordInvestment \/ FailInvestment
    BY <2>3 DEF RecordInvestment, FailInvestment, UpsertCache, IdleWriter
  <2> QED
    BY <2>1, <2>2, <2>3
    DEF Next, Tick, Correct, CreateState, FetchHistorical, FetchRecent, FetchReimport,
        Fetch, ImportStep, Store, Refresh, Record, FailImport, Select, PassStep, FetchState,
        FindFirst, Guess, UpdatePrices, vars
<1>3. \A r \in RowTimes : GuessIsRight(r, price'[r])
  <2>1. CASE UNCHANGED price
    BY <2>1, <1>c
  <2>2. CASE RecordInvestment \/ FailInvestment
    <3>1. UNCHANGED price
          \/ (writer.stage = "priced" /\ price' = [price EXCEPT ![writer.row] = writer.held])
      BY <2>2 DEF RecordInvestment, FailInvestment, UpsertCache
    <3>2. price \in [RowTimes -> RowPrices]
      BY <1>a DEF Typed, TypeOK
    <3> QED
      BY <3>1, <3>2, <1>c
  <2>3. ASSUME NEW i \in Importers, Refresh(i)
        PROVE  \A r \in RowTimes : price'[r] \in {Null, price[r]}
    BY <2>3 DEF Refresh
  <2>4. CASE UpdatePrices
    BY <2>4, <1>c DEF UpdatePrices
  <2>5. \/ UNCHANGED price \/ RecordInvestment \/ FailInvestment \/ UpdatePrices
        \/ \E i \in Importers : Refresh(i)
    BY DEF Next, Tick, Correct, CreateState, FetchHistorical, FetchRecent, FetchReimport,
           Fetch, ImportStep, Store, Record, FailImport, Invest, Select, PassStep,
           FetchState, FindFirst, Guess, rowVars, vars
  <2> QED
    BY <2>1, <2>2, <2>3, <2>4, <2>5, <1>c, NullIsRight
<1> QED
  BY <1>0, <1>1, <1>2, <1>3 DEF HeldIsRight, GuessesAreRight, GuessIsRight

(***************************************************************************)
(* A price is only guessed when the API had none to give for the row: the  *)
(* import state is recorded after the prices are stored, and the pass      *)
(* reads the import state before it looks for the first price.             *)
(***************************************************************************)
THEOREM GuessesSafe == Spec => []GuessesAreRight
<1>1. IInv /\ [Next]_vars => IInv'
  BY TypedNext, ImportsArePastNext, ImportedNext, RowsArePastNext, FirstIsFirstNext,
     HeldIsRightNext DEF IInv
<1>2. IInv => GuessesAreRight
  BY DEF IInv
<1> QED
  BY GuessesInit, <1>1, <1>2, PTL DEF Spec

-----------------------------------------------------------------------------
(***************************************************************************)
(* Reimports.  For a row whose time has no correction left to deal with,   *)
(* what is stored, fetched, held or written of its price is the newest, or *)
(* nothing yet; a time without a price when it came has had one stored by  *)
(* the reimport.  A reimport that has fetched the newest price brings this *)
(* about in two steps: for the prices when it stores them, for the rows    *)
(* when it refreshes them.                                                 *)
(***************************************************************************)
Newest(r) ==
    /\ prices[r] = api[r] \/ (prices[r] = 0 /\ r \in published)
    /\ \A i \in Importers : job[i].stage = "fetched" => job[i].fetched[r] \in {0, api[r]}

NewestPrice(r) == {Null, PriceOf(r, api[r])}

RowFollows(r) ==
    /\ price[r] \in NewestPrice(r)
    /\ writer.stage = "priced" /\ writer.row = r => writer.held \in NewestPrice(r)
    /\ r \in pass.rows => /\ pass.held[r] \in NewestPrice(r)
                          /\ pass.held[r] = Null => r \in published

Reimported(r, stage) ==
    /\ job["reimport"].stage = stage
    /\ r \in job["reimport"].times
    /\ job["reimport"].fetched[r] = api[r]

FollowsApi(r) ==
    /\ r \notin toReimport \/ Reimported(r, "refreshed") => Newest(r) /\ RowFollows(r)
    /\ Reimported(r, "stored") => Newest(r)

Bounded ==
    \A t \in Times : prices[t] <= api[t] /\ \A i \in Importers : job[i].fetched[t] <= api[t]

HeldRows ==
    \A r \in RowTimes : /\ pass.held[r] # Null => r \in pass.rows
                        /\ price[r] # Null => r \in cached

RowsFollow == \A r \in RowTimes \ leftBehind : api[r] > 0 => FollowsApi(r)

NewestInv == IInv /\ Bounded /\ HeldRows /\ RowsFollow

LEMMA NewestInit == Init => NewestInv
<1> SUFFICES ASSUME Init PROVE NewestInv
  OBVIOUS
<1>1. Bounded
  BY DEF Init, Bounded, IdleJob
<1>2. HeldRows
  BY DEF Init, HeldRows, IdlePass, NothingHeld
<1>3. ASSUME NEW r \in RowTimes, api[r] > 0
      PROVE  FollowsApi(r)
  <2>1. r \in Times
    BY DEF Times
  <2>2. r \in published
    BY <1>3, <2>1 DEF Init
  <2>3. /\ \A i \in Importers : job[i].stage = "idle"
        /\ writer.stage = "idle" /\ pass.rows = {}
        /\ prices[r] = 0 /\ price[r] = Null
    BY <2>1 DEF Init, IdleJob, IdleWriter, IdlePass
  <2> QED
    BY <2>2, <2>3 DEF FollowsApi, Newest, NewestPrice, RowFollows, Reimported, Importers
<1> QED
  BY <1>1, <1>2, <1>3, GuessesInit DEF NewestInv, RowsFollow

(* Fields of a job. *)
LEMMA JobFields ==
    ASSUME Typed, NEW i \in Importers
    PROVE  /\ job \in [Importers -> JobType] /\ job[i] \in JobType
           /\ job[i].times \in SUBSET Times
           /\ job[i].fetched \in [Times -> Nat]
           /\ api \in [Times -> Nat] /\ prices \in [Times -> Nat]
           /\ \A t \in Times : api[t] \in Nat /\ prices[t] \in Nat /\ job[i].fetched[t] \in Nat
BY DEF Typed, TypeOK, JobType

(* What the steps on jobs make of them. *)
LEMMA JobSteps ==
    ASSUME Typed, NEW i \in Importers
    PROVE  /\ \A from, to, times : Fetch(i, from, to, times) =>
                 /\ job'[i].stage = "fetched" /\ job'[i].times = times
                 /\ \A t \in Times : job'[i].fetched[t] = IF t \in times THEN api[t] ELSE 0
           /\ Store(i) => /\ job'[i].stage = IF i = "reimport" THEN "stored" ELSE "refreshed"
                          /\ job'[i].times = job[i].times /\ job'[i].fetched = job[i].fetched
           /\ Refresh(i) => /\ job'[i].stage = "refreshed"
                            /\ job'[i].times = job[i].times /\ job'[i].fetched = job[i].fetched
           /\ Record(i) \/ FailImport(i) => job'[i] = IdleJob
           /\ \A from, to, times : 
                 Fetch(i, from, to, times) \/ Store(i) \/ Refresh(i) \/ Record(i)
                    \/ FailImport(i) => \A j \in Importers \ {i} : job'[j] = job[j]
<1>1. job \in [Importers -> JobType]
  BY JobFields
<1>2. ASSUME NEW from, NEW to, NEW times, Fetch(i, from, to, times)
      PROVE  /\ job'[i].stage = "fetched" /\ job'[i].times = times
             /\ \A t \in Times : job'[i].fetched[t] = IF t \in times THEN api[t] ELSE 0
             /\ \A j \in Importers \ {i} : job'[j] = job[j]
  BY <1>1, <1>2 DEF Fetch
<1>3. ASSUME Store(i)
      PROVE  /\ job'[i].stage = IF i = "reimport" THEN "stored" ELSE "refreshed"
             /\ job'[i].times = job[i].times /\ job'[i].fetched = job[i].fetched
             /\ \A j \in Importers \ {i} : job'[j] = job[j]
  BY <1>1, <1>3 DEF Store, JobType
<1>4. ASSUME Refresh(i)
      PROVE  /\ job'[i].stage = "refreshed"
             /\ job'[i].times = job[i].times /\ job'[i].fetched = job[i].fetched
             /\ \A j \in Importers \ {i} : job'[j] = job[j]
  BY <1>1, <1>4 DEF Refresh, JobType
<1>5. ASSUME Record(i) \/ FailImport(i)
      PROVE  job'[i] = IdleJob /\ \A j \in Importers \ {i} : job'[j] = job[j]
  BY <1>1, <1>5 DEF Record, FailImport
<1> QED
  BY <1>2, <1>3, <1>4, <1>5

(* The steps that leave prices, jobs and what is held of the rows alone. *)
Quiet ==
    /\ UNCHANGED <<published, api, toReimport, prices, job, price, writer, leftBehind>>
    /\ pass'.rows = pass.rows /\ pass'.held = pass.held

LEMMA NextKinds ==
    ASSUME Typed, [Next]_vars
    PROVE  \/ Quiet
           \/ Tick \/ \E t \in Corrected : Correct(t)
           \/ \E i \in Importers : \/ \E from, to, times : Fetch(i, from, to, times)
                                   \/ Store(i) \/ Refresh(i) \/ Record(i) \/ FailImport(i)
           \/ \E r \in RowTimes : Invest(r)
           \/ RecordInvestment \/ FailInvestment
           \/ Select \/ Guess \/ UpdatePrices
<1>1. CreateState \/ UNCHANGED vars => Quiet
  BY DEF CreateState, vars, apiVars, priceVars, rowVars, Quiet
<1>2. FetchState \/ FindFirst => Quiet
  <2>1. FetchState \/ FindFirst => pass'.rows = pass.rows /\ pass'.held = pass.held
    BY PassFields
  <2> QED
    BY <2>1 DEF FetchState, FindFirst, apiVars, priceVars, rowVars, Quiet
<1>3. FetchHistorical \/ FetchRecent \/ FetchReimport
         => \E i \in Importers : \E from, to, times : Fetch(i, from, to, times)
  <2>1. Importers = {"historical", "recent", "reimport"}
    BY DEF Importers
  <2>2. ASSUME FetchHistorical
        PROVE  \E from, to, times : Fetch("historical", from, to, times)
    BY <2>2 DEF FetchHistorical
  <2>3. ASSUME FetchRecent
        PROVE  \E from, to, times : Fetch("recent", from, to, times)
    BY <2>3 DEF FetchRecent
  <2>4. ASSUME FetchReimport
        PROVE  \E from, to, times : Fetch("reimport", from, to, times)
    BY <2>4 DEF FetchReimport
  <2> QED
    BY <2>1, <2>2, <2>3, <2>4
<1> QED
  BY <1>1, <1>2, <1>3 DEF Next, ImportStep, PassStep

LEMMA BoundedNext == NewestInv /\ [Next]_vars => Bounded'
<1> SUFFICES ASSUME NewestInv, [Next]_vars, NEW t \in Times
             PROVE  prices'[t] <= api'[t] /\ \A i \in Importers : job'[i].fetched[t] <= api'[t]
  BY DEF Bounded
<1>1. Typed
  BY DEF NewestInv, IInv
<1>2. /\ prices[t] <= api[t]
      /\ \A i \in Importers : job[i].fetched[t] <= api[t]
  BY DEF NewestInv, Bounded
<1>3. /\ api[t] \in Nat /\ prices[t] \in Nat
      /\ \A i \in Importers : job[i].fetched[t] \in Nat
      /\ api \in [Times -> Nat]
  BY <1>1, JobFields DEF Importers
<1>4. CASE UNCHANGED <<api, prices, job>>
  BY <1>2, <1>4
<1>a. ASSUME Tick
      PROVE  prices'[t] <= api'[t] /\ \A i \in Importers : job'[i].fetched[t] <= api'[t]
  <2>1. now' = now + 1 /\ now \in Nat /\ t \in Nat /\ UNCHANGED <<prices, job>>
    BY <1>1, <1>a DEF Tick, priceVars, Typed, TypeOK, Times
  <2>2. api'[t] = IF t = now' /\ t \in published THEN 1 ELSE api[t]
    BY <1>a DEF Tick
  <2>3. t = now' => api[t] = 0
    BY <2>1 DEF NewestInv, IInv, ImportsArePast
  <2> QED
    BY <1>2, <1>3, <2>1, <2>2, <2>3
<1>5. ASSUME NEW c \in Corrected, Correct(c)
      PROVE  prices'[t] <= api'[t] /\ \A i \in Importers : job'[i].fetched[t] <= api'[t]
  <2>1. api'[t] \in {api[t], api[t] + 1} /\ UNCHANGED <<prices, job>>
    BY <1>3, <1>5 DEF Correct, priceVars
  <2> QED
    BY <1>2, <1>3, <2>1
<1>6. ASSUME NEW i \in Importers, NEW from, NEW to, NEW times, Fetch(i, from, to, times)
      PROVE  prices'[t] <= api'[t] /\ \A j \in Importers : job'[j].fetched[t] <= api'[t]
  <2>1. UNCHANGED <<api, prices>>
    BY <1>6 DEF Fetch, apiVars
  <2>2. job'[i].fetched[t] = IF t \in times THEN api[t] ELSE 0
    BY <1>1, <1>6, JobSteps
  <2>3. \A j \in Importers \ {i} : job'[j] = job[j]
    BY <1>1, <1>6, JobSteps
  <2> QED
    BY <1>2, <1>3, <2>1, <2>2, <2>3
<1>7. ASSUME NEW i \in Importers, Store(i)
      PROVE  prices'[t] <= api'[t] /\ \A j \in Importers : job'[j].fetched[t] <= api'[t]
  <2>1. api' = api /\ prices'[t] \in {prices[t], job[i].fetched[t]}
    BY <1>7 DEF Store, apiVars
  <2>2. \A j \in Importers : job'[j].fetched = job[j].fetched
    BY <1>1, <1>7, JobSteps
  <2> QED
    BY <1>2, <2>1, <2>2
<1>8. ASSUME NEW i \in Importers, Refresh(i)
      PROVE  prices'[t] <= api'[t] /\ \A j \in Importers : job'[j].fetched[t] <= api'[t]
  <2>1. UNCHANGED <<api, prices>>
    BY <1>8 DEF Refresh, apiVars
  <2>2. \A j \in Importers : job'[j].fetched = job[j].fetched
    BY <1>1, <1>8, JobSteps
  <2> QED
    BY <1>2, <2>1, <2>2
<1>9. ASSUME NEW i \in Importers, Record(i) \/ FailImport(i)
      PROVE  prices'[t] <= api'[t] /\ \A j \in Importers : job'[j].fetched[t] <= api'[t]
  <2>1. UNCHANGED <<api, prices>>
    BY <1>9 DEF Record, FailImport, apiVars
  <2>2. job'[i] = IdleJob /\ \A j \in Importers \ {i} : job'[j] = job[j]
    BY <1>1, <1>9, JobSteps
  <2>3. IdleJob.fetched[t] = 0
    BY DEF IdleJob
  <2>4. job'[i].fetched[t] <= api[t]
    BY <1>3, <2>2, <2>3
  <2> QED
    BY <1>2, <2>1, <2>2, <2>4
<1>10. ASSUME \/ Quiet \/ \E r \in RowTimes : Invest(r)
              \/ RecordInvestment \/ FailInvestment \/ Select \/ Guess \/ UpdatePrices
       PROVE  UNCHANGED <<api, prices, job>>
  BY <1>10 DEF Quiet, Invest, RecordInvestment, FailInvestment, Select, Guess, UpdatePrices,
               apiVars, priceVars
<1> QED
  BY <1>1, <1>a, <1>4, <1>5, <1>6, <1>7, <1>8, <1>9, <1>10, NextKinds

(* A pass selects rows with the price there is of their time, and keeps *)
(* what it holds of others empty.                                       *)
LEMMA SelectedPrices ==
    ASSUME Typed, Select, NEW r \in RowTimes
    PROVE  pass'.held[r] = IF r \in pass'.rows THEN MatchingPrice(r) ELSE Null
<1> PICK rows \in SUBSET Unpriced :
      pass' = [IdlePass EXCEPT !.stage = "matched", !.rows = rows,
                 !.held = [s \in RowTimes |-> IF s \in rows THEN MatchingPrice(s) ELSE Null]]
  BY DEF Select
<1>1. /\ pass'.rows = rows
      /\ pass'.held = [s \in RowTimes |-> IF s \in rows THEN MatchingPrice(s) ELSE Null]
  BY PriceTypes DEF PassType
<1> QED
  BY <1>1

LEMMA PricedRowsNext ==
    ASSUME NewestInv, [Next]_vars, NEW r \in RowTimes, price'[r] # Null
    PROVE  r \in cached'
<1>1. Typed /\ (price[r] # Null => r \in cached)
  BY DEF NewestInv, IInv, HeldRows
<1>2. cached \subseteq cached'
  BY DEF Next, Tick, Correct, CreateState, FetchHistorical, FetchRecent, FetchReimport, Fetch,
         ImportStep, Store, Refresh, Record, FailImport, Invest, RecordInvestment,
         FailInvestment, UpsertCache, Select, PassStep, FetchState, FindFirst, Guess,
         UpdatePrices, rowVars, vars
<1>3. CASE UNCHANGED price
  BY <1>1, <1>2, <1>3
<1>4. ASSUME NEW i \in Importers, Refresh(i) PROVE r \in cached'
  <2>1. price'[r] \in {Null, price[r]}
    BY <1>4 DEF Refresh
  <2> QED
    BY <1>1, <1>2, <2>1
<1>5. CASE RecordInvestment \/ FailInvestment
  <2>1. UNCHANGED price \/ UpsertCache
    BY <1>5 DEF RecordInvestment, FailInvestment
  <2>2. CASE UpsertCache
    <3>1. /\ price' = [price EXCEPT ![writer.row] = writer.held]
          /\ cached' = cached \cup {writer.row}
      BY <2>2 DEF UpsertCache
    <3>2. price'[r] = price[r] \/ r = writer.row
      BY <3>1, <1>1 DEF Typed, TypeOK
    <3> QED
      BY <3>1, <3>2, <1>1
  <2> QED
    BY <1>3, <2>1, <2>2
<1>6. CASE UpdatePrices
  <2>1. price'[r] = IF pass.held[r] # Null THEN pass.held[r] ELSE price[r]
    BY <1>6 DEF UpdatePrices
  <2>2. pass.held[r] # Null => r \in cached
    BY DEF NewestInv, IInv, HeldRows, RowsArePast
  <2> QED
    BY <1>1, <1>2, <2>1, <2>2
<1>7. \/ UNCHANGED price \/ RecordInvestment \/ FailInvestment \/ UpdatePrices
      \/ \E i \in Importers : Refresh(i)
  BY DEF Next, Tick, Correct, CreateState, FetchHistorical, FetchRecent, FetchReimport,
         Fetch, ImportStep, Store, Record, FailImport, Invest, Select, PassStep,
         FetchState, FindFirst, Guess, rowVars, vars
<1> QED
  BY <1>3, <1>4, <1>5, <1>6, <1>7

LEMMA HeldRowsNext == NewestInv /\ [Next]_vars => HeldRows'
<1> SUFFICES ASSUME NewestInv, [Next]_vars, NEW r \in RowTimes, pass'.held[r] # Null
             PROVE  r \in pass'.rows
  BY PricedRowsNext DEF HeldRows, Null
<1>1. Typed /\ (pass.held[r] # Null => r \in pass.rows)
  BY DEF NewestInv, IInv, HeldRows
<1>2. CASE pass'.rows = pass.rows /\ pass'.held = pass.held
  BY <1>1, <1>2
<1>3. CASE Select
  BY <1>1, <1>3, SelectedPrices
<1>4. CASE Guess
  <2>1. /\ pass'.rows = pass.rows
        /\ pass'.held[r] = IF r \in pass.rows /\ pass.held[r] = Null
                           THEN Heuristic(r) ELSE pass.held[r]
    BY <1>1, <1>4, PassFields
  <2> QED
    BY <1>1, <2>1
<1>5. CASE UpdatePrices
  <2>1. pass' = IdlePass
    BY <1>1, <1>5, PassFields
  <2>2. IdlePass.held[r] = Null
    BY DEF IdlePass, NothingHeld
  <2> QED
    BY <2>1, <2>2
<1>6. ASSUME \/ Quiet \/ Tick \/ \E t \in Corrected : Correct(t)
             \/ \E i \in Importers : \/ \E from, to, times : Fetch(i, from, to, times)
                                     \/ Store(i) \/ Refresh(i) \/ Record(i) \/ FailImport(i)
             \/ \E s \in RowTimes : Invest(s)
             \/ RecordInvestment \/ FailInvestment
      PROVE  pass'.rows = pass.rows /\ pass'.held = pass.held
  BY <1>6 DEF Quiet, Tick, Correct, Fetch, Store, Refresh, Record, FailImport, Invest,
              RecordInvestment, FailInvestment
<1> QED
  BY <1>1, <1>2, <1>3, <1>4, <1>5, <1>6, NextKinds

(* A guess about a row that the API had a price of in time. *)
LEMMA HeuristicFollows ==
    ASSUME Typed, ImportedIsStored, RowsArePast, FirstIsFirst, pass.stage = "first",
           NEW r \in pass.rows, r \in published
    PROVE  Heuristic(r) = Null \/ (prices[r] > 0 /\ Heuristic(r) = PriceOf(r, prices[r]))
<1> DEFINE before == {f \in pass.first : IsDefinitelyBefore(r, f.at)}
<1>1. GuessIsRight(r, Heuristic(r))
  BY HeuristicIsRight
<1>2. r \in Nat
  BY DEF Typed, TypeOK, Times
<1>3. Heuristic(r) # Zero
  BY <1>1, <1>2 DEF GuessIsRight, Zero
<1>4. Heuristic(r).kind # "between"
  BY <1>1 DEF GuessIsRight
<1>5. Heuristic(r) \notin before
  <2> SUFFICES ASSUME Heuristic(r) \in before PROVE FALSE
    OBVIOUS
  <2> DEFINE f == Heuristic(r)
  <2>1. f \in pass.first /\ r < f.at
    BY DEF IsDefinitelyBefore
  <2>2. f.kind = "price" /\ f.at \in Nat
    BY <2>1 DEF FirstIsFirst, Times
  <2>3. GuessIsRight(r, f)
    BY <1>1
  <2> DEFINE at == f.at
  <2>4. at \in Nat /\ r < at /\ published \cap (0 .. at - 1) = {}
    BY <2>1, <2>2, <2>3, <1>2 DEF GuessIsRight
  <2> HIDE DEF at
  <2> QED
    BY <2>4, <1>2
<1>6. Between.kind = "between"
  BY DEF Between
<1>7. Heuristic(r) \in {Zero, Interpolate(r), Null} \/ Heuristic(r) \in before
  BY DEF Heuristic
<1>8. \/ Interpolate(r) \in {Between, Null}
      \/ prices[r] > 0 /\ Interpolate(r) = PriceOf(r, prices[r])
  BY DEF Interpolate
<1> QED
  BY <1>3, <1>4, <1>5, <1>6, <1>7, <1>8

(* A time whose stored price is the newest gives the newest price or none. *)
LEMMA MatchingFollows ==
    ASSUME Typed, NEW r \in RowTimes, Newest(r), api[r] > 0
    PROVE  /\ MatchingPrice(r) \in NewestPrice(r)
           /\ MatchingPrice(r) = Null => r \in published
<1>1. PriceOf(r, prices[r]) # Null
  BY DEF PriceOf, Null
<1>2. api[r] \in Nat /\ prices[r] \in Nat
  BY JobFields DEF Importers, Times
<1> QED
  BY <1>1, <1>2 DEF MatchingPrice, Newest, NewestPrice

(* Steps that only change what is held or written of the rows. *)
LEMMA RowsAlone ==
    ASSUME NEW r \in RowTimes, FollowsApi(r),
           UNCHANGED <<published, api, toReimport, prices, job>>,
           Newest(r) /\ RowFollows(r) => RowFollows(r)'
    PROVE  FollowsApi(r)'
<1>1. Newest(r)' <=> Newest(r)
  BY DEF Newest
<1>2. \A stage : Reimported(r, stage)' <=> Reimported(r, stage)
  BY DEF Reimported
<1> QED
  BY <1>1, <1>2 DEF FollowsApi

(* A row that the step neither holds, writes nor drops. *)
LEMMA RowAlone ==
    ASSUME NEW r \in RowTimes, RowFollows(r),
           UNCHANGED <<api, published>>,
           price'[r] \in {Null, price[r]}, UNCHANGED writer,
           pass'.rows = pass.rows, pass'.held = pass.held
    PROVE  RowFollows(r)'
BY DEF RowFollows, NewestPrice, Null

-----------------------------------------------------------------------------
(* One lemma for each kind of step. *)

Follows(r) == NewestInv /\ r \in RowTimes \ leftBehind' /\ r \in Times /\ api'[r] > 0

LEMMA FollowsTick ==
    ASSUME NEW r, Follows(r), Tick
    PROVE  FollowsApi(r)'
<1>1. /\ Typed /\ r \in RowTimes \ leftBehind /\ r \in Times
      /\ UNCHANGED <<published, toReimport, prices, job, price, writer, pass>>
  BY DEF Follows, NewestInv, IInv, Tick, priceVars, rowVars
<1>2. /\ now' = now + 1 /\ now \in Nat /\ r \in Nat
      /\ api'[r] = IF r = now' /\ r \in published THEN 1 ELSE api[r]
  BY <1>1 DEF Tick, Typed, TypeOK, Times
<1>3. CASE api'[r] = api[r]
  <2>1. FollowsApi(r)
    BY <1>1, <1>3 DEF Follows, NewestInv, RowsFollow
  <2>2. (Newest(r)' <=> Newest(r)) /\ (RowFollows(r)' <=> RowFollows(r))
    BY <1>1, <1>3 DEF Newest, RowFollows, NewestPrice
  <2>3. \A stage : Reimported(r, stage)' <=> Reimported(r, stage)
    BY <1>1, <1>3 DEF Reimported
  <2> QED
    BY <1>1, <2>1, <2>2, <2>3 DEF FollowsApi
<1>4. CASE r = now' /\ r \in published
  <2>1. r > now /\ api[r] = 0 /\ api'[r] = 1
    BY <1>1, <1>2, <1>4 DEF Follows, NewestInv, IInv, ImportsArePast
  <2>2. /\ prices[r] = 0
        /\ \A i \in Importers : job[i].fetched[r] = 0
    <3>1. /\ prices[r] <= 0 /\ prices[r] \in Nat
          /\ \A i \in Importers : job[i].fetched[r] <= 0 /\ job[i].fetched[r] \in Nat
      BY <1>1, <2>1, JobFields DEF Follows, NewestInv, Bounded, Importers
    <3> QED
      BY <3>1
  <2>3. r \notin cached /\ r \notin pass.rows /\ ~(writer.stage = "priced" /\ writer.row = r)
    BY <1>2, <2>1 DEF Follows, NewestInv, IInv, RowsArePast
  <2>4. price[r] = Null
    BY <1>1, <2>3 DEF Follows, NewestInv, HeldRows
  <2>5. Newest(r)'
    BY <1>1, <1>4, <2>2 DEF Newest
  <2>6. RowFollows(r)'
    BY <1>1, <2>3, <2>4 DEF RowFollows, NewestPrice
  <2> QED
    BY <2>5, <2>6 DEF FollowsApi
<1> QED
  BY <1>2, <1>3, <1>4

LEMMA FollowsCorrect ==
    ASSUME NEW r, Follows(r), NEW t \in Corrected, Correct(t)
    PROVE  FollowsApi(r)'
<1>1. /\ Typed /\ r \in RowTimes \ leftBehind /\ r \in Times
      /\ UNCHANGED <<published, prices, job, price, writer, pass>>
  BY DEF Follows, NewestInv, IInv, Correct, priceVars, rowVars
<1>2. api[r] \in Nat /\ api \in [Times -> Nat] /\ toReimport' = toReimport \cup {t}
      /\ api' = [api EXCEPT ![t] = @ + 1]
  BY <1>1, JobFields DEF Importers, Correct
<1>3. CASE t = r
  <2>1. r \in toReimport' /\ api'[r] = api[r] + 1
    BY <1>1, <1>2, <1>3
  <2>2. job["reimport"].fetched[r] <= api[r] /\ job["reimport"].fetched[r] \in Nat
    BY <1>1, JobFields DEF Follows, NewestInv, Bounded, Importers
  <2>3. job'["reimport"].fetched[r] # api'[r]
    BY <1>1, <1>2, <2>1, <2>2
  <2> QED
    BY <2>1, <2>3 DEF FollowsApi, Reimported
<1>4. CASE t # r
  <2>1. api'[r] = api[r] /\ (r \in toReimport' <=> r \in toReimport)
    BY <1>1, <1>2, <1>4
  <2>2. FollowsApi(r)
    BY <1>1, <2>1 DEF Follows, NewestInv, RowsFollow
  <2>3. (Newest(r)' <=> Newest(r)) /\ (RowFollows(r)' <=> RowFollows(r))
    BY <1>1, <2>1 DEF Newest, RowFollows, NewestPrice
  <2>4. \A stage : Reimported(r, stage)' <=> Reimported(r, stage)
    BY <1>1, <2>1 DEF Reimported
  <2> QED
    BY <2>1, <2>2, <2>3, <2>4 DEF FollowsApi
<1> QED
  BY <1>3, <1>4

LEMMA FollowsFetch ==
    ASSUME NEW r, Follows(r), NEW i \in Importers,
           NEW from, NEW to, NEW times, Fetch(i, from, to, times)
    PROVE  FollowsApi(r)'
<1>1. /\ Typed /\ r \in RowTimes \ leftBehind /\ r \in Times
      /\ UNCHANGED <<published, api, toReimport, prices, price, writer, pass>>
  BY DEF Follows, NewestInv, IInv, Fetch, apiVars, rowVars
<1>2. FollowsApi(r)
  BY <1>1 DEF Follows, NewestInv, RowsFollow
<1>3. /\ job'[i].stage = "fetched"
      /\ job'[i].fetched[r] \in {0, api[r]}
      /\ \A j \in Importers \ {i} : job'[j] = job[j]
  BY <1>1, JobSteps
<1>4. Newest(r) => Newest(r)'
  BY <1>1, <1>3 DEF Newest
<1>5. RowFollows(r) => RowFollows(r)'
  BY <1>1 DEF RowFollows, NewestPrice
<1>6. \A stage \in {"stored", "refreshed"} : Reimported(r, stage)' => Reimported(r, stage)
  BY <1>1, <1>3 DEF Reimported, Importers
<1> QED
  BY <1>1, <1>2, <1>4, <1>5, <1>6 DEF FollowsApi

LEMMA FollowsStore ==
    ASSUME NEW r, Follows(r), NEW i \in Importers, Store(i)
    PROVE  FollowsApi(r)'
<1>1. /\ Typed /\ r \in RowTimes \ leftBehind /\ r \in Times
      /\ UNCHANGED <<published, api, toReimport, price, writer, pass>>
  BY DEF Follows, NewestInv, IInv, Store, apiVars, rowVars
<1>2. FollowsApi(r) /\ api[r] > 0
  BY <1>1 DEF Follows, NewestInv, RowsFollow
<1>3. /\ job'[i].stage = IF i = "reimport" THEN "stored" ELSE "refreshed"
      /\ job'[i].times = job[i].times /\ job'[i].fetched = job[i].fetched
      /\ \A j \in Importers \ {i} : job'[j] = job[j]
  BY <1>1, JobSteps
<1>4. /\ job[i].stage = "fetched"
      /\ prices'[r] = IF job[i].fetched[r] > 0 THEN job[i].fetched[r] ELSE prices[r]
  BY <1>1 DEF Store
<1>5. \A j \in Importers : job[j].fetched[r] \in Nat /\ job[j].fetched[r] <= api[r]
  BY <1>1, JobFields DEF Follows, NewestInv, Bounded
<1>6. api[r] \in Nat /\ prices[r] \in Nat
  BY <1>1, JobFields
<1>7. Newest(r) => Newest(r)'
  <2>1. Newest(r) => prices'[r] \in {prices[r], api[r]}
    BY <1>4 DEF Newest
  <2>2. \A j \in Importers : job'[j].stage = "fetched" =>
           job[j].stage = "fetched" /\ job'[j].fetched = job[j].fetched
    BY <1>3
  <2> QED
    BY <1>1, <2>1, <2>2 DEF Newest
<1>8. RowFollows(r) => RowFollows(r)'
  BY <1>1 DEF RowFollows, NewestPrice
<1>9. Reimported(r, "refreshed")' => Reimported(r, "refreshed")
  BY <1>1, <1>3 DEF Reimported, Importers
<1>10. Reimported(r, "stored")' => Newest(r)'
  <2>1. CASE i # "reimport"
    <3>1. Reimported(r, "stored")' => Reimported(r, "stored")
      BY <2>1, <1>1, <1>3 DEF Reimported, Importers
    <3> QED
      BY <3>1, <1>2, <1>7 DEF FollowsApi
  <2>2. CASE i = "reimport"
    <3> SUFFICES ASSUME Reimported(r, "stored")' PROVE Newest(r)'
      OBVIOUS
    <3>1. r \in job[i].times /\ job[i].fetched[r] = api[r]
      BY <2>2, <1>1, <1>3 DEF Reimported
    <3>2. prices'[r] = api[r]
      BY <3>1, <1>2, <1>4
    <3>3. ASSUME NEW j \in Importers \ {i}, job[j].stage = "fetched"
          PROVE  job[j].fetched[r] \in {0, api[r]}
      <4>1. ~(job[j].fetched[r] \in 1 .. job[i].fetched[r] - 1)
        BY <2>2, <3>1, <3>3, <1>1 DEF Store, Follows
      <4> QED
        BY <3>1, <4>1, <1>5, <1>6
    <3>4. \A j \in Importers : job'[j].stage = "fetched" =>
             job'[j].fetched[r] \in {0, api[r]}
      BY <2>2, <1>3, <3>3
    <3> QED
      BY <3>2, <3>4, <1>1 DEF Newest
  <2> QED
    BY <2>1, <2>2
<1> QED
  BY <1>1, <1>2, <1>7, <1>8, <1>9, <1>10 DEF FollowsApi

LEMMA FollowsRefresh ==
    ASSUME NEW r, Follows(r), NEW i \in Importers, Refresh(i)
    PROVE  FollowsApi(r)'
<1>1. /\ Typed /\ r \in RowTimes \ leftBehind /\ r \in Times
      /\ UNCHANGED <<published, api, toReimport, prices, writer, pass>>
  BY DEF Follows, NewestInv, IInv, Refresh, apiVars
<1>2. FollowsApi(r) /\ api[r] > 0
  BY <1>1 DEF Follows, NewestInv, RowsFollow
<1>3. /\ job'[i].stage = "refreshed"
      /\ job'[i].times = job[i].times /\ job'[i].fetched = job[i].fetched
      /\ \A j \in Importers \ {i} : job'[j] = job[j]
  BY <1>1, JobSteps
<1>4. job[i].stage = "stored" /\ price'[r] \in {Null, price[r]}
  BY <1>1 DEF Refresh
<1>5. Newest(r) => Newest(r)'
  <2>1. \A j \in Importers : job'[j].stage = "fetched" =>
           job[j].stage = "fetched" /\ job'[j].fetched = job[j].fetched
    BY <1>3
  <2> QED
    BY <1>1, <2>1 DEF Newest
<1>6. RowFollows(r) => RowFollows(r)'
  BY <1>1, <1>4, RowAlone
<1>7. CASE i # "reimport"
  <2>1. \A stage : Reimported(r, stage)' => Reimported(r, stage)
    BY <1>7, <1>1, <1>3 DEF Reimported, Importers
  <2> QED
    BY <2>1, <1>1, <1>2, <1>5, <1>6 DEF FollowsApi
<1>8. CASE i = "reimport"
  <2>1. ~Reimported(r, "stored")'
    BY <1>8, <1>3 DEF Reimported
  <2>2. ASSUME Reimported(r, "refreshed")'
        PROVE  Newest(r) /\ RowFollows(r)'
    <3>1. Reimported(r, "stored") /\ r \in job[i].times
      BY <2>2, <1>8, <1>1, <1>3, <1>4 DEF Reimported
    <3>2. ~Held(r) /\ price'[r] = Null
      BY <3>1, <1>1 DEF Refresh, Follows
    <3> QED
      BY <3>1, <3>2, <1>1, <1>2 DEF FollowsApi, RowFollows, NewestPrice, Held, Null
  <2> QED
    BY <2>1, <2>2, <1>1, <1>2, <1>5, <1>6 DEF FollowsApi
<1> QED
  BY <1>7, <1>8

LEMMA FollowsRecord ==
    ASSUME NEW r, Follows(r), NEW i \in Importers, Record(i) \/ FailImport(i)
    PROVE  FollowsApi(r)'
<1>1. /\ Typed /\ r \in RowTimes \ leftBehind /\ r \in Times
      /\ UNCHANGED <<published, api, prices, price, writer, pass>>
  BY DEF Follows, NewestInv, IInv, Record, FailImport, apiVars, rowVars
<1>2. FollowsApi(r) /\ api[r] > 0
  BY <1>1 DEF Follows, NewestInv, RowsFollow
<1>3. /\ job'[i].stage = "idle"
      /\ \A j \in Importers \ {i} : job'[j] = job[j]
  <2>1. job'[i] = IdleJob /\ \A j \in Importers \ {i} : job'[j] = job[j]
    BY <1>1, JobSteps
  <2>2. IdleJob.stage = "idle"
    BY DEF IdleJob
  <2> QED
    BY <2>1, <2>2
<1>4. Newest(r) => Newest(r)'
  BY <1>1, <1>3 DEF Newest
<1>5. RowFollows(r) => RowFollows(r)'
  BY <1>1 DEF RowFollows, NewestPrice
<1>6. \A stage \in {"stored", "refreshed"} : Reimported(r, stage)' => Reimported(r, stage)
  BY <1>1, <1>3 DEF Reimported, Importers
<1>7. r \notin toReimport' => r \notin toReimport \/ Reimported(r, "refreshed")
  BY <1>1 DEF Record, FailImport, Reimported, apiVars
<1> QED
  BY <1>2, <1>4, <1>5, <1>6, <1>7 DEF FollowsApi

LEMMA FollowsWriter ==
    ASSUME NEW r, Follows(r),
           (\E s \in RowTimes : Invest(s)) \/ RecordInvestment \/ FailInvestment
    PROVE  FollowsApi(r)'
<1>1. /\ Typed /\ r \in RowTimes \ leftBehind /\ r \in Times
      /\ UNCHANGED <<published, api, toReimport, prices, job, pass>>
  BY DEF Follows, NewestInv, IInv, Invest, RecordInvestment, FailInvestment, apiVars, priceVars
<1>2. FollowsApi(r) /\ api[r] > 0
  BY <1>1 DEF Follows, NewestInv, RowsFollow
<1>3. ASSUME Newest(r), RowFollows(r), NEW s \in RowTimes, Invest(s)
      PROVE  RowFollows(r)'
  <2>1. price' = price /\ writer'.row = s /\ writer'.held = MatchingPrice(s)
    BY <1>3 DEF Invest, rowVars
  <2>2. MatchingPrice(r) \in NewestPrice(r)
    BY <1>1, <1>2, <1>3, MatchingFollows
  <2> QED
    BY <1>1, <1>3, <2>1, <2>2 DEF RowFollows, NewestPrice
<1>4. ASSUME Newest(r), RowFollows(r), RecordInvestment \/ FailInvestment
      PROVE  RowFollows(r)'
  <2>1. /\ writer.stage = "priced" /\ writer' = IdleWriter
        /\ UNCHANGED price \/ price' = [price EXCEPT ![writer.row] = writer.held]
    BY <1>4 DEF RecordInvestment, FailInvestment, UpsertCache
  <2>2. price \in [RowTimes -> RowPrices] /\ IdleWriter.stage = "idle"
    BY <1>1, PriceTypes DEF Typed, TypeOK
  <2>3. price'[r] = price[r] \/ (writer.row = r /\ price'[r] = writer.held)
    BY <1>1, <2>1, <2>2
  <2> QED
    BY <1>1, <1>4, <2>1, <2>2, <2>3 DEF RowFollows, NewestPrice
<1> QED
  BY <1>1, <1>2, <1>3, <1>4, RowsAlone

LEMMA FollowsPass ==
    ASSUME NEW r, Follows(r), Select \/ Guess \/ UpdatePrices
    PROVE  FollowsApi(r)'
<1>1. /\ Typed /\ r \in RowTimes \ leftBehind /\ r \in Times
      /\ UNCHANGED <<published, api, toReimport, prices, job, writer>>
  BY DEF Follows, NewestInv, IInv, Select, Guess, UpdatePrices, apiVars, priceVars
<1>2. FollowsApi(r) /\ api[r] > 0
  BY <1>1 DEF Follows, NewestInv, RowsFollow
<1>3. ASSUME Newest(r), RowFollows(r), Select
      PROVE  RowFollows(r)'
  <2>1. price' = price
    BY <1>3 DEF Select, rowVars
  <2>2. r \in pass'.rows => pass'.held[r] = MatchingPrice(r)
    BY <1>1, <1>3, SelectedPrices
  <2>3. MatchingPrice(r) \in NewestPrice(r) /\ (MatchingPrice(r) = Null => r \in published)
    BY <1>1, <1>2, <1>3, MatchingFollows
  <2> QED
    BY <1>1, <1>3, <2>1, <2>2, <2>3 DEF RowFollows, NewestPrice, Null
<1>4. ASSUME Newest(r), RowFollows(r), Guess
      PROVE  RowFollows(r)'
  <2>1. price' = price
    BY <1>4 DEF Guess, rowVars
  <2>2. /\ pass.stage = "first" /\ pass'.rows = pass.rows
        /\ pass'.held[r] = IF r \in pass.rows /\ pass.held[r] = Null
                           THEN Heuristic(r) ELSE pass.held[r]
    BY <1>1, <1>4, PassFields
  <2>3. ASSUME r \in pass.rows, pass.held[r] = Null
        PROVE  Heuristic(r) \in NewestPrice(r) /\ r \in published
    <3>1. ImportedIsStored /\ RowsArePast /\ FirstIsFirst /\ r \in published
      BY <1>4, <2>3 DEF Follows, NewestInv, IInv, RowFollows
    <3>2. \/ Heuristic(r) = Null
          \/ prices[r] > 0 /\ Heuristic(r) = PriceOf(r, prices[r])
      BY <1>1, <2>2, <2>3, <3>1, HeuristicFollows
    <3> QED
      BY <1>4, <3>1, <3>2 DEF Newest, NewestPrice
  <2> QED
    BY <1>1, <1>4, <2>1, <2>2, <2>3 DEF RowFollows, NewestPrice, Null
<1>5. ASSUME Newest(r), RowFollows(r), UpdatePrices
      PROVE  RowFollows(r)'
  <2>1. price'[r] = IF pass.held[r] # Null THEN pass.held[r] ELSE price[r]
    BY <1>1, <1>5 DEF UpdatePrices
  <2>2. pass'.rows = {}
    BY <1>1, <1>5, PassFields DEF IdlePass
  <2>3. pass.held[r] # Null => r \in pass.rows
    BY <1>1 DEF Follows, NewestInv, HeldRows
  <2> QED
    BY <1>1, <1>5, <2>1, <2>2, <2>3 DEF RowFollows, NewestPrice
<1> QED
  BY <1>1, <1>2, <1>3, <1>4, <1>5, RowsAlone

LEMMA FollowsNext == NewestInv /\ [Next]_vars => RowsFollow'
<1> SUFFICES ASSUME NewestInv, [Next]_vars, NEW r \in RowTimes \ leftBehind', api'[r] > 0
             PROVE  FollowsApi(r)'
  BY DEF RowsFollow
<1>1. Typed /\ Follows(r)
  BY DEF NewestInv, IInv, Follows, Times
<1>2. CASE Quiet
  <2>1. FollowsApi(r)
    BY <1>2 DEF Quiet, NewestInv, RowsFollow
  <2>2. RowFollows(r) => RowFollows(r)'
    BY <1>2, RowAlone DEF Quiet
  <2> QED
    BY <1>2, <2>1, <2>2, RowsAlone DEF Quiet
<1> QED
  BY <1>1, <1>2, NextKinds, FollowsTick, FollowsCorrect, FollowsFetch, FollowsStore, FollowsRefresh,
     FollowsRecord, FollowsWriter, FollowsPass

(***************************************************************************)
(* What a reimport has dealt with is priced with the newest price of the   *)
(* API, unless the reimport left an older one behind: whatever the other   *)
(* importer, the import of investments and the cache pass had read before  *)
(* and write after, and whatever fails.                                    *)
(***************************************************************************)
THEOREM ReimportsReachRows == Spec => []ReimportReachesRows
<1>1. NewestInv /\ [Next]_vars => NewestInv'
  <2>1. IInv /\ [Next]_vars => IInv'
    BY TypedNext, ImportsArePastNext, ImportedNext, RowsArePastNext, FirstIsFirstNext,
     HeldIsRightNext DEF IInv
  <2> QED
    BY <2>1, BoundedNext, HeldRowsNext, FollowsNext DEF NewestInv
<1>2. NewestInv => ReimportReachesRows
  <2> SUFFICES ASSUME NewestInv, NEW r \in RowTimes \ (toReimport \cup leftBehind),
                      api[r] > 0, price[r] # Null
               PROVE  price[r] = PriceOf(r, api[r])
    BY DEF ReimportReachesRows
  <2>1. FollowsApi(r)
    BY DEF NewestInv, RowsFollow
  <2> QED
    BY <2>1 DEF FollowsApi, RowFollows, NewestPrice
<1> QED
  BY NewestInit, <1>1, <1>2, PTL DEF Spec
=============================================================================
