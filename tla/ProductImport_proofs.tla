----------------------- MODULE ProductImport_proofs -------------------------
(***************************************************************************)
(* Proofs about the import of one product, for any number of importers,    *)
(* any chain length, any query size and any number of failures.            *)
(***************************************************************************)
EXTENDS ProductImport, TLAPS

USE WorkersAssumption, ChainAssumption, QueryAssumption, ReimportAssumption,
    NoRowAssumption

-----------------------------------------------------------------------------
(* Lemmas about the import state of the product. *)

(* What merging results does to the ranges of a row. *)
LEMMA MergeRanges ==
    ASSUME NEW s \in ImportState, NEW b \in Buffer
    PROVE  /\ MergeImportState(b, s) \in ImportState
           /\ MergeImportState(b, s).covered = s.covered \cup b.success \cup b.error
           /\ MergeImportState(b, s).toRetry
                = (s.toRetry \ (b.success \ b.error)) \cup b.error
BY DEF MergeImportState, UpdateImportRanges, SuccessRanges, MaxOf, ImportState, Buffer

LEMMA AddResultRanges ==
    ASSUME NEW b \in Buffer, NEW ok \in SUBSET Blocks, NEW ko \in SUBSET Blocks,
           NEW l \in Nat
    PROVE  /\ AddResult(b, ok, ko, l) \in Buffer
           /\ AddResult(b, ok, ko, l).success = b.success \cup ok
           /\ AddResult(b, ok, ko, l).error = b.error \cup ko
BY DEF AddResult, MaxOf, Buffer

LEMMA DefaultTypes ==
    /\ DefaultImportState(0) \in ImportState
    /\ DefaultImportState(Created) \in ImportState
    /\ \A l : /\ DefaultImportState(l).covered = {}
              /\ DefaultImportState(l).toRetry = {}
    /\ NoResult \in Buffer /\ NoResult.success = {} /\ NoResult.error = {}
BY DEF DefaultImportState, ImportState, NoResult, Buffer

(***************************************************************************)
(* importStateToOptimizerRangeInput never asks for a block before the      *)
(* first one, nor for one that is still propagating.                       *)
(***************************************************************************)
LEMMA RecentFromNatural ==
    ASSUME NEW last \in Nat, NEW l \in Nat
    PROVE  RecentFrom(last, l) \in Nat
BY DEF RecentFrom, MaxOf, MinOf

LEMMA FullRangeSettled ==
    ASSUME NEW w \in Workers, NEW last \in Nat, NEW l \in Nat,
           NEW b \in FullRange(w, last, l)
    PROVE  b \in Nat /\ b + WaitForBlockPropagation <= l
<1>1. RecentFrom(last, l) \in Nat
  BY RecentFromNatural
<1>2. CASE w \in Recent
  BY <1>1, <1>2 DEF FullRange
<1>3. CASE w \notin Recent /\ SkipRecent
  BY <1>1, <1>3 DEF FullRange, MinOf
<1>4. CASE w \notin Recent /\ ~SkipRecent
  BY <1>4 DEF FullRange
<1> QED
  BY <1>2, <1>3, <1>4

-----------------------------------------------------------------------------
(***************************************************************************)
(* Type correctness.  The row is known to whoever needs it: a historical   *)
(* importer plans from a row it fetched or created, and the reimport       *)
(* command only schedules on a row it read; rows are never deleted.        *)
(***************************************************************************)
RowKnown ==
    /\ \A w \in Workers : pc[w] = "plan" => seen[w] # NoRow
    /\ reimport # {} => row # NoRow

TypeInv == TypeOK /\ RowKnown

(* The state a run is planned from is a well-formed import state. *)
LEMMA RangesToQueryType ==
    ASSUME TypeInv, NEW w \in Workers, NEW last \in 0 .. head, NEW l \in 0 .. head,
           w \notin Recent => pc[w] = "plan"
    PROVE  RangesToQuery(w, last, l) \subseteq Blocks
<1> DEFINE state == IF w \in Recent \cup Ignoring
                    THEN DefaultImportState(0) ELSE seen[w]
<1>1. head \in Nat /\ head <= MaxBlock
  BY DEF TypeInv, TypeOK
<1>2. FullRange(w, last, l) \subseteq Blocks
  <2>1. last \in Nat /\ l \in Nat /\ l <= MaxBlock
    BY <1>1
  <2> QED
    BY <2>1, FullRangeSettled
<1>3. state \in ImportState
  BY DefaultTypes DEF TypeInv, TypeOK, RowKnown
<1>4. state.toRetry \subseteq Blocks
  BY <1>3 DEF ImportState
<1>5. RangesToQuery(w, last, l) \subseteq FullRange(w, last, l) \cup state.toRetry
  BY DEF RangesToQuery
<1> QED
  BY <1>2, <1>4, <1>5

LEMMA PlanWithType ==
    ASSUME TypeInv, NEW w \in Workers, NEW l \in 0 .. head, PlanWith(w, l)
    PROVE  /\ head' = head /\ rpcHead' = rpcHead /\ row' = row /\ stored' = stored
           /\ buffer' = buffer /\ asked' = asked
           /\ reimport' = reimport /\ reimports' = reimports
           /\ pc' \in [Workers -> {"idle", "create", "plan", "query"}]
           /\ seen' \in [Workers -> ImportState \cup {NoRow}]
           /\ latest' \in [Workers -> Nat]
           /\ todo' \in [Workers -> SUBSET Blocks]
           /\ RowKnown'
<1>1. PICK last \in 0 .. head :
        todo' = [todo EXCEPT ![w] = RangesToQuery(w, last, l)]
  BY DEF PlanWith
<1>2. w \notin Recent => pc[w] = "plan"
  BY DEF PlanWith
<1>3. RangesToQuery(w, last, l) \subseteq Blocks
  BY <1>2, RangesToQueryType
<1>4. todo' \in [Workers -> SUBSET Blocks]
  BY <1>1, <1>3 DEF TypeInv, TypeOK
<1>5. l \in Nat
  BY DEF TypeInv, TypeOK
<1>6. RowKnown'
  BY DEF PlanWith, TypeInv, TypeOK, RowKnown, command
<1> QED
  BY <1>4, <1>5, <1>6 DEF PlanWith, TypeInv, TypeOK, chain, command

LEMMA QueryWithType ==
    ASSUME TypeInv, NEW w \in Workers, NEW first \in Blocks, NEW failed, NEW told,
           QueryWith(w, first, failed, told)
    PROVE  /\ head' = head /\ rpcHead' = rpcHead /\ row' = row
           /\ pc' = pc /\ seen' = seen /\ latest' = latest
           /\ reimport' = reimport /\ reimports' = reimports
           /\ stored' \subseteq Blocks
           /\ todo' \in [Workers -> SUBSET Blocks]
           /\ buffer' \in [Workers -> Buffer]
           /\ asked' \subseteq Blocks
<1> DEFINE query == todo[w] \cap (first .. first + MaxBlocksPerQuery - 1)
<1>1. /\ query \subseteq Blocks
      /\ query \ failed \in SUBSET Blocks
      /\ told \in SUBSET Blocks
      /\ latest[w] \in Nat
      /\ buffer[w] \in Buffer
  BY DEF QueryWith, TypeInv, TypeOK
<1>2. AddResult(buffer[w], query \ failed, told, latest[w]) \in Buffer
  BY <1>1, AddResultRanges
<1> QED
  BY <1>1, <1>2 DEF QueryWith, TypeInv, TypeOK, chain, command

LEMMA FaultsType == TypeInv /\ Fails => faults' \in 0 .. MaxFaults
BY DEF TypeInv, TypeOK, Fails

LEMMA TypeInit == Init => TypeInv
BY DefaultTypes DEF Init, TypeInv, TypeOK, RowKnown

(* A step is one of an importer, of the command or of the chain. *)
LEMMA NextCases ==
    ASSUME TypeInv, [Next]_vars
    PROVE  /\ deployed' = deployed
           /\ deployed' \in Deployments
           /\ \/ ChainAdvances \/ NodesCatchUp \/ ReimportRequest \/ ReimportSchedule
              \/ \E w \in Workers : Work(w) \/ Fault(w)
              \/ UNCHANGED vars
<1>1. deployed \in Deployments /\ deployed \subseteq Workers
  BY DEF TypeInv, TypeOK
<1> QED
  BY <1>1 DEF Next, Step, vars

LEMMA TypeNext == TypeInv /\ [Next]_vars => TypeInv'
<1> SUFFICES ASSUME TypeInv, [Next]_vars
             PROVE  TypeInv'
  OBVIOUS
<1>0. deployed' \in Deployments
  BY NextCases
<1> USE <1>0
<1> USE DEF TypeInv
<1>1. CASE ChainAdvances \/ NodesCatchUp
  <2>1. head' \in Created .. MaxBlock /\ rpcHead' \in Created .. MaxBlock
    <3>1. CASE ChainAdvances
      BY <3>1 DEF ChainAdvances, TypeOK
    <3>2. CASE NodesCatchUp
      BY <3>2 DEF NodesCatchUp, TypeOK
    <3> QED
      BY <1>1, <3>1, <3>2
  <2>2. UNCHANGED <<row, stored, run, buffer, command, asked, faults>>
    BY <1>1 DEF ChainAdvances, NodesCatchUp
  <2> QED
    BY <2>1, <2>2 DEF TypeOK, RowKnown, run, command
<1>2. CASE ReimportRequest
  BY <1>2 DEF ReimportRequest, TypeOK, RowKnown, chain, run
<1>3. CASE ReimportSchedule
  <2>1. row \in ImportState
    BY <1>3 DEF ReimportSchedule, TypeOK, RowKnown
  <2>2. AddResult(NoResult, {}, reimport, 0) \in Buffer
    BY DefaultTypes, AddResultRanges DEF TypeOK
  <2>3. row' \in ImportState
    BY <1>3, <2>1, <2>2, MergeRanges DEF ReimportSchedule
  <2> QED
    BY <1>3, <2>3 DEF ReimportSchedule, TypeOK, RowKnown, chain, run
<1>4. ASSUME NEW w \in Workers, Start(w)
      PROVE  TypeInv'
  BY <1>4 DEF Start, TypeOK, RowKnown, chain, command
<1>5. ASSUME NEW w \in Workers, Create(w)
      PROVE  TypeInv'
  <2>1. row' \in ImportState
    <3>1. CASE row = NoRow
      BY <1>5, <3>1, DefaultTypes DEF Create
    <3>2. CASE row # NoRow
      <4>1. row \in ImportState /\ Created \in Nat
        BY <3>2 DEF TypeOK
      <4>2. row' = [row EXCEPT !.latest = Created]
        BY <1>5, <3>2 DEF Create
      <4> QED
        BY <4>1, <4>2 DEF ImportState
    <3> QED
      BY <3>1, <3>2
  <2> QED
    BY <1>5, <2>1 DEF Create, TypeOK, RowKnown, chain, command
<1>6. ASSUME NEW w \in Workers, Plan(w)
      PROVE  TypeInv'
  <2>1. PICK l \in rpcHead .. head : PlanWith(w, l)
    BY <1>6 DEF Plan
  <2>2. l \in 0 .. head
    BY DEF TypeOK
  <2> QED
    BY <1>6, <2>1, <2>2, PlanWithType DEF Plan, TypeOK
<1>7. ASSUME NEW w \in Workers, PlanFromOldBlock(w)
      PROVE  TypeInv'
  <2>1. PICK l \in 0 .. head : PlanWith(w, l)
    BY <1>7 DEF PlanFromOldBlock
  <2>2. faults' \in 0 .. MaxFaults
    BY <1>7, FaultsType DEF PlanFromOldBlock
  <2> QED
    BY <2>1, <2>2, PlanWithType DEF TypeOK
<1>8. ASSUME NEW w \in Workers, Query(w)
      PROVE  TypeInv'
  <2>1. PICK first \in todo[w] : QueryWith(w, first, {}, {})
    BY <1>8 DEF Query
  <2>2. first \in Blocks
    BY DEF TypeOK
  <2>3. faults' = faults
    BY <1>8 DEF Query
  <2> QED
    BY <2>1, <2>2, <2>3, QueryWithType DEF TypeOK, RowKnown
<1>9. ASSUME NEW w \in Workers, QueryFails(w)
      PROVE  TypeInv'
  <2>1. PICK first \in todo[w], failed \in (SUBSET todo[w]) \ {{}} :
          \E told \in {failed, {}} : QueryWith(w, first, failed, told)
    BY <1>9 DEF QueryFails
  <2>2. PICK told \in {failed, {}} : QueryWith(w, first, failed, told)
    BY <2>1
  <2>3. first \in Blocks
    BY DEF TypeOK
  <2>4. faults' \in 0 .. MaxFaults
    BY <1>9, FaultsType DEF QueryFails
  <2> QED
    BY <2>2, <2>3, <2>4, QueryWithType DEF TypeOK, RowKnown
<1>10. ASSUME NEW w \in Workers, Record(w)
       PROVE  TypeInv'
  <2>1. row' \in ImportState \cup {NoRow} /\ (row # NoRow => row' # NoRow)
    BY <1>10, MergeRanges DEF Record, TypeOK
  <2> QED
    BY <1>10, <2>1, DefaultTypes DEF Record, TypeOK, RowKnown, chain, run, command
<1>11. ASSUME NEW w \in Workers, RecordFails(w)
       PROVE  TypeInv'
  BY <1>11, DefaultTypes
  DEF RecordFails, Fails, TypeOK, RowKnown, chain, run, command
<1>12. ASSUME NEW w \in Workers, EndRun(w)
       PROVE  TypeInv'
  BY <1>12 DEF EndRun, TypeOK, RowKnown, chain, command
<1>13. ASSUME NEW w \in Workers, CreationInfoMissing(w)
       PROVE  TypeInv'
  BY <1>13 DEF CreationInfoMissing, Fails, TypeOK, RowKnown, chain, command
<1>14. ASSUME NEW w \in Workers, Stop(w)
       PROVE  TypeInv'
  BY <1>14, DefaultTypes DEF Stop, Fails, TypeOK, RowKnown, chain, command
<1>15. CASE UNCHANGED vars
  BY <1>15 DEF vars, TypeOK, RowKnown
<1> QED
  BY <1>1, <1>2, <1>3, <1>4, <1>5, <1>6, <1>7, <1>8, <1>9, <1>10, <1>11, <1>12,
     <1>13, <1>14, <1>15, NextCases DEF Work, Fault

(***************************************************************************)
(* Every variable of the product import keeps its type; in particular the  *)
(* planned ranges are blocks of the chain, whatever block number the run   *)
(* was given.                                                              *)
(***************************************************************************)
THEOREM TypeCorrect == Spec => []TypeOK
<1>1. Init => TypeInv
  BY TypeInit
<1>2. TypeInv /\ [Next]_vars => TypeInv'
  BY TypeNext
<1>3. TypeInv => TypeOK
  BY DEF TypeInv
<1> QED
  BY <1>1, <1>2, <1>3, PTL DEF Spec

-----------------------------------------------------------------------------
(***************************************************************************)
(* Waiting for propagation.  The planned blocks come from the full range,  *)
(* which stops waitForBlockPropagation blocks before the latest block, or  *)
(* from the retries, which nothing clamps: so every block that can become  *)
(* a retry (a planned one, a failed one, one whose reimport is asked for)  *)
(* has to be settled already.                                              *)
(***************************************************************************)
Settled(blocks) == \A b \in blocks : b + WaitForBlockPropagation <= head

RangesSettled ==
    /\ row # NoRow => Settled(row.toRetry)
    /\ Settled(reimport)
    /\ \A w \in Workers : /\ seen[w] # NoRow => Settled(seen[w].toRetry)
                          /\ Settled(todo[w])
                          /\ Settled(buffer[w].error)

LEMMA RangesToQuerySettled ==
    ASSUME TypeInv, RangesSettled, NEW w \in Workers,
           NEW last \in 0 .. head, NEW l \in 0 .. head,
           w \notin Recent => pc[w] = "plan"
    PROVE  Settled(RangesToQuery(w, last, l))
<1> DEFINE state == IF w \in Recent \cup Ignoring
                    THEN DefaultImportState(0) ELSE seen[w]
<1>1. Settled(state.toRetry)
  <2>1. CASE w \in Recent \cup Ignoring
    BY <2>1, DefaultTypes DEF Settled
  <2>2. CASE w \notin Recent \cup Ignoring
    BY <2>2 DEF RangesSettled, TypeInv, RowKnown
  <2> QED
    BY <2>1, <2>2
<1>2. Settled(FullRange(w, last, l))
  <2>1. last \in Nat /\ l \in Nat /\ l <= head /\ head \in Nat
    BY DEF TypeInv, TypeOK
  <2> SUFFICES ASSUME NEW b \in FullRange(w, last, l)
               PROVE  b + WaitForBlockPropagation <= head
    BY DEF Settled
  <2>2. b \in Nat /\ b + WaitForBlockPropagation <= l
    BY <2>1, FullRangeSettled
  <2> QED
    BY <2>1, <2>2
<1>3. RangesToQuery(w, last, l) \subseteq FullRange(w, last, l) \cup state.toRetry
  BY DEF RangesToQuery
<1> QED
  BY <1>1, <1>2, <1>3 DEF Settled

(* The chain never goes back, so a settled block stays settled. *)
LEMMA HeadGrows ==
    ASSUME TypeInv, [Next]_vars
    PROVE  /\ head \in Nat /\ head' \in Nat /\ head <= head'
           /\ \A b \in Blocks : b + WaitForBlockPropagation <= head
                                => b + WaitForBlockPropagation <= head'
<1>1. head \in Nat /\ head' \in Nat
  BY TypeNext DEF TypeInv, TypeOK
<1>2. head' = head \/ head' = head + 1
  <2>1. CASE ChainAdvances \/ NodesCatchUp \/ ReimportRequest \/ ReimportSchedule
    BY <2>1 DEF ChainAdvances, NodesCatchUp, ReimportRequest, ReimportSchedule, chain
  <2>2. ASSUME NEW w \in Workers, Work(w)
        PROVE  head' = head
    <3>1. CASE Start(w) \/ Create(w) \/ Record(w) \/ EndRun(w)
      BY <3>1 DEF Start, Create, Record, EndRun, chain
    <3>2. CASE Plan(w) \/ Query(w)
      BY <3>2 DEF Plan, PlanWith, Query, QueryWith, chain
    <3> QED
      BY <2>2, <3>1, <3>2 DEF Work
  <2>3. ASSUME NEW w \in Workers, Fault(w)
        PROVE  head' = head
    <3>1. CASE CreationInfoMissing(w) \/ RecordFails(w) \/ Stop(w)
      BY <3>1 DEF CreationInfoMissing, RecordFails, Stop, chain
    <3>2. CASE PlanFromOldBlock(w) \/ QueryFails(w)
      BY <3>2 DEF PlanFromOldBlock, PlanWith, QueryFails, QueryWith, chain
    <3> QED
      BY <2>3, <3>1, <3>2 DEF Fault
  <2>4. CASE UNCHANGED vars
    BY <2>4 DEF vars
  <2> QED
    BY <2>1, <2>2, <2>3, <2>4, NextCases
<1> QED
  BY <1>1, <1>2

LEMMA SettledInit == Init => RangesSettled
BY DefaultTypes DEF Init, RangesSettled, Settled

LEMMA SettledNext ==
    ASSUME SettledReimports, TypeInv, RangesSettled, [Next]_vars
    PROVE  RangesSettled'
<1> DEFINE Still(S) == \A b \in S : b + WaitForBlockPropagation <= head'
<1>0. \A S \in SUBSET Blocks : Settled(S) => Still(S)
  BY HeadGrows DEF Settled
<1>t. TypeOK'
  BY TypeNext DEF TypeInv
<1>r. row # NoRow => Still(row.toRetry)
  BY <1>0 DEF RangesSettled, TypeInv, TypeOK, ImportState
<1>i. Still(reimport)
  BY <1>0 DEF RangesSettled, TypeInv, TypeOK
<1>s. \A w \in Workers : seen[w] # NoRow => Still(seen[w].toRetry)
  BY <1>0 DEF RangesSettled, TypeInv, TypeOK, ImportState
<1>d. \A w \in Workers : Still(todo[w])
  BY <1>0 DEF RangesSettled, TypeInv, TypeOK
<1>b. \A w \in Workers : Still(buffer[w].error)
  BY <1>0 DEF RangesSettled, TypeInv, TypeOK, Buffer
<1> HIDE DEF Still
<1> DEFINE Kept ==
      /\ row' # NoRow => Still(row'.toRetry)
      /\ Still(reimport')
      /\ \A v \in Workers : /\ seen'[v] # NoRow => Still(seen'[v].toRetry)
                            /\ Still(todo'[v])
                            /\ Still(buffer'[v].error)
<1> SUFFICES Kept
  BY DEF RangesSettled, Settled, Still
<1>e. Still({}) /\ (\A S, T : Still(S) /\ Still(T) => Still(S \cup T))
                /\ (\A S : \A T \in SUBSET S : Still(S) => Still(T))
  BY DEF Still
<1>n. Still(NoResult.error) /\ NoResult \in Buffer
  BY <1>e, DefaultTypes
<1>1. CASE ChainAdvances \/ NodesCatchUp
  BY <1>1, <1>r, <1>i, <1>s, <1>d, <1>b DEF ChainAdvances, NodesCatchUp, run, command
<1>2. CASE ReimportRequest
  <2>1. Still(reimport')
    <3>1. PICK from \in Blocks, toBlock \in ReimportTo :
            LET to == IF toBlock = 0 THEN row.latest ELSE toBlock
            IN  /\ to <= head - WaitForBlockPropagation
                /\ reimport' = (MaxOf(from, Created + 1) .. to) \cap Blocks
      BY <1>2 DEF ReimportRequest
    <3>2. (IF toBlock = 0 THEN row.latest ELSE toBlock) \in Nat
      BY <1>2 DEF ReimportRequest, TypeInv, TypeOK, ImportState
    <3>3. head' = head /\ head \in Nat
      BY <1>2, HeadGrows DEF ReimportRequest, chain
    <3> QED
      BY <3>1, <3>2, <3>3 DEF Still
  <2> QED
    BY <1>2, <2>1, <1>r, <1>s, <1>d, <1>b DEF ReimportRequest, run
<1>3. CASE ReimportSchedule
  <2>1. row \in ImportState /\ reimport \in SUBSET Blocks
    BY <1>3 DEF ReimportSchedule, TypeInv, TypeOK, RowKnown
  <2> DEFINE result == AddResult(NoResult, {}, reimport, 0)
  <2>2. result \in Buffer /\ result.error = reimport
    <3>1. {} \in SUBSET Blocks /\ 0 \in Nat
      OBVIOUS
    <3>2. result \in Buffer
      BY <2>1, <3>1, DefaultTypes, AddResultRanges
    <3>3. result.error = NoResult.error \cup reimport
      BY DEF AddResult
    <3> QED
      BY <3>2, <3>3, DefaultTypes
  <2>3. Still(row'.toRetry)
    <3>1. row' = MergeImportState(result, row)
      BY <1>3 DEF ReimportSchedule
    <3> HIDE DEF result
    <3>2. row'.toRetry \subseteq row.toRetry \cup reimport
      BY <2>1, <2>2, <3>1, MergeRanges
    <3>3. Still(row.toRetry \cup reimport)
      BY <2>1, <1>e, <1>r, <1>i, NoRowAssumption
    <3> QED
      BY <3>2, <3>3, <1>e
  <2> QED
    BY <1>3, <2>3, <1>e, <1>s, <1>d, <1>b DEF ReimportSchedule, run
<1>4. ASSUME NEW w \in Workers, Start(w)
      PROVE  Kept
  BY <1>4, <1>r, <1>i, <1>s, <1>d, <1>b DEF Start, command, TypeInv, TypeOK
<1>5. ASSUME NEW w \in Workers, Create(w)
      PROVE  Kept
  <2>1. row'.toRetry = IF row = NoRow THEN {} ELSE row.toRetry
    BY <1>5, DefaultTypes DEF Create, TypeInv, TypeOK, ImportState
  <2>2. Still(row'.toRetry)
    BY <2>1, <1>r, <1>e
  <2> QED
    BY <1>5, <2>2, <1>i, <1>s, <1>d, <1>b DEF Create, command, TypeInv, TypeOK
<1>6. ASSUME NEW w \in Workers, NEW l \in 0 .. head, PlanWith(w, l)
      PROVE  Kept
  <2>1. PICK last \in 0 .. head :
          todo' = [todo EXCEPT ![w] = RangesToQuery(w, last, l)]
    BY <1>6 DEF PlanWith
  <2>2. Still(RangesToQuery(w, last, l))
    <3>1. w \notin Recent => pc[w] = "plan"
      BY <1>6 DEF PlanWith
    <3> QED
      BY <1>0, <3>1, RangesToQuerySettled, RangesToQueryType
  <2> QED
    BY <1>6, <2>1, <2>2, <1>r, <1>i, <1>s, <1>d, <1>b
    DEF PlanWith, command, TypeInv, TypeOK
<1>7. ASSUME NEW w \in Workers, NEW first \in Blocks, NEW failed, NEW told,
             QueryWith(w, first, failed, told)
      PROVE  Kept
  <2> DEFINE query == todo[w] \cap (first .. first + MaxBlocksPerQuery - 1)
  <2>1. /\ query \in SUBSET Blocks /\ query \ failed \in SUBSET Blocks
        /\ told \in SUBSET query /\ told \in SUBSET Blocks
        /\ buffer[w] \in Buffer /\ latest[w] \in Nat
    BY <1>7 DEF QueryWith, TypeInv, TypeOK
  <2>2. /\ todo' = [todo EXCEPT ![w] = todo[w] \ query]
        /\ buffer' = [buffer EXCEPT ![w] =
                        AddResult(buffer[w], query \ failed, told, latest[w])]
    BY <1>7 DEF QueryWith
  <2>3. AddResult(buffer[w], query \ failed, told, latest[w]).error
          = buffer[w].error \cup told
    BY DEF AddResult
  <2>4. Still(buffer[w].error \cup told)
    BY <2>1, <1>e, <1>b, <1>d
  <2>5. Still(todo[w] \ query)
    BY <1>e, <1>d
  <2> HIDE DEF query
  <2>6. UNCHANGED <<row, seen, reimport>>
    BY <1>7 DEF QueryWith, command
  <2>7. \A v \in Workers : Still(todo'[v])
    BY <2>2, <2>5, <1>d DEF TypeInv, TypeOK
  <2>8. \A v \in Workers : Still(buffer'[v].error)
    BY <2>2, <2>3, <2>4, <1>b DEF TypeInv, TypeOK
  <2> QED
    BY <2>6, <2>7, <2>8, <1>r, <1>i, <1>s
<1>8. ASSUME NEW w \in Workers, Record(w)
      PROVE  Kept
  <2>1. row' # NoRow => Still(row'.toRetry)
    <3>1. CASE row = NoRow
      BY <1>8, <3>1 DEF Record
    <3>2. CASE row # NoRow
      <4>1. row \in ImportState /\ buffer[w] \in Buffer
        BY <3>2 DEF TypeInv, TypeOK
      <4>2. row'.toRetry \subseteq row.toRetry \cup buffer[w].error
        BY <1>8, <3>2, <4>1, MergeRanges DEF Record
      <4>3. Still(row.toRetry \cup buffer[w].error)
        BY <3>2, <1>e, <1>r, <1>b
      <4> QED
        BY <4>2, <4>3, <1>e
    <3> QED
      BY <3>1, <3>2
  <2> QED
    BY <1>8, <2>1, <1>n, <1>i, <1>s, <1>d, <1>b DEF Record, run, command, TypeInv, TypeOK
<1>9. ASSUME NEW w \in Workers,
             RecordFails(w) \/ EndRun(w) \/ CreationInfoMissing(w) \/ Stop(w)
      PROVE  Kept
  BY <1>9, <1>n, <1>e, <1>r, <1>i, <1>s, <1>d, <1>b
  DEF RecordFails, EndRun, CreationInfoMissing, Stop, run, command, TypeInv, TypeOK
<1>10. CASE UNCHANGED vars
  BY <1>10, <1>r, <1>i, <1>s, <1>d, <1>b DEF vars
<1>11. ASSUME NEW w \in Workers, Plan(w) \/ PlanFromOldBlock(w)
       PROVE  \E l \in 0 .. head : PlanWith(w, l)
  BY <1>11 DEF Plan, PlanFromOldBlock, TypeInv, TypeOK
<1>12. ASSUME NEW w \in Workers, Query(w) \/ QueryFails(w)
       PROVE  \E first \in Blocks : \E failed, told : QueryWith(w, first, failed, told)
  BY <1>12 DEF Query, QueryFails, TypeInv, TypeOK
<1> QED
  BY <1>1, <1>2, <1>3, <1>4, <1>5, <1>6, <1>7, <1>8, <1>9, <1>10, <1>11, <1>12,
     NextCases
  DEF Work, Fault

(***************************************************************************)
(* As long as nobody asks to reimport blocks that are still propagating,   *)
(* no importer queries one: for any number of importers, any stale or      *)
(* fresh latest block, any lastImportCache, any failure.                   *)
(***************************************************************************)
THEOREM PropagationAwaited ==
    ASSUME SettledReimports
    PROVE  Spec => []WaitsForPropagation
<1>1. Init => TypeInv /\ RangesSettled
  BY TypeInit, SettledInit
<1>2. TypeInv /\ RangesSettled /\ [Next]_vars => (TypeInv /\ RangesSettled)'
  BY TypeNext, SettledNext
<1>3. RangesSettled => WaitsForPropagation
  BY DEF RangesSettled, Settled, WaitsForPropagation
<1> QED
  BY <1>1, <1>2, <1>3, PTL DEF Spec

-----------------------------------------------------------------------------
(***************************************************************************)
(* No silent gap.  A success is recorded for blocks whose events were      *)
(* stored, provided the node that answered knew them: this is what waiting *)
(* for propagation is for, and it is enough when no node is further behind *)
(* than waitForBlockPropagation.  The row may be overwritten, merged and   *)
(* scheduled for reimport in any order: it only counts as imported what    *)
(* some importer stored.                                                   *)
(***************************************************************************)
NodesLag == rpcHead <= head /\ head <= rpcHead + MaxLag

ResultsStored ==
    /\ row # NoRow => Imported(row) \subseteq stored
    /\ \A w \in Workers : buffer[w].success \subseteq stored

LEMMA MergeImported ==
    ASSUME NEW s \in ImportState, NEW b \in Buffer
    PROVE  Imported(MergeImportState(b, s)) \subseteq Imported(s) \cup b.success
BY MergeRanges DEF Imported

LEMMA LagInit == Init => NodesLag
BY DEF Init, NodesLag

LEMMA LagNext == TypeInv /\ NodesLag /\ [Next]_vars => NodesLag'
<1> SUFFICES ASSUME TypeInv, NodesLag, [Next]_vars
             PROVE  NodesLag'
  OBVIOUS
<1>1. head \in Nat /\ rpcHead \in Nat
  BY DEF TypeInv, TypeOK
<1>2. CASE ChainAdvances
  BY <1>1, <1>2 DEF ChainAdvances, NodesLag
<1>3. CASE NodesCatchUp
  BY <1>1, <1>3 DEF NodesCatchUp, NodesLag
<1>4. CASE ReimportRequest \/ ReimportSchedule
  BY <1>4 DEF ReimportRequest, ReimportSchedule, chain, NodesLag
<1>5. ASSUME NEW w \in Workers, Work(w)
      PROVE  NodesLag'
  <2>1. CASE Start(w) \/ Create(w) \/ Record(w) \/ EndRun(w)
    BY <2>1 DEF Start, Create, Record, EndRun, chain, NodesLag
  <2>2. CASE Plan(w) \/ Query(w)
    BY <2>2 DEF Plan, PlanWith, Query, QueryWith, chain, NodesLag
  <2> QED
    BY <1>5, <2>1, <2>2 DEF Work
<1>6. ASSUME NEW w \in Workers, Fault(w)
      PROVE  NodesLag'
  <2>1. CASE CreationInfoMissing(w) \/ RecordFails(w) \/ Stop(w)
    BY <2>1 DEF CreationInfoMissing, RecordFails, Stop, chain, NodesLag
  <2>2. CASE PlanFromOldBlock(w) \/ QueryFails(w)
    BY <2>2 DEF PlanFromOldBlock, PlanWith, QueryFails, QueryWith, chain, NodesLag
  <2> QED
    BY <1>6, <2>1, <2>2 DEF Fault
<1>7. CASE UNCHANGED vars
  BY <1>7 DEF vars, NodesLag
<1> QED
  BY <1>2, <1>3, <1>4, <1>5, <1>6, <1>7, NextCases

(* A settled block is known to every node. *)
LEMMA SettledIsKnown ==
    ASSUME MaxLag <= WaitForBlockPropagation, TypeInv, NodesLag,
           NEW blocks \in SUBSET Blocks, Settled(blocks),
           NEW known \in rpcHead .. head
    PROVE  {b \in blocks : b <= known} = blocks
<1>1. /\ head \in Nat /\ rpcHead \in Nat /\ head <= rpcHead + MaxLag
      /\ MaxLag \in Nat /\ WaitForBlockPropagation \in Nat
  BY DEF TypeInv, TypeOK, NodesLag
<1>2. known >= rpcHead /\ known \in Nat
  BY <1>1
<1> SUFFICES ASSUME NEW b \in blocks PROVE b <= known
  OBVIOUS
<1>3. b \in Nat /\ b + WaitForBlockPropagation <= head
  BY DEF Settled
<1> QED
  BY <1>1, <1>2, <1>3

LEMMA StoredInit == Init => ResultsStored
BY DefaultTypes DEF Init, ResultsStored

LEMMA StoredNext ==
    ASSUME MaxLag <= WaitForBlockPropagation,
           TypeInv, RangesSettled, NodesLag, ResultsStored, [Next]_vars
    PROVE  ResultsStored'
<1>1. CASE ChainAdvances \/ NodesCatchUp \/ ReimportRequest \/ UNCHANGED vars
  BY <1>1 DEF ChainAdvances, NodesCatchUp, ReimportRequest, vars, ResultsStored
<1>2. CASE ReimportSchedule
  <2> DEFINE result == AddResult(NoResult, {}, reimport, 0)
  <2>1. /\ row \in ImportState /\ row # NoRow
        /\ result \in Buffer /\ result.success = {}
    <3>1. {} \in SUBSET Blocks /\ 0 \in Nat /\ reimport \in SUBSET Blocks
      BY DEF TypeInv, TypeOK
    <3>2. result \in Buffer
      BY <3>1, DefaultTypes, AddResultRanges
    <3>3. result.success = NoResult.success \cup {}
      BY DEF AddResult
    <3>4. row \in ImportState /\ row # NoRow
      BY <1>2 DEF ReimportSchedule, TypeInv, TypeOK, RowKnown
    <3> QED
      BY <3>2, <3>3, <3>4, DefaultTypes
  <2>2. row' = MergeImportState(result, row)
    BY <1>2 DEF ReimportSchedule
  <2> HIDE DEF result
  <2>3. Imported(row') \subseteq stored
    BY <2>1, <2>2, MergeImported DEF ResultsStored
  <2> QED
    BY <1>2, <2>3 DEF ReimportSchedule, ResultsStored
<1>3. ASSUME NEW w \in Workers, Create(w)
      PROVE  ResultsStored'
  <2>1. CASE row = NoRow
    <3>1. Imported(row') = {}
      BY <1>3, <2>1, DefaultTypes DEF Create, Imported
    <3> QED
      BY <1>3, <3>1 DEF Create, ResultsStored
  <2>2. CASE row # NoRow
    <3>1. row \in ImportState
      BY <2>2 DEF TypeInv, TypeOK
    <3>2. Imported(row') = Imported(row)
      BY <1>3, <2>2, <3>1 DEF Create, Imported, ImportState
    <3> QED
      BY <1>3, <2>2, <3>2 DEF Create, ResultsStored
  <2> QED
    BY <2>1, <2>2
<1>4. ASSUME NEW w \in Workers, NEW first \in Blocks, NEW failed, NEW told,
             QueryWith(w, first, failed, told)
      PROVE  ResultsStored'
  <2> DEFINE query == todo[w] \cap (first .. first + MaxBlocksPerQuery - 1)
             success == query \ failed
  <2>1. success \in SUBSET Blocks /\ Settled(success)
    BY DEF RangesSettled, Settled, TypeInv, TypeOK
  <2>2. PICK known \in rpcHead .. head :
          stored' = stored \cup {b \in success : b <= known}
    BY <1>4 DEF QueryWith
  <2>3. stored' = stored \cup success
    BY <2>1, <2>2, SettledIsKnown
  <2>4. row' = row /\ buffer' = [buffer EXCEPT ![w] =
                                 AddResult(buffer[w], success, told, latest[w])]
    BY <1>4 DEF QueryWith
  <2>5. AddResult(buffer[w], success, told, latest[w]).success
          = buffer[w].success \cup success
    BY DEF AddResult
  <2> HIDE DEF success
  <2>6. \A v \in Workers : buffer'[v].success \subseteq buffer[v].success \cup success
    BY <2>4, <2>5 DEF TypeInv, TypeOK
  <2> QED
    BY <2>3, <2>4, <2>6 DEF ResultsStored
<1>5. ASSUME NEW w \in Workers, Record(w)
      PROVE  ResultsStored'
  <2>1. row' # NoRow => Imported(row') \subseteq stored
    <3>1. CASE row = NoRow
      BY <1>5, <3>1 DEF Record
    <3>2. CASE row # NoRow
      <4>1. row \in ImportState /\ buffer[w] \in Buffer
        BY <3>2 DEF TypeInv, TypeOK
      <4>2. row' = MergeImportState(buffer[w], row)
        BY <1>5, <3>2 DEF Record
      <4> QED
        BY <3>2, <4>1, <4>2, MergeImported DEF ResultsStored
    <3> QED
      BY <3>1, <3>2
  <2> QED
    BY <1>5, <2>1, DefaultTypes DEF Record, ResultsStored, TypeInv, TypeOK
<1>6. ASSUME NEW w \in Workers,
             \/ Start(w) \/ EndRun(w) \/ CreationInfoMissing(w)
             \/ RecordFails(w) \/ Stop(w)
             \/ \E l \in 0 .. head : PlanWith(w, l)
      PROVE  ResultsStored'
  BY <1>6, DefaultTypes
  DEF Start, EndRun, CreationInfoMissing, RecordFails, Stop, PlanWith,
      ResultsStored, TypeInv, TypeOK
<1>7. ASSUME NEW w \in Workers, Plan(w) \/ PlanFromOldBlock(w)
      PROVE  \E l \in 0 .. head : PlanWith(w, l)
  BY <1>7 DEF Plan, PlanFromOldBlock, TypeInv, TypeOK
<1>8. ASSUME NEW w \in Workers, Query(w) \/ QueryFails(w)
      PROVE  \E first \in Blocks : \E failed, told : QueryWith(w, first, failed, told)
  BY <1>8 DEF Query, QueryFails, TypeInv, TypeOK
<1> QED
  BY <1>1, <1>2, <1>3, <1>4, <1>5, <1>6, <1>7, <1>8, NextCases
  DEF Work, Fault

(***************************************************************************)
(* Whatever the importers, the failures and the reimports do, a block the  *)
(* import state counts as imported has its events in the database, when no *)
(* RPC node is further behind the chain than waitForBlockPropagation and   *)
(* nobody asks to reimport blocks that are still propagating.              *)
(***************************************************************************)
THEOREM GapsAreRemembered ==
    ASSUME SettledReimports, MaxLag <= WaitForBlockPropagation
    PROVE  Spec => []NoSilentGap
<1> DEFINE Inv == TypeInv /\ RangesSettled /\ NodesLag /\ ResultsStored
<1>1. Init => Inv
  BY TypeInit, SettledInit, LagInit, StoredInit
<1>2. Inv /\ [Next]_vars => Inv'
  BY TypeNext, SettledNext, LagNext, StoredNext
<1>3. Inv => NoSilentGap
  BY DEF ResultsStored, NoSilentGap
<1> QED
  BY <1>1, <1>2, <1>3, PTL DEF Spec
=============================================================================
