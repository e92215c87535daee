---------------------- MODULE ImportStateUpdate_proofs ----------------------
(***************************************************************************)
(* Proofs about the import state transaction, for any number of writers,   *)
(* keys, blocks, attempts and timeouts.                                    *)
(***************************************************************************)
EXTENDS ImportStateUpdate, InductionLemmas, TLAPS

USE BlocksAssumption, WritersAssumption, KeysAssumption, BatchesAssumption,
    BoundsAssumption

-----------------------------------------------------------------------------
(* Lemmas about merging a buffer of results into a row. *)

(* updateImportState$ writes back a well-formed import state. *)
LEMMA MergeType ==
    ASSUME NEW s \in ImportState, NEW b \in Buffer
    PROVE  MergeImportState(b, s) \in ImportState
BY DEF MergeImportState, UpdateImportRanges, SuccessRanges, MaxOf, ImportState, Buffer

(* The fields of the merged row. *)
LEMMA MergeFields ==
    ASSUME NEW s \in ImportState, NEW b \in Buffer
    PROVE  /\ MergeImportState(b, s).covered = s.covered \cup b.success \cup b.error
           /\ MergeImportState(b, s).toRetry
                = (s.toRetry \ (b.success \ b.error)) \cup b.error
           /\ MergeImportState(b, s).latest = MaxOf(s.latest, b.latest)
BY DEF MergeImportState, UpdateImportRanges, SuccessRanges, ImportState, Buffer

(* A row without results is left as it is. *)
LEMMA MergeNothing ==
    ASSUME NEW s \in ImportState
    PROVE  MergeImportState(NoResult, s) = s
<1>1. NoResult \in Buffer
  BY DEF NoResult, Buffer
<1>2. MergeImportState(NoResult, s) \in ImportState
  BY <1>1, MergeType
<1>3. /\ MergeImportState(NoResult, s).covered = s.covered
      /\ MergeImportState(NoResult, s).toRetry = s.toRetry
      /\ MergeImportState(NoResult, s).latest = s.latest
  <2>1. NoResult.success = {} /\ NoResult.error = {} /\ NoResult.latest = 0
    BY DEF NoResult
  <2>2. /\ MergeImportState(NoResult, s).covered = s.covered \cup {} \cup {}
        /\ MergeImportState(NoResult, s).toRetry = (s.toRetry \ ({} \ {})) \cup {}
        /\ MergeImportState(NoResult, s).latest = MaxOf(s.latest, 0)
    BY ONLY <1>1, <2>1, MergeFields, s \in ImportState
  <2>3. s.latest \in Nat /\ MaxOf(s.latest, 0) = s.latest
    BY DEF MaxOf, ImportState
  <2> QED
    BY <2>2, <2>3
<1> QED
  BY <1>2, <1>3 DEF ImportState

(* What a row says: its retries are covered, the rest of it was imported. *)
Consistent(s, S) == s.toRetry \subseteq s.covered /\ Imported(s) \subseteq S

(* Merging results of blocks that were imported keeps a row consistent. *)
LEMMA MergeConsistent ==
    ASSUME NEW s \in ImportState, NEW b \in Buffer, NEW S,
           Consistent(s, S), SuccessRanges(b) \subseteq S
    PROVE  Consistent(MergeImportState(b, s), S)
BY MergeFields DEF Consistent, Imported, SuccessRanges, ImportState, Buffer

LEMMA DefaultConsistent ==
    ASSUME NEW S
    PROVE  /\ DefaultImportState(0) \in ImportState
           /\ Consistent(DefaultImportState(0), S)
BY DEF DefaultImportState, ImportState, Consistent, Imported

LEMMA NoBatchType == NoBatch \in [Keys -> Buffer] /\ NoSnap \in [Keys -> ImportState]
BY DefaultConsistent DEF NoBatch, NoSnap, NoResult, Buffer

-----------------------------------------------------------------------------
(* Type correctness: every variable keeps its type in every behaviour. *)

LEMMA EndTransactionType ==
    ASSUME TypeOK, NEW w \in Writers, EndTransaction(w)
    PROVE  /\ locked' \in [Keys -> Writers \cup {NoWriter}]
           /\ snap' \in [Writers -> [Keys -> ImportState]]
BY NoBatchType DEF TypeOK, EndTransaction

LEMMA EndBatchType ==
    ASSUME TypeOK, NEW w \in Writers, EndBatch(w)
    PROVE  /\ pc' \in [Writers -> Phase]
           /\ batch' \in [Writers -> [Keys -> Buffer]]
           /\ attempt' \in [Writers -> 0 .. MaxAttempts]
BY NoBatchType DEF TypeOK, EndBatch, Phase

LEMMA RetryType ==
    ASSUME TypeOK, NEW w \in Writers, RetryOrGiveUp(w)
    PROVE  /\ pc' \in [Writers -> Phase]
           /\ batch' \in [Writers -> [Keys -> Buffer]]
           /\ attempt' \in [Writers -> 0 .. MaxAttempts]
<1>1. CASE attempt[w] < MaxAttempts
  <2>1. /\ pc' = [pc EXCEPT ![w] = "connect"]
        /\ attempt' = [attempt EXCEPT ![w] = attempt[w] + 1]
        /\ batch' = batch
    BY <1>1 DEF RetryOrGiveUp
  <2>2. attempt[w] \in 0 .. MaxAttempts /\ MaxAttempts \in Nat
    BY DEF TypeOK
  <2>3. attempt[w] + 1 \in 0 .. MaxAttempts
    BY <1>1, <2>2
  <2> QED
    BY <2>1, <2>3 DEF TypeOK, Phase
<1>2. CASE ~(attempt[w] < MaxAttempts)
  BY <1>2, EndBatchType DEF RetryOrGiveUp
<1> QED
  BY <1>1, <1>2

LEMMA MergedType ==
    ASSUME TypeOK, NEW w \in Writers, NEW k \in Keys
    PROVE  Merged(w, k) \in ImportState
BY MergeType DEF TypeOK, Merged

LEMMA TypeInit == Init => TypeOK
BY DefaultConsistent, NoBatchType DEF Init, TypeOK, Phase

LEMMA TypeNext == TypeOK /\ [Next]_vars => TypeOK'
<1> SUFFICES ASSUME TypeOK, [Next]_vars
             PROVE  TypeOK'
  OBVIOUS
<1>1. ASSUME NEW w \in Writers, NEW b \in Batches, Flush(w, b)
      PROVE  TypeOK'
  <2>1. b \in [Keys -> Buffer]
    OBVIOUS
  <2>2. \A k \in Keys : SuccessRanges(b[k]) \subseteq Blocks
    BY <2>1 DEF SuccessRanges, Buffer
  <2> QED
    BY <1>1, <2>1, <2>2 DEF Flush, TypeOK, Phase
<1>2. ASSUME NEW w \in Writers, Connect(w)
      PROVE  TypeOK'
  BY <1>2 DEF Connect, TypeOK, Phase
<1>3. ASSUME NEW w \in Writers, NEW k \in Keys, LockRow(w, k)
      PROVE  TypeOK'
  BY <1>3 DEF LockRow, TypeOK
<1>4. ASSUME NEW w \in Writers, Update(w)
      PROVE  TypeOK'
  BY <1>4 DEF Update, TypeOK, Phase
<1>5. ASSUME NEW w \in Writers, Updated(w)
      PROVE  TypeOK'
  BY <1>5 DEF Updated, TypeOK, Phase
<1>6. ASSUME NEW w \in Writers, Commit(w)
      PROVE  TypeOK'
  <2>1. row' \in [Keys -> ImportState]
    BY <1>6, MergedType DEF Commit, TypeOK
  <2> QED
    BY <1>6, <2>1, EndTransactionType, EndBatchType DEF Commit, TypeOK
<1>7. ASSUME NEW w \in Writers, RollbackExpired(w)
      PROVE  TypeOK'
  <2>1. PICK k \in KeysOf(w) :
          late' = late \cup {[writer |-> w, key |-> k, data |-> Merged(w, k)]}
    BY <1>7 DEF RollbackExpired
  <2>2. k \in Keys /\ Merged(w, k) \in ImportState
    BY MergedType DEF KeysOf
  <2>3. late' \subseteq LateUpdate
    BY <2>1, <2>2 DEF TypeOK, LateUpdate
  <2> QED
    BY <1>7, <2>3, EndTransactionType, RetryType DEF RollbackExpired, TypeOK
<1>8. ASSUME NEW w \in Writers, ConnectTimeout(w)
      PROVE  TypeOK'
  BY <1>8, RetryType DEF ConnectTimeout, TimerFires, TypeOK
<1>9. ASSUME NEW w \in Writers, UpdateTimeout(w)
      PROVE  TypeOK'
  BY <1>9, RetryType, EndTransactionType DEF UpdateTimeout, TimerFires, TypeOK
<1>10. ASSUME NEW w \in Writers, SelectTimeout(w)
       PROVE  TypeOK'
  BY <1>10 DEF SelectTimeout, TimerFires, TypeOK, Phase
<1>11. ASSUME NEW w \in Writers, Crash(w)
       PROVE  TypeOK'
  BY <1>11, EndTransactionType, EndBatchType DEF Crash, TypeOK
<1>12. ASSUME NEW u \in late, ApplyLate(u)
       PROVE  TypeOK'
  BY <1>12 DEF ApplyLate, TypeOK, LateUpdate
<1>13. ASSUME NEW u \in late, LoseLate(u)
       PROVE  TypeOK'
  BY <1>13 DEF LoseLate, TypeOK
<1>14. CASE UNCHANGED vars
  BY <1>14 DEF vars, TypeOK
<1> QED
  BY <1>1, <1>2, <1>3, <1>4, <1>5, <1>6, <1>7, <1>8, <1>9, <1>10, <1>11, <1>12,
     <1>13, <1>14 DEF Next, Step, Fault

(***************************************************************************)
(* Every variable of the update transaction keeps its type.                *)
(***************************************************************************)
THEOREM TypeCorrect == Spec => []TypeOK
<1>1. Init => TypeOK
  BY TypeInit
<1>2. TypeOK /\ [Next]_vars => TypeOK'
  BY TypeNext
<1> QED
  BY <1>1, <1>2, PTL DEF Spec

-----------------------------------------------------------------------------
(***************************************************************************)
(* What is not a row yet but may become one: the reads of the open         *)
(* transactions and the late UPDATEs are as consistent as the rows, and    *)
(* the batches only claim blocks that were imported.                       *)
(***************************************************************************)
SourcesConsistent ==
    /\ \A k \in Keys : Consistent(row[k], succeeded[k])
    /\ \A w \in Writers, k \in Keys : Consistent(snap[w][k], succeeded[k])
    /\ \A u \in late : Consistent(u.data, succeeded[u.key])
    /\ \A w \in Writers, k \in Keys :
         SuccessRanges(batch[w][k]) \subseteq succeeded[k]

ConsistencyInv == TypeOK /\ SourcesConsistent

LEMMA MergedConsistent ==
    ASSUME ConsistencyInv, NEW w \in Writers, NEW k \in Keys
    PROVE  Consistent(Merged(w, k), succeeded[k])
<1>1. batch[w][k] \in Buffer /\ snap[w][k] \in ImportState
  BY DEF ConsistencyInv, TypeOK
<1>2. /\ Consistent(snap[w][k], succeeded[k])
      /\ SuccessRanges(batch[w][k]) \subseteq succeeded[k]
  BY DEF ConsistencyInv, SourcesConsistent
<1> QED
  BY <1>1, <1>2, MergeConsistent DEF Merged

LEMMA EndTransactionConsistent ==
    ASSUME ConsistencyInv, NEW v \in Writers, EndTransaction(v)
    PROVE  \A w \in Writers, k \in Keys : Consistent(snap'[w][k], succeeded[k])
BY DefaultConsistent DEF ConsistencyInv, SourcesConsistent, TypeOK, EndTransaction, NoSnap

LEMMA EndBatchConsistent ==
    ASSUME ConsistencyInv, NEW v \in Writers, EndBatch(v)
    PROVE  \A w \in Writers, k \in Keys :
             SuccessRanges(batch'[w][k]) \subseteq succeeded[k]
<1>1. SuccessRanges(NoResult) = {}
  BY DEF SuccessRanges, NoResult
<1> QED
  BY <1>1 DEF ConsistencyInv, SourcesConsistent, TypeOK, EndBatch, NoBatch

LEMMA RetryConsistent ==
    ASSUME ConsistencyInv, NEW v \in Writers, RetryOrGiveUp(v)
    PROVE  \A w \in Writers, k \in Keys :
             SuccessRanges(batch'[w][k]) \subseteq succeeded[k]
<1>1. CASE attempt[v] < MaxAttempts
  BY <1>1 DEF RetryOrGiveUp, ConsistencyInv, SourcesConsistent
<1>2. CASE ~(attempt[v] < MaxAttempts)
  BY <1>2, EndBatchConsistent DEF RetryOrGiveUp
<1> QED
  BY <1>1, <1>2

LEMMA ConsistencyInit == Init => ConsistencyInv
<1> SUFFICES ASSUME Init
             PROVE  SourcesConsistent
  BY TypeInit DEF ConsistencyInv
<1>1. SuccessRanges(NoResult) = {}
  BY DEF SuccessRanges, NoResult
<1> QED
  BY <1>1, DefaultConsistent DEF Init, SourcesConsistent, NoBatch, NoSnap

LEMMA ConsistencyNext == ConsistencyInv /\ [Next]_vars => ConsistencyInv'
<1> SUFFICES ASSUME ConsistencyInv, [Next]_vars
             PROVE  SourcesConsistent'
  BY TypeNext DEF ConsistencyInv
<1> USE DEF SourcesConsistent
<1>1. ASSUME NEW v \in Writers, NEW b \in Batches, Flush(v, b)
      PROVE  SourcesConsistent'
  <2>1. \A k \in Keys : succeeded[k] \subseteq succeeded'[k]
    BY <1>1 DEF Flush
  <2>2. \A k \in Keys : SuccessRanges(b[k]) \subseteq succeeded'[k]
    BY <1>1 DEF Flush
  <2>3. /\ \A k \in Keys : Consistent(row'[k], succeeded'[k])
        /\ \A w \in Writers, k \in Keys : Consistent(snap'[w][k], succeeded'[k])
    BY <1>1, <2>1 DEF Flush, ConsistencyInv, Consistent
  <2>4. \A u \in late' : Consistent(u.data, succeeded'[u.key])
    BY <1>1, <2>1 DEF Flush, ConsistencyInv, Consistent, TypeOK, LateUpdate
  <2>5. \A w \in Writers, k \in Keys :
          SuccessRanges(batch'[w][k]) \subseteq succeeded'[k]
    BY <1>1, <2>1, <2>2 DEF Flush, ConsistencyInv, TypeOK
  <2> QED
    BY <2>3, <2>4, <2>5
<1>2. ASSUME NEW v \in Writers, Connect(v)
      PROVE  SourcesConsistent'
  BY <1>2 DEF Connect, ConsistencyInv
<1>3. ASSUME NEW v \in Writers, NEW j \in Keys, LockRow(v, j)
      PROVE  SourcesConsistent'
  BY <1>3 DEF LockRow, ConsistencyInv, TypeOK
<1>4. ASSUME NEW v \in Writers, Update(v)
      PROVE  SourcesConsistent'
  BY <1>4 DEF Update, ConsistencyInv
<1>5. ASSUME NEW v \in Writers, Updated(v)
      PROVE  SourcesConsistent'
  BY <1>5 DEF Updated, ConsistencyInv
<1>6. ASSUME NEW v \in Writers, Commit(v)
      PROVE  SourcesConsistent'
  <2>1. \A k \in Keys : Consistent(row'[k], succeeded[k])
    BY <1>6, MergedConsistent DEF Commit, ConsistencyInv
  <2> QED
    BY <1>6, <2>1, EndTransactionConsistent, EndBatchConsistent
    DEF Commit, ConsistencyInv
<1>7. ASSUME NEW v \in Writers, RollbackExpired(v)
      PROVE  SourcesConsistent'
  <2>1. PICK j \in KeysOf(v) :
          late' = late \cup {[writer |-> v, key |-> j, data |-> Merged(v, j)]}
    BY <1>7 DEF RollbackExpired
  <2>2. Consistent(Merged(v, j), succeeded[j])
    BY MergedConsistent DEF KeysOf
  <2>3. \A u \in late' : Consistent(u.data, succeeded[u.key])
    BY <2>1, <2>2 DEF ConsistencyInv
  <2> QED
    BY <1>7, <2>3, EndTransactionConsistent, RetryConsistent
    DEF RollbackExpired, ConsistencyInv
<1>8. ASSUME NEW v \in Writers, ConnectTimeout(v)
      PROVE  SourcesConsistent'
  BY <1>8, RetryConsistent DEF ConnectTimeout, ConsistencyInv
<1>9. ASSUME NEW v \in Writers, UpdateTimeout(v)
      PROVE  SourcesConsistent'
  BY <1>9, RetryConsistent, EndTransactionConsistent DEF UpdateTimeout, ConsistencyInv
<1>10. ASSUME NEW v \in Writers, SelectTimeout(v)
       PROVE  SourcesConsistent'
  BY <1>10 DEF SelectTimeout, ConsistencyInv
<1>11. ASSUME NEW v \in Writers, Crash(v)
       PROVE  SourcesConsistent'
  BY <1>11, EndBatchConsistent, EndTransactionConsistent DEF Crash, ConsistencyInv
<1>12. ASSUME NEW u \in late, ApplyLate(u)
       PROVE  SourcesConsistent'
  BY <1>12 DEF ApplyLate, ConsistencyInv, TypeOK
<1>13. ASSUME NEW u \in late, LoseLate(u)
       PROVE  SourcesConsistent'
  BY <1>13 DEF LoseLate, ConsistencyInv
<1>14. CASE UNCHANGED vars
  BY <1>14 DEF vars, ConsistencyInv
<1> QED
  BY <1>1, <1>2, <1>3, <1>4, <1>5, <1>6, <1>7, <1>8, <1>9, <1>10, <1>11, <1>12,
     <1>13, <1>14 DEF Next, Step, Fault

(***************************************************************************)
(* Whatever expires, is retried, crashes or writes late, a row only says   *)
(* of a block that it is imported when an importer imported it, and only   *)
(* retries what it covers: no block is skipped for ever by mistake.        *)
(***************************************************************************)
THEOREM RowsStayConsistent == Spec => []RowConsistent
<1>1. Init => ConsistencyInv
  BY ConsistencyInit
<1>2. ConsistencyInv /\ [Next]_vars => ConsistencyInv'
  BY ConsistencyNext
<1>3. ConsistencyInv => RowConsistent
  BY DEF ConsistencyInv, SourcesConsistent, Consistent, RowConsistent
<1> QED
  BY <1>1, <1>2, <1>3, PTL DEF Spec

-----------------------------------------------------------------------------
(***************************************************************************)
(* What the row locks are for: while a transaction holds the lock of a row *)
(* the row is the one it read, and it holds every lock it needs before it  *)
(* writes.                                                                 *)
(***************************************************************************)
LocksProtect ==
    /\ \A w \in Writers, k \in Keys : locked[k] = w => snap[w][k] = row[k]
    /\ \A w \in Writers : pc[w] \in {"update", "commit"} => HasAllRows(w)

LockInv == TypeOK /\ LocksProtect

(* Releasing the locks of a writer leaves those of the others as they were. *)
LEMMA EndTransactionProtects ==
    ASSUME LockInv, NEW v \in Writers, EndTransaction(v)
    PROVE  \A w \in Writers, k \in Keys :
             locked'[k] = w => w # v /\ locked[k] = w /\ snap'[w][k] = snap[w][k]
BY DEF LockInv, TypeOK, EndTransaction

(* A writer between two batches or two attempts is not about to write. *)
LEMMA EndBatchProtects ==
    ASSUME LockInv, NEW v \in Writers, EndBatch(v) \/ RetryOrGiveUp(v)
    PROVE  /\ \A w \in Writers \ {v} : pc'[w] = pc[w] /\ batch'[w] = batch[w]
           /\ pc'[v] \in {"idle", "connect"}
<1>1. CASE EndBatch(v)
  BY <1>1 DEF EndBatch, LockInv, TypeOK
<1>2. CASE RetryOrGiveUp(v) /\ attempt[v] < MaxAttempts
  BY <1>2 DEF RetryOrGiveUp, LockInv, TypeOK
<1>3. CASE RetryOrGiveUp(v) /\ ~(attempt[v] < MaxAttempts)
  BY <1>3, <1>1 DEF RetryOrGiveUp, EndBatch, LockInv, TypeOK
<1> QED
  BY <1>1, <1>2, <1>3

(* The end of an attempt that wrote nothing, whatever ended it. *)
LEMMA AbortProtects ==
    ASSUME LockInv, NEW v \in Writers, EndTransaction(v),
           EndBatch(v) \/ RetryOrGiveUp(v), UNCHANGED row
    PROVE  LocksProtect'
<1>1. \A w \in Writers, k \in Keys : locked'[k] = w => snap'[w][k] = row'[k]
  BY EndTransactionProtects DEF LockInv, LocksProtect
<1>2. ASSUME NEW w \in Writers, pc'[w] \in {"update", "commit"}
      PROVE  HasAllRows(w)'
  <2>1. w # v /\ pc'[w] = pc[w] /\ batch'[w] = batch[w]
    BY <1>2, EndBatchProtects
  <2>2. HasAllRows(w)
    BY <1>2, <2>1 DEF LockInv, LocksProtect
  <2>3. \A k \in Keys : locked[k] = w => locked'[k] = w
    BY <2>1 DEF EndTransaction, LockInv, TypeOK
  <2> QED
    BY <2>1, <2>2, <2>3 DEF HasAllRows, KeysOf, LockedBy
<1> QED
  BY <1>1, <1>2 DEF LocksProtect

LEMMA LockInit == Init => LockInv
<1> SUFFICES ASSUME Init
             PROVE  LocksProtect
  BY TypeInit DEF LockInv
<1> QED
  BY DEF Init, LocksProtect

LEMMA LockNext == LockInv /\ [Next]_vars => LockInv'
<1> SUFFICES ASSUME LockInv, [Next]_vars
             PROVE  LocksProtect'
  BY TypeNext DEF LockInv
<1>1. ASSUME NEW v \in Writers, NEW b \in Batches, Flush(v, b)
      PROVE  LocksProtect'
  BY <1>1 DEF Flush, LockInv, LocksProtect, TypeOK, HasAllRows, KeysOf, LockedBy
<1>2. ASSUME NEW v \in Writers, Connect(v)
      PROVE  LocksProtect'
  BY <1>2 DEF Connect, LockInv, LocksProtect, TypeOK, HasAllRows, KeysOf, LockedBy
<1>3. ASSUME NEW v \in Writers, NEW j \in Keys, LockRow(v, j)
      PROVE  LocksProtect'
  BY <1>3 DEF LockRow, LockInv, LocksProtect, TypeOK, HasAllRows, KeysOf, LockedBy
<1>4. ASSUME NEW v \in Writers, Update(v)
      PROVE  LocksProtect'
  BY <1>4 DEF Update, LockInv, LocksProtect, TypeOK, HasAllRows, KeysOf, LockedBy
<1>5. ASSUME NEW v \in Writers, Updated(v)
      PROVE  LocksProtect'
  BY <1>5 DEF Updated, LockInv, LocksProtect, TypeOK, HasAllRows, KeysOf, LockedBy
<1>6. ASSUME NEW v \in Writers, Commit(v)
      PROVE  LocksProtect'
  <2>1. HasAllRows(v)
    BY <1>6 DEF Commit, LockInv, LocksProtect
  <2>2. ASSUME NEW w \in Writers, NEW k \in Keys, locked'[k] = w
        PROVE  snap'[w][k] = row'[k]
    <3>1. w # v /\ locked[k] = w /\ snap'[w][k] = snap[w][k]
      BY <1>6, <2>2, EndTransactionProtects DEF Commit
    <3>2. k \notin KeysOf(v)
      BY <2>1, <3>1 DEF HasAllRows, LockedBy
    <3> QED
      BY <1>6, <3>1, <3>2 DEF Commit, LockInv, LocksProtect
  <2>3. ASSUME NEW w \in Writers, pc'[w] \in {"update", "commit"}
        PROVE  HasAllRows(w)'
    <3>1. w # v /\ pc'[w] = pc[w] /\ batch'[w] = batch[w]
      BY <1>6, <2>3, EndBatchProtects DEF Commit
    <3>2. HasAllRows(w)
      BY <2>3, <3>1 DEF LockInv, LocksProtect
    <3>3. \A k \in Keys : locked[k] = w => locked'[k] = w
      BY <1>6, <3>1 DEF Commit, EndTransaction, LockInv, TypeOK
    <3> QED
      BY <3>1, <3>2, <3>3 DEF HasAllRows, KeysOf, LockedBy
  <2> QED
    BY <2>2, <2>3 DEF LocksProtect
<1>7. ASSUME NEW v \in Writers, RollbackExpired(v)
      PROVE  LocksProtect'
  BY <1>7, AbortProtects DEF RollbackExpired
<1>8. ASSUME NEW v \in Writers, ConnectTimeout(v)
      PROVE  LocksProtect'
  <2>1. /\ \A w \in Writers \ {v} : pc'[w] = pc[w] /\ batch'[w] = batch[w]
        /\ pc'[v] \in {"idle", "connect"}
        /\ UNCHANGED <<row, locked, snap>>
    BY <1>8, EndBatchProtects DEF ConnectTimeout
  <2> QED
    BY <2>1 DEF LockInv, LocksProtect, HasAllRows, KeysOf, LockedBy
<1>9. ASSUME NEW v \in Writers, UpdateTimeout(v)
      PROVE  LocksProtect'
  BY <1>9, AbortProtects DEF UpdateTimeout
<1>10. ASSUME NEW v \in Writers, SelectTimeout(v)
       PROVE  LocksProtect'
  BY <1>10 DEF SelectTimeout, LockInv, LocksProtect, TypeOK, HasAllRows, KeysOf, LockedBy
<1>11. ASSUME NEW v \in Writers, Crash(v)
       PROVE  LocksProtect'
  BY <1>11, AbortProtects DEF Crash
<1>12. ASSUME NEW u \in late, ApplyLate(u)
       PROVE  LocksProtect'
  <2>1. \A k \in Keys : locked[k] \in Writers => row'[k] = row[k]
    BY <1>12 DEF ApplyLate, LockInv, TypeOK, LateUpdate
  <2> QED
    BY <1>12, <2>1
    DEF ApplyLate, LockInv, LocksProtect, TypeOK, HasAllRows, KeysOf, LockedBy
<1>13. ASSUME NEW u \in late, LoseLate(u)
       PROVE  LocksProtect'
  BY <1>13 DEF LoseLate, LockInv, LocksProtect, HasAllRows, KeysOf, LockedBy
<1>14. CASE UNCHANGED vars
  BY <1>14 DEF vars, LockInv, LocksProtect, HasAllRows, KeysOf, LockedBy
<1> QED
  BY <1>1, <1>2, <1>3, <1>4, <1>5, <1>6, <1>7, <1>8, <1>9, <1>10, <1>11, <1>12,
     <1>13, <1>14 DEF Next, Step, Fault

(***************************************************************************)
(* The rows a transaction is about to write back were merged from the rows *)
(* as they still are: SELECT ... FOR UPDATE keeps every other transaction, *)
(* and every late UPDATE, away from them until it ends.                    *)
(***************************************************************************)
THEOREM MergesCurrentRow == Spec => []MergedFromCurrentRow
<1>1. Init => LockInv
  BY LockInit
<1>2. LockInv /\ [Next]_vars => LockInv'
  BY LockNext
<1>3. ASSUME LockInv, NEW w \in Writers, pc[w] \in {"update", "commit"}, NEW k \in KeysOf(w)
      PROVE  locked[k] = w /\ snap[w][k] = row[k]
  <2>1. HasAllRows(w)
    BY <1>3 DEF LockInv, LocksProtect
  <2>2. k \in Keys /\ locked[k] = w
    BY <1>3, <2>1 DEF HasAllRows, LockedBy
  <2> QED
    BY <1>3, <2>2 DEF LockInv, LocksProtect
<1>4. LockInv => MergedFromCurrentRow
  BY <1>3 DEF MergedFromCurrentRow
<1> QED
  BY <1>1, <1>2, <1>4, PTL DEF Spec

-----------------------------------------------------------------------------
(***************************************************************************)
(* The refinement, whatever times out: a writer between two batches has    *)
(* handed over none, so that the next one it flushes is a new one.         *)
(***************************************************************************)
IdleHasNoBatch == \A w \in Writers : pc[w] = "idle" => batch[w] = NoBatch

LedgerInv == LockInv /\ IdleHasNoBatch

LEMMA LedgerInvInit == Init => LedgerInv
BY LockInit DEF Init, LedgerInv, IdleHasNoBatch

(* The end of a batch or of an attempt: dropped, or kept for the next one. *)
LEMMA RetryKeepsOrDrops ==
    ASSUME TypeOK, NEW v \in Writers, RetryOrGiveUp(v)
    PROVE  \/ UNCHANGED batch /\ pc' = [pc EXCEPT ![v] = "connect"]
           \/ EndBatch(v)
<1>1. CASE attempt[v] < MaxAttempts
  BY <1>1 DEF RetryOrGiveUp
<1>2. CASE ~(attempt[v] < MaxAttempts)
  BY <1>2 DEF RetryOrGiveUp
<1> QED
  BY <1>1, <1>2

LEMMA LedgerInvNext == LedgerInv /\ [Next]_vars => LedgerInv'
<1> SUFFICES ASSUME LedgerInv, [Next]_vars
             PROVE  IdleHasNoBatch'
  BY LockNext DEF LedgerInv
<1> USE DEF LedgerInv, LockInv, IdleHasNoBatch
<1>1. ASSUME NEW v \in Writers, NEW b \in Batches, Flush(v, b)
      PROVE  IdleHasNoBatch'
  BY <1>1 DEF Flush, TypeOK
<1>2. ASSUME NEW v \in Writers, Connect(v)
      PROVE  IdleHasNoBatch'
  BY <1>2 DEF Connect, TypeOK
<1>3. ASSUME NEW v \in Writers, NEW j \in Keys, LockRow(v, j)
      PROVE  IdleHasNoBatch'
  BY <1>3 DEF LockRow
<1>4. ASSUME NEW v \in Writers, Update(v)
      PROVE  IdleHasNoBatch'
  BY <1>4 DEF Update, TypeOK
<1>5. ASSUME NEW v \in Writers, Updated(v)
      PROVE  IdleHasNoBatch'
  BY <1>5 DEF Updated, TypeOK
<1>6. ASSUME NEW v \in Writers, EndBatch(v)
      PROVE  IdleHasNoBatch'
  BY <1>6 DEF EndBatch, TypeOK
<1>7. ASSUME NEW v \in Writers, Commit(v) \/ Crash(v)
      PROVE  IdleHasNoBatch'
  BY <1>7, <1>6 DEF Commit, Crash
<1>8. ASSUME NEW v \in Writers, RetryOrGiveUp(v)
      PROVE  IdleHasNoBatch'
  BY <1>8, <1>6, RetryKeepsOrDrops DEF TypeOK
<1>9. ASSUME NEW v \in Writers,
             ConnectTimeout(v) \/ UpdateTimeout(v) \/ RollbackExpired(v)
      PROVE  IdleHasNoBatch'
  BY <1>9, <1>8 DEF ConnectTimeout, UpdateTimeout, RollbackExpired
<1>10. ASSUME NEW v \in Writers, SelectTimeout(v)
       PROVE  IdleHasNoBatch'
  BY <1>10 DEF SelectTimeout, TypeOK
<1>11. ASSUME NEW u \in late, ApplyLate(u) \/ LoseLate(u)
       PROVE  IdleHasNoBatch'
  BY <1>11 DEF ApplyLate, LoseLate
<1>12. CASE UNCHANGED vars
  BY <1>12 DEF vars
<1> QED
  BY <1>1, <1>2, <1>3, <1>4, <1>5, <1>7, <1>9, <1>10, <1>11, <1>12
  DEF Next, Step, Fault

(* The ledger merges a batch into a row like updateImportState$ does. *)
LEMMA LedgerMerge ==
    \A b, s : Ledger!MergeImportState(b, s) = MergeImportState(b, s)
BY DEF Ledger!MergeImportState, MergeImportState,
       Ledger!UpdateImportRanges, UpdateImportRanges,
       Ledger!SuccessRanges, SuccessRanges, Ledger!MaxOf, MaxOf

LEMMA LedgerInit == Init => Ledger!Init
BY DEF Init, Ledger!Init, Ledger!DefaultImportState, DefaultImportState,
       Ledger!NoBatch, NoBatch, Ledger!NoResult, NoResult

(* COMMIT merges the whole batch into the current rows. *)
LEMMA CommitRecords ==
    ASSUME LedgerInv, NEW v \in Writers, Commit(v)
    PROVE  Ledger!Record(v)
<1>1. HasAllRows(v)
  BY DEF Commit, LedgerInv, LockInv, LocksProtect
<1>2. ASSUME NEW k \in Keys
      PROVE  row'[k] = MergeImportState(batch[v][k], row[k])
  <2>1. CASE k \in KeysOf(v)
    <3>1. snap[v][k] = row[k]
      BY <1>1, <2>1 DEF HasAllRows, LockedBy, LedgerInv, LockInv, LocksProtect
    <3> QED
      BY <2>1, <3>1 DEF Commit, Merged
  <2>2. CASE k \notin KeysOf(v)
    <3>1. batch[v][k] = NoResult /\ row'[k] = row[k]
      BY <2>2 DEF Commit, KeysOf
    <3>2. row[k] \in ImportState
      BY DEF LedgerInv, LockInv, TypeOK
    <3> QED
      BY <3>1, <3>2, MergeNothing
  <2> QED
    BY <2>1, <2>2
<1>3. row' = [k \in Keys |-> MergeImportState(batch[v][k], row[k])]
  BY <1>2 DEF Commit
<1>4. row' = [k \in Keys |-> Ledger!MergeImportState(batch[v][k], row[k])]
  BY <1>3, LedgerMerge
<1> QED
  BY <1>4 DEF Commit, EndBatch, Ledger!Record, Ledger!NoBatch, NoBatch,
              Ledger!NoResult, NoResult

LEMMA LedgerNext ==
    ASSUME LedgerInv, [Next]_vars
    PROVE  [Ledger!Next \/ WrittenLate]_<<row, batch>>
<1>1. ASSUME NEW v \in Writers, NEW b \in Batches, Flush(v, b)
      PROVE  Ledger!HandOver(v, b)
  BY <1>1 DEF Flush, LedgerInv, IdleHasNoBatch, Ledger!HandOver, Ledger!NoBatch,
              NoBatch, Ledger!NoResult, NoResult
<1>2. ASSUME NEW v \in Writers, EndBatch(v), UNCHANGED row
      PROVE  Ledger!Drop(v)
  BY <1>2 DEF EndBatch, Ledger!Drop, Ledger!NoBatch, NoBatch,
              Ledger!NoResult, NoResult
<1>3. ASSUME NEW v \in Writers, Crash(v)
      PROVE  Ledger!Drop(v)
  BY <1>3, <1>2 DEF Crash
<1>4. ASSUME NEW v \in Writers, Commit(v)
      PROVE  Ledger!Record(v)
  BY <1>4, CommitRecords
<1>5. ASSUME NEW v \in Writers,
             \/ Connect(v) \/ Update(v) \/ Updated(v) \/ SelectTimeout(v)
             \/ \E k \in Keys : LockRow(v, k)
      PROVE  UNCHANGED <<row, batch>>
  BY <1>5 DEF Connect, Update, Updated, SelectTimeout, LockRow
<1>6. ASSUME NEW v \in Writers,
             ConnectTimeout(v) \/ UpdateTimeout(v) \/ RollbackExpired(v)
      PROVE  Ledger!Drop(v) \/ UNCHANGED <<row, batch>>
  <2>1. RetryOrGiveUp(v) /\ UNCHANGED row
    BY <1>6 DEF ConnectTimeout, UpdateTimeout, RollbackExpired
  <2> QED
    BY <2>1, <1>2, RetryKeepsOrDrops DEF LedgerInv, LockInv
<1>7. ASSUME NEW u \in late, ApplyLate(u)
      PROVE  WrittenLate
  BY <1>7 DEF ApplyLate, WrittenLate
<1>8. ASSUME NEW u \in late, LoseLate(u)
      PROVE  UNCHANGED <<row, batch>>
  BY <1>8 DEF LoseLate
<1>9. CASE UNCHANGED vars
  BY <1>9 DEF vars
<1> QED
  BY <1>1, <1>3, <1>4, <1>5, <1>6, <1>7, <1>8, <1>9 DEF Next, Step, Fault, Ledger!Next

(***************************************************************************)
(* The locking protocol of updateImportState$, with its timers, retries    *)
(* and crashes, implements the ledger: results are merged all at once into *)
(* the current rows or dropped as a whole, except by the queued UPDATE of  *)
(* an expired transaction that the server runs after its ROLLBACK.         *)
(***************************************************************************)
THEOREM ImplementsLedger == Spec => LedgerExceptLate
<1>1. Init => LedgerInv /\ Ledger!Init
  BY LedgerInvInit, LedgerInit
<1>2. LedgerInv /\ [Next]_vars => LedgerInv'
  BY LedgerInvNext
<1>3. LedgerInv /\ [Next]_vars => [Ledger!Next \/ WrittenLate]_<<row, batch>>
  BY LedgerNext
<1> QED
  BY <1>1, <1>2, <1>3, PTL DEF Spec, LedgerExceptLate

-----------------------------------------------------------------------------
(* Without timers nothing is written late. *)

NothingLate ==
    /\ timeouts = 0
    /\ late = {}
    /\ \A w \in Writers : pc[w] # "expired"

LEMMA NothingLateNext ==
    ASSUME MaxTimeouts = 0, TypeOK, NothingLate, [Next]_vars
    PROVE  NothingLate'
<1> USE DEF NothingLate
<1>1. ASSUME NEW v \in Writers,
             \/ \E b \in Batches : Flush(v, b)
             \/ Connect(v) \/ Update(v) \/ Updated(v)
             \/ \E k \in Keys : LockRow(v, k)
      PROVE  NothingLate'
  BY <1>1 DEF Flush, Connect, Update, Updated, LockRow, TypeOK
<1>2. ASSUME NEW v \in Writers, Commit(v) \/ Crash(v)
      PROVE  NothingLate'
  BY <1>2 DEF Commit, Crash, EndBatch, TypeOK
<1>3. ASSUME NEW v \in Writers,
             \/ ConnectTimeout(v) \/ UpdateTimeout(v) \/ SelectTimeout(v)
             \/ RollbackExpired(v)
      PROVE  FALSE
  BY <1>3 DEF ConnectTimeout, UpdateTimeout, SelectTimeout, RollbackExpired, TimerFires
<1>4. ASSUME NEW u \in late
      PROVE  FALSE
  BY <1>4
<1>5. CASE UNCHANGED vars
  BY <1>5 DEF vars
<1> QED
  BY <1>1, <1>2, <1>3, <1>4, <1>5 DEF Next, Step, Fault

(***************************************************************************)
(* As long as no timer fires, the locking protocol of updateImportState$   *)
(* is the ledger, without exception.                                       *)
(***************************************************************************)
THEOREM ExactWithoutTimers ==
    ASSUME MaxTimeouts = 0
    PROVE  Spec => Ledger!Spec
<1>1. Init => LedgerInv /\ NothingLate /\ Ledger!Init
  BY LedgerInvInit, LedgerInit DEF Init, NothingLate
<1>2. LedgerInv /\ [Next]_vars => LedgerInv'
  BY LedgerInvNext
<1>3. LedgerInv /\ NothingLate /\ [Next]_vars => NothingLate'
  BY NothingLateNext DEF LedgerInv, LockInv
<1>4. LedgerInv /\ NothingLate /\ [Next]_vars => [Ledger!Next]_<<row, batch>>
  BY LedgerNext DEF NothingLate, WrittenLate
<1> QED
  BY <1>1, <1>2, <1>3, <1>4, PTL DEF Spec, Ledger!Spec

-----------------------------------------------------------------------------
(***************************************************************************)
(* What the ORDER BY of the SELECT ... FOR UPDATE is for: a transaction    *)
(* that waits for a row only holds rows that come before it.               *)
(***************************************************************************)
LocksInOrder ==
    /\ \A w \in Writers, k \in Keys :
         locked[k] = w => pc[w] \in {"select", "update", "commit", "expired"}
    /\ \A w \in Writers : \A j, k \in Keys :
         (/\ pc[w] \in {"select", "expired"}
          /\ locked[j] = w
          /\ k \in KeysOf(w) \ LockedBy(w)) => j < k

OrderInv == TypeOK /\ LocksInOrder

LEMMA OrderInit == Init => OrderInv
<1> SUFFICES ASSUME Init
             PROVE  LocksInOrder
  BY TypeInit DEF OrderInv
<1> QED
  BY DEF Init, LocksInOrder

(* A writer that moves on, without its locks, leaves the others theirs. *)
LEMMA EndKeepsOrder ==
    ASSUME OrderInv, NEW v \in Writers, EndTransaction(v),
           \A w \in Writers \ {v} : pc'[w] = pc[w] /\ batch'[w] = batch[w]
    PROVE  LocksInOrder'
<1>1. ASSUME NEW w \in Writers, NEW k \in Keys, locked'[k] = w
      PROVE  /\ w # v /\ locked[k] = w
             /\ pc'[w] = pc[w] /\ batch'[w] = batch[w]
  BY <1>1 DEF EndTransaction, OrderInv, TypeOK
<1>2. ASSUME NEW w \in Writers, NEW k \in Keys, w # v, locked[k] = w
      PROVE  locked'[k] = w
  BY <1>2 DEF EndTransaction, OrderInv, TypeOK
<1>3. ASSUME NEW w \in Writers, NEW k \in Keys, locked'[k] = w
      PROVE  pc'[w] \in {"select", "update", "commit", "expired"}
  BY <1>1, <1>3 DEF OrderInv, LocksInOrder
<1>4. ASSUME NEW w \in Writers, NEW j \in Keys, NEW k \in Keys,
             pc'[w] \in {"select", "expired"}, locked'[j] = w,
             k \in (KeysOf(w) \ LockedBy(w))'
      PROVE  j < k
  <2>1. w # v /\ locked[j] = w /\ pc[w] \in {"select", "expired"} /\ batch'[w] = batch[w]
    BY <1>1, <1>4
  <2>2. k \in KeysOf(w) \ LockedBy(w)
    BY <1>2, <1>4, <2>1 DEF KeysOf, LockedBy
  <2> QED
    BY <2>1, <2>2 DEF OrderInv, LocksInOrder
<1> QED
  BY <1>3, <1>4 DEF LocksInOrder

LEMMA RetryLeavesOthers ==
    ASSUME OrderInv, NEW v \in Writers, EndBatch(v) \/ RetryOrGiveUp(v)
    PROVE  \A w \in Writers \ {v} : pc'[w] = pc[w] /\ batch'[w] = batch[w]
<1>1. CASE EndBatch(v)
  BY <1>1 DEF EndBatch, OrderInv, TypeOK
<1>2. CASE RetryOrGiveUp(v) /\ attempt[v] < MaxAttempts
  BY <1>2 DEF RetryOrGiveUp, OrderInv, TypeOK
<1>3. CASE RetryOrGiveUp(v) /\ ~(attempt[v] < MaxAttempts)
  BY <1>1, <1>3 DEF RetryOrGiveUp
<1> QED
  BY <1>1, <1>2, <1>3

(* The row that is locked next comes before those still to be locked. *)
LEMMA LockRowKeepsOrder ==
    ASSUME OrderInv, NEW v \in Writers, NEW i \in Keys, LockRow(v, i)
    PROVE  LocksInOrder'
<1>1. /\ locked \in [Keys -> Writers \cup {NoWriter}]
      /\ pc[v] \in {"select", "expired"} /\ locked[i] = NoWriter
      /\ locked' = [locked EXCEPT ![i] = v]
      /\ UNCHANGED <<pc, batch>>
  BY DEF LockRow, OrderInv, TypeOK
<1>2. ASSUME NEW w \in Writers, NEW k \in Keys, locked'[k] = w
      PROVE  pc'[w] \in {"select", "update", "commit", "expired"}
  BY <1>1, <1>2 DEF OrderInv, LocksInOrder
<1>3. ASSUME NEW w \in Writers, NEW j \in Keys, NEW k \in Keys,
             pc'[w] \in {"select", "expired"}, locked'[j] = w,
             k \in (KeysOf(w) \ LockedBy(w))'
      PROVE  j < k
  <2>1. k \in KeysOf(w) \ LockedBy(w)
    BY <1>1, <1>3 DEF KeysOf, LockedBy
  <2>2. CASE locked[j] = w
    BY <1>1, <1>3, <2>1, <2>2 DEF OrderInv, LocksInOrder
  <2>3. CASE locked[j] # w
    <3>1. w = v /\ j = i
      BY <1>1, <1>3, <2>3
    <3>2. k # i
      BY <1>1, <1>3, <3>1 DEF KeysOf, LockedBy
    <3>3. i <= k
      BY <2>1, <3>1 DEF LockRow, NextToLock
    <3> QED
      BY <3>1, <3>2, <3>3
  <2> QED
    BY <2>2, <2>3
<1> QED
  BY <1>2, <1>3 DEF LocksInOrder

LEMMA OrderNext == OrderInv /\ [Next]_vars => OrderInv'
<1> SUFFICES ASSUME OrderInv, [Next]_vars
             PROVE  LocksInOrder'
  BY TypeNext DEF OrderInv
<1>1. ASSUME NEW v \in Writers, NEW b \in Batches, Flush(v, b)
      PROVE  LocksInOrder'
  <2>1. \A k \in Keys : locked[k] # v
    BY <1>1 DEF Flush, OrderInv, LocksInOrder
  <2>2. \A w \in Writers \ {v} : pc'[w] = pc[w] /\ batch'[w] = batch[w]
    BY <1>1 DEF Flush, OrderInv, TypeOK
  <2>3. locked' = locked
    BY <1>1 DEF Flush
  <2>4. ASSUME NEW w \in Writers, NEW k \in Keys, locked'[k] = w
        PROVE  pc'[w] \in {"select", "update", "commit", "expired"}
    BY <2>1, <2>2, <2>3, <2>4 DEF OrderInv, LocksInOrder
  <2>5. ASSUME NEW w \in Writers, NEW j \in Keys, NEW k \in Keys,
               pc'[w] \in {"select", "expired"}, locked'[j] = w,
               k \in (KeysOf(w) \ LockedBy(w))'
        PROVE  j < k
    <3>1. pc'[w] = pc[w] /\ batch'[w] = batch[w]
      BY <2>1, <2>2, <2>3, <2>5
    <3>2. k \in KeysOf(w) \ LockedBy(w)
      BY <2>3, <2>5, <3>1 DEF KeysOf, LockedBy
    <3> QED
      BY <2>3, <2>5, <3>1, <3>2 DEF OrderInv, LocksInOrder
  <2> QED
    BY <2>4, <2>5 DEF LocksInOrder
<1>2. ASSUME NEW v \in Writers, Connect(v)
      PROVE  LocksInOrder'
  <2>1. \A k \in Keys : locked[k] # v
    BY <1>2 DEF Connect, OrderInv, LocksInOrder
  <2> QED
    BY <1>2, <2>1 DEF Connect, OrderInv, LocksInOrder, KeysOf, LockedBy, TypeOK
<1>3. ASSUME NEW v \in Writers, NEW k \in Keys, LockRow(v, k)
      PROVE  LocksInOrder'
  BY <1>3, LockRowKeepsOrder
<1>4. ASSUME NEW v \in Writers, Update(v) \/ Updated(v) \/ SelectTimeout(v)
      PROVE  LocksInOrder'
  BY <1>4 DEF Update, Updated, SelectTimeout, OrderInv, LocksInOrder, KeysOf, LockedBy, TypeOK
<1>5. ASSUME NEW v \in Writers,
             Commit(v) \/ RollbackExpired(v) \/ UpdateTimeout(v) \/ Crash(v)
      PROVE  LocksInOrder'
  <2>1. EndTransaction(v) /\ (EndBatch(v) \/ RetryOrGiveUp(v))
    BY <1>5 DEF Commit, RollbackExpired, UpdateTimeout, Crash
  <2> QED
    BY <2>1, RetryLeavesOthers, EndKeepsOrder
<1>6. ASSUME NEW v \in Writers, ConnectTimeout(v)
      PROVE  LocksInOrder'
  <2>1. \A k \in Keys : locked[k] # v
    BY <1>6 DEF ConnectTimeout, OrderInv, LocksInOrder
  <2>2. \A w \in Writers \ {v} : pc'[w] = pc[w] /\ batch'[w] = batch[w]
    BY <1>6, RetryLeavesOthers DEF ConnectTimeout
  <2> QED
    BY <1>6, <2>1, <2>2 DEF ConnectTimeout, OrderInv, LocksInOrder, KeysOf, LockedBy
<1>7. CASE UNCHANGED <<locked, pc, batch>>
  BY <1>7 DEF OrderInv, LocksInOrder, KeysOf, LockedBy
<1>8. ASSUME NEW u \in late, ApplyLate(u) \/ LoseLate(u)
      PROVE  LocksInOrder'
  BY <1>7, <1>8 DEF ApplyLate, LoseLate
<1>9. CASE UNCHANGED vars
  BY <1>7, <1>9 DEF vars
<1> QED
  BY <1>1, <1>2, <1>3, <1>4, <1>5, <1>6, <1>8, <1>9 DEF Next, Step, Fault

(* Among those that wait, whoever waits for the last row waits for nobody. *)
LEMMA OrderPreventsCycles == OrderInv => NoWaitCycle
<1> SUFFICES ASSUME OrderInv,
                    NEW group \in (SUBSET Writers) \ {{}},
                    \A w \in group : \E v \in group : WaitsFor(w, v)
             PROVE  FALSE
  BY DEF NoWaitCycle
<1> DEFINE next == [w \in group |-> CHOOSE k \in Keys : NextToLock(w, k)]
<1>1. ASSUME NEW w \in group
      PROVE  next[w] \in Keys /\ NextToLock(w, next[w])
  <2>1. PICK v \in group : WaitsFor(w, v)
    OBVIOUS
  <2>2. \E k \in Keys : NextToLock(w, k)
    BY <2>1 DEF WaitsFor
  <2> QED
    BY <2>2
<1>2. next = [w \in group |-> next[w]]
  OBVIOUS
<1> HIDE DEF next
<1>k. \A k \in Keys : k \in Int
  OBVIOUS
<1>i. next \in [group -> Int]
  BY <1>1, <1>2, <1>k
<1>3. ASSUME NEW w \in group, NEW k \in Keys, NextToLock(w, k)
      PROVE  k = next[w]
  <2>1. k <= next[w] /\ next[w] <= k
    BY <1>1, <1>3 DEF NextToLock
  <2>2. k \in Int /\ next[w] \in Int
    BY <1>1, <1>k
  <2> QED
    BY <2>1, <2>2
<1>4. PICK w \in group : \A v \in group : next[v] <= next[w]
  <2>1. IsFiniteSet(group)
    BY FS_Subset
  <2> QED
    BY <1>i, <2>1, GreatestValue
<1>5. PICK v \in group : WaitsFor(w, v)
  OBVIOUS
<1>6. locked[next[w]] = v
  BY <1>3, <1>5 DEF WaitsFor
<1>7. pc[v] \in {"select", "expired"}
  BY DEF WaitsFor
<1>8. next[v] \in KeysOf(v) \ LockedBy(v)
  BY <1>1 DEF NextToLock
<1>9. next[w] < next[v]
  BY <1>1, <1>6, <1>7, <1>8 DEF OrderInv, LocksInOrder
<1> QED
  BY <1>i, <1>4, <1>9

(***************************************************************************)
(* No group of transactions waits for row locks held within the group,     *)
(* whatever times out, is rolled back or crashes: rows are locked in the   *)
(* order of their keys, and all at the end of a transaction are released.  *)
(***************************************************************************)
THEOREM NoDeadlock == Spec => []NoWaitCycle
<1> QED
  BY OrderInit, OrderNext, OrderPreventsCycles, PTL DEF Spec
=============================================================================
