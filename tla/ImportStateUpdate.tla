------------------------- MODULE ImportStateUpdate --------------------------
(***************************************************************************)
(* updateImportState$: how importers that share the import_state table     *)
(* record their results.  Every importer process (historical, recent,      *)
(* reimport) buffers results per row, then runs one transaction that locks *)
(* the rows in key order, merges the results into what it read and writes  *)
(* the rows back.                                                          *)
(*                                                                         *)
(* db_transaction races the work with a timer: when the timer wins, the    *)
(* promise is rejected but the work goes on.  A ROLLBACK is queued on the  *)
(* connection behind the statements already sent to it, and once the       *)
(* SELECT is answered the work queues its UPDATEs behind that ROLLBACK.    *)
(* The connection is closed as soon as the ROLLBACK is answered, but the   *)
(* first of these UPDATEs has been sent by then: the server may still      *)
(* execute it, outside of any transaction.                                 *)
(*                                                                         *)
(* PostgreSQL (READ COMMITTED, row locks) and the queue of statements of   *)
(* the pg client are external: they are modelled from how this code uses   *)
(* them.                                                                   *)
(***************************************************************************)
EXTENDS ImportRanges, FiniteSets

CONSTANTS
    Writers,        \* connections of the importers that update import states
    Keys,           \* import keys, compared like the database orders them
    Batches,        \* the results a writer may have buffered, per key
    MaxAttempts,    \* numOfAttempts of the backOff around the transaction
    MaxTimeouts,    \* bound: how many timers fire in a behaviour
    NoWriter        \* nobody holds the lock of the row

ASSUME WritersAssumption == NoWriter \notin Writers /\ IsFiniteSet(Writers)
ASSUME KeysAssumption == Keys \subseteq Nat
ASSUME BatchesAssumption == Batches \subseteq [Keys -> Buffer]
ASSUME BoundsAssumption == MaxAttempts \in Nat \ {0} /\ MaxTimeouts \in Nat

VARIABLES
    row,        \* the committed import_data of every key
    locked,     \* which writer's transaction holds the row lock of a key
    pc,         \* what the transaction of a writer is doing
    batch,      \* the buffered results of a writer, per key
    snap,       \* the rows a writer's SELECT ... FOR UPDATE has read so far
    attempt,    \* number of attempts made for the current batch
    late,       \* UPDATEs sent on a connection after its ROLLBACK
    timeouts,   \* number of timers that fired
    succeeded   \* history: blocks of each key some importer really imported

vars == <<row, locked, pc, batch, snap, attempt, late, timeouts, succeeded>>

(***************************************************************************)
(* idle    - no batch: waiting for the buffer to be flushed                *)
(* connect - a fresh client is connecting                                  *)
(* select  - inside SELECT ... FOR UPDATE, locking the rows one by one     *)
(* update  - the UPDATEs of the merged rows are queued or running          *)
(* commit  - COMMIT was sent                                               *)
(* expired - the timer fired while the SELECT was still waiting            *)
(***************************************************************************)
Phase == {"idle", "connect", "select", "update", "commit", "expired"}

NoBatch == [k \in Keys |-> NoResult]
NoSnap == [k \in Keys |-> DefaultImportState(0)]
LateUpdate == [writer : Writers, key : Keys, data : ImportState]

(* A key takes part in a transaction when the batch has a result for it. *)
KeysOf(w) == {k \in Keys : batch[w][k] # NoResult}

Merged(w, k) == MergeImportState(batch[w][k], snap[w][k])

LockedBy(w) == {k \in Keys : locked[k] = w}

(* Mutant: SELECT ... FOR UPDATE without its ORDER BY. *)
NextInAnyOrder(w, k) == k \in KeysOf(w) \ LockedBy(w)

(* The row the SELECT is about to lock: rows are locked in key order. *)
NextToLock(w, k) ==
    /\ k \in KeysOf(w) \ LockedBy(w)
    /\ \A j \in KeysOf(w) \ LockedBy(w) : k <= j

HasAllRows(w) == KeysOf(w) \subseteq LockedBy(w)

-----------------------------------------------------------------------------

Init ==
    /\ row = [k \in Keys |-> DefaultImportState(0)]
    /\ locked = [k \in Keys |-> NoWriter]
    /\ pc = [w \in Writers |-> "idle"]
    /\ batch = [w \in Writers |-> NoBatch]
    /\ snap = [w \in Writers |-> NoSnap]
    /\ attempt = [w \in Writers |-> 0]
    /\ late = {}
    /\ timeouts = 0
    /\ succeeded = [k \in Keys |-> {}]

(* The buffer of results is flushed; their data is already in the database. *)
Flush(w, b) ==
    /\ pc[w] = "idle"
    /\ \E k \in Keys : b[k] # NoResult
    /\ pc' = [pc EXCEPT ![w] = "connect"]
    /\ batch' = [batch EXCEPT ![w] = b]
    /\ attempt' = [attempt EXCEPT ![w] = 1]
    /\ succeeded' = [k \in Keys |-> succeeded[k] \cup SuccessRanges(b[k])]
    /\ UNCHANGED <<row, locked, snap, late, timeouts>>

(* The client is connected within the connect timeout, BEGIN is sent. *)
Connect(w) ==
    /\ pc[w] = "connect"
    /\ pc' = [pc EXCEPT ![w] = "select"]
    /\ UNCHANGED <<row, locked, batch, snap, attempt, late, timeouts, succeeded>>

(* Mutant: the rows are read without FOR UPDATE. *)
ReadRow(w, k) ==
    /\ pc[w] \in {"select", "expired"}
    /\ NextToLock(w, k)
    /\ locked' = [locked EXCEPT ![k] = w]
    /\ snap' = [snap EXCEPT ![w][k] = row[k]]
    /\ UNCHANGED <<row, pc, batch, attempt, late, timeouts, succeeded>>

(***************************************************************************)
(* SELECT ... ORDER BY import_key FOR UPDATE locks the next row when no    *)
(* other transaction has it, and returns the row as it is then.            *)
(***************************************************************************)
LockRow(w, k) ==
    /\ pc[w] \in {"select", "expired"}
    /\ NextToLock(w, k)
    /\ locked[k] = NoWriter
    /\ locked' = [locked EXCEPT ![k] = w]
    /\ snap' = [snap EXCEPT ![w][k] = row[k]]
    /\ UNCHANGED <<row, pc, batch, attempt, late, timeouts, succeeded>>

(* The SELECT is answered in time: the rows are merged, the UPDATEs sent. *)
Update(w) ==
    /\ pc[w] = "select"
    /\ HasAllRows(w)
    /\ pc' = [pc EXCEPT ![w] = "update"]
    /\ UNCHANGED <<row, locked, batch, snap, attempt, late, timeouts, succeeded>>

(* The UPDATEs are answered in time: from here on no timer is running. *)
Updated(w) ==
    /\ pc[w] = "update"
    /\ pc' = [pc EXCEPT ![w] = "commit"]
    /\ UNCHANGED <<row, locked, batch, snap, attempt, late, timeouts, succeeded>>

(* Mutant: the client is neither rolled back nor closed. *)
LeaveTransactionOpen(w) ==
    /\ snap' = [snap EXCEPT ![w] = NoSnap]
    /\ UNCHANGED locked

(* The end of a transaction: its row locks are released, its reads forgotten. *)
EndTransaction(w) ==
    /\ locked' = [k \in Keys |-> IF locked[k] = w THEN NoWriter ELSE locked[k]]
    /\ snap' = [snap EXCEPT ![w] = NoSnap]

(* The writer is done with its batch, whatever became of it. *)
EndBatch(w) ==
    /\ pc' = [pc EXCEPT ![w] = "idle"]
    /\ batch' = [batch EXCEPT ![w] = NoBatch]
    /\ attempt' = [attempt EXCEPT ![w] = 0]

(* The merged rows become visible and the row locks are released. *)
Commit(w) ==
    /\ pc[w] = "commit"
    /\ row' = [k \in Keys |-> IF k \in KeysOf(w) THEN Merged(w, k) ELSE row[k]]
    /\ EndTransaction(w)
    /\ EndBatch(w)
    /\ UNCHANGED <<late, timeouts, succeeded>>

-----------------------------------------------------------------------------

(* Mutant: one attempt more than numOfAttempts. *)
RetryOnceMore(w) ==
    IF attempt[w] <= MaxAttempts
    THEN /\ pc' = [pc EXCEPT ![w] = "connect"]
         /\ attempt' = [attempt EXCEPT ![w] = @ + 1]
         /\ UNCHANGED batch
    ELSE EndBatch(w)

(***************************************************************************)
(* db_transaction was rejected with a ConnectionTimeoutError: backOff runs *)
(* the transaction again, or the batch is dropped after the last attempt.  *)
(***************************************************************************)
RetryOrGiveUp(w) ==
    IF attempt[w] < MaxAttempts
    THEN /\ pc' = [pc EXCEPT ![w] = "connect"]
         /\ attempt' = [attempt EXCEPT ![w] = @ + 1]
         /\ UNCHANGED batch
    ELSE EndBatch(w)

TimerFires ==
    /\ timeouts < MaxTimeouts
    /\ timeouts' = timeouts + 1

ConnectTimeout(w) ==
    /\ pc[w] = "connect"
    /\ TimerFires
    /\ RetryOrGiveUp(w)
    /\ UNCHANGED <<row, locked, snap, late, succeeded>>

(* ROLLBACK queued behind the UPDATEs: it undoes them before it is answered. *)
UpdateTimeout(w) ==
    /\ pc[w] = "update"
    /\ TimerFires
    /\ EndTransaction(w)
    /\ RetryOrGiveUp(w)
    /\ UNCHANGED <<row, late, succeeded>>

(* ROLLBACK queued behind the SELECT, which keeps waiting for its locks. *)
SelectTimeout(w) ==
    /\ pc[w] = "select"
    /\ TimerFires
    /\ pc' = [pc EXCEPT ![w] = "expired"]
    /\ UNCHANGED <<row, locked, batch, snap, attempt, late, succeeded>>

(***************************************************************************)
(* The SELECT is answered after all: the ROLLBACK that follows it releases *)
(* the locks, and the work, which nothing stopped, has queued its UPDATEs. *)
(* The first one is sent when the ROLLBACK is answered, before the client  *)
(* is closed; the others never leave the client.                           *)
(***************************************************************************)
RollbackExpired(w) ==
    /\ pc[w] = "expired"
    /\ HasAllRows(w)
    /\ \E k \in KeysOf(w) :
         late' = late \cup {[writer |-> w, key |-> k, data |-> Merged(w, k)]}
    /\ EndTransaction(w)
    /\ RetryOrGiveUp(w)
    /\ UNCHANGED <<row, timeouts, succeeded>>

(* The server executes such an UPDATE in a transaction of its own. *)
ApplyLate(u) ==
    /\ u \in late
    /\ locked[u.key] = NoWriter
    /\ row' = [row EXCEPT ![u.key] = u.data]
    /\ late' = late \ {u}
    /\ UNCHANGED <<locked, pc, batch, snap, attempt, timeouts, succeeded>>

(* The connection is gone before the server reads it. *)
LoseLate(u) ==
    /\ u \in late
    /\ late' = late \ {u}
    /\ UNCHANGED <<row, locked, pc, batch, snap, attempt, timeouts, succeeded>>

(***************************************************************************)
(* The process ends (an uncaught error, a restart of the container): the   *)
(* server aborts the open transaction and the buffered results are lost.   *)
(***************************************************************************)
Crash(w) ==
    /\ pc[w] # "idle"
    /\ EndTransaction(w)
    /\ EndBatch(w)
    /\ UNCHANGED <<row, late, timeouts, succeeded>>

-----------------------------------------------------------------------------

Step(w) ==
    \/ Connect(w)
    \/ \E k \in Keys : LockRow(w, k)
    \/ Update(w)
    \/ Updated(w)
    \/ Commit(w)
    \/ RollbackExpired(w)

Fault(w) ==
    \/ ConnectTimeout(w)
    \/ UpdateTimeout(w)
    \/ SelectTimeout(w)
    \/ Crash(w)

Next ==
    \/ \E w \in Writers :
         \/ \E b \in Batches : Flush(w, b)
         \/ Step(w)
         \/ Fault(w)
    \/ \E u \in late : ApplyLate(u) \/ LoseLate(u)

Spec == Init /\ [][Next]_vars

(***************************************************************************)
(* Promises of a live process settle and the server answers: every step is *)
(* weakly fair, except that a row lock others keep taking needs strong     *)
(* fairness, which the server's first-come first-served lock queue gives.  *)
(***************************************************************************)
Fairness ==
    \A w \in Writers :
        /\ WF_vars(Connect(w) \/ Update(w) \/ Updated(w) \/ Commit(w) \/ RollbackExpired(w))
        /\ \A k \in Keys : SF_vars(LockRow(w, k))

FairSpec == Spec /\ Fairness

-----------------------------------------------------------------------------

TypeOK ==
    /\ row \in [Keys -> ImportState]
    /\ locked \in [Keys -> Writers \cup {NoWriter}]
    /\ pc \in [Writers -> Phase]
    /\ batch \in [Writers -> [Keys -> Buffer]]
    /\ snap \in [Writers -> [Keys -> ImportState]]
    /\ attempt \in [Writers -> 0 .. MaxAttempts]
    /\ late \subseteq LateUpdate
    /\ timeouts \in 0 .. MaxTimeouts
    /\ succeeded \in [Keys -> SUBSET Blocks]

(***************************************************************************)
(* What a row says stays true whatever transaction expires, is retried,    *)
(* crashes or writes late: a range to retry is a covered range, and a      *)
(* range that will not be queried again was imported by somebody.          *)
(***************************************************************************)
RowConsistent ==
    \A k \in Keys : /\ row[k].toRetry \subseteq row[k].covered
                    /\ Imported(row[k]) \subseteq succeeded[k]

(***************************************************************************)
(* "we start a transaction as we need to do a select FOR UPDATE": the rows *)
(* a transaction is about to write back were merged from the rows as they  *)
(* still are.                                                              *)
(***************************************************************************)
MergedFromCurrentRow ==
    \A w \in Writers :
        pc[w] \in {"update", "commit"} =>
            \A k \in KeysOf(w) : locked[k] = w /\ snap[w][k] = row[k]

(***************************************************************************)
(* "Remove the possibility of deadlocks": no group of transactions waits   *)
(* for row locks held within the group.                                    *)
(***************************************************************************)
WaitsFor(w, v) ==
    /\ pc[w] \in {"select", "expired"}
    /\ \E k \in Keys : NextToLock(w, k) /\ locked[k] = v

NoWaitCycle ==
    \A group \in (SUBSET Writers) \ {{}} :
        \E w \in group : \A v \in group : ~WaitsFor(w, v)

(***************************************************************************)
(* Every flushed batch is dealt with: recorded, or dropped after the last  *)
(* attempt.  A writer that never came back would block its whole pipeline  *)
(* (concatMap).                                                            *)
(***************************************************************************)
BatchEnds == \A w \in Writers : pc[w] # "idle" ~> pc[w] = "idle"

(***************************************************************************)
(* "we need to remember which range we covered": a block some transaction  *)
(* recorded as covered stays covered.                                      *)
(***************************************************************************)
CoveredRemembered ==
    [][\A k \in Keys : row[k].covered \subseteq row'[k].covered]_row

(***************************************************************************)
(* The transaction does what ImportLedger promises, whatever times out,    *)
(* retries and crashes: a batch is merged into the current rows in one     *)
(* step, or not at all.  Only the UPDATE of an expired transaction that    *)
(* was already queued breaks the promise, the moment it runs.              *)
(***************************************************************************)
Ledger == INSTANCE ImportLedger WITH ledger <- row, pending <- batch

WrittenLate ==
    /\ \E u \in late : row' = [row EXCEPT ![u.key] = u.data]
    /\ UNCHANGED batch

LedgerExceptLate ==
    Ledger!Init /\ [][Ledger!Next \/ WrittenLate]_<<row, batch>>
=============================================================================
