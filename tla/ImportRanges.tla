---------------------------- MODULE ImportRanges ----------------------------
(***************************************************************************)
(* The value kept in the "import_data" column of one import_state row, and *)
(* how a buffer of query results is merged into it.                        *)
(*                                                                         *)
(* The code keeps sorted lists of closed ranges {from, to}.  A list of     *)
(* ranges is represented here by the set of the blocks it contains: the    *)
(* range algebra of utils/range.ts (merge, exclude) computes union and     *)
(* difference of such sets, whatever the bounds of the individual ranges.  *)
(*                                                                         *)
(* lastImportDate is left out: it only orders the products of a run.       *)
(***************************************************************************)
EXTENDS Integers

CONSTANT Blocks         \* the block numbers of one import state
ASSUME BlocksAssumption == Blocks \subseteq Nat

(***************************************************************************)
(* importData.ranges and importData.chainLatestBlockNumber.                *)
(***************************************************************************)
ImportState == [covered : SUBSET Blocks, toRetry : SUBSET Blocks, latest : Nat]

(* The row of a product whose contract was created at this block. *)
DefaultImportState(createdAt) ==
    [covered |-> {}, toRetry |-> {}, latest |-> createdAt]

(***************************************************************************)
(* The results buffered for one row by updateImportState$: the blocks of   *)
(* the successful queries, those of the failed ones, and the highest       *)
(* "latest" block a query was made with.  A block is in both sets when the *)
(* same range was queried twice.                                           *)
(***************************************************************************)
Buffer == [success : SUBSET Blocks, error : SUBSET Blocks, latest : Nat]

NoResult == [success |-> {}, error |-> {}, latest |-> 0]

MaxOf(m, n) == IF m >= n THEN m ELSE n

AddResult(buffer, success, error, latest) ==
    [success |-> buffer.success \cup success,
     error   |-> buffer.error \cup error,
     latest  |-> MaxOf(buffer.latest, latest)]

(* Mutant: the failed ranges are not kept to be queried again. *)
UpdateForgettingErrors(state, covered, success, error) ==
    [state EXCEPT !.covered = @ \cup covered, !.toRetry = @ \ success]

(***************************************************************************)
(* updateImportRanges: remember what was covered, forget the retries that  *)
(* succeeded, add the errors to the ranges to retry.                       *)
(***************************************************************************)
UpdateImportRanges(state, covered, success, error) ==
    [state EXCEPT !.covered = @ \cup covered,
                  !.toRetry = (@ \ success) \cup error]

(* An error wins over a success of the same block. *)
SuccessRanges(buffer) == buffer.success \ buffer.error

(* mergeImportState: the row after the buffered results of its key. *)
MergeImportState(buffer, state) ==
    [UpdateImportRanges(state, buffer.success \cup buffer.error,
                        SuccessRanges(buffer), buffer.error)
        EXCEPT !.latest = MaxOf(@, buffer.latest)]

(* Blocks the row says are imported: never queried again unless asked to. *)
Imported(state) == state.covered \ state.toRetry
=============================================================================
