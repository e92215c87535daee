--------------------------- MODULE ImportCoverage ---------------------------
(***************************************************************************)
(* What the planning of queries and the recording of their results promise *)
(* together, in sets of blocks.  A run plans blocks of its products that   *)
(* were not covered yet or are to be retried; what it records later are    *)
(* results of these blocks only: none leaves what was covered, none but    *)
(* them is taken out of what is to be retried or put into it.  Meanwhile   *)
(* the recent importer records windows of its own.                         *)
(***************************************************************************)
EXTENDS Integers

CONSTANTS Products, Blocks

VARIABLES
    covered,    \* blocks queried at least once, per product
    toRetry,    \* blocks whose last query failed, per product
    planned     \* blocks the run in progress queries, per product

PerProduct == [Products -> SUBSET Blocks]

NoBlock == [p \in Products |-> {}]

Init ==
    /\ covered = NoBlock
    /\ toRetry = NoBlock
    /\ planned = NoBlock

Plan ==
    /\ planned = NoBlock
    /\ planned' \in PerProduct
    /\ \A p \in Products :
         planned'[p] \subseteq (Blocks \ covered[p]) \cup toRetry[p]
    /\ UNCHANGED <<covered, toRetry>>

(* Some of the planned blocks have a result, success or failure. *)
Record ==
    /\ planned' = NoBlock
    /\ covered' \in PerProduct
    /\ toRetry' \in PerProduct
    /\ \A p \in Products :
         LET Results == planned[p] \cap covered'[p]
         IN  /\ covered'[p] = covered[p] \cup Results
             /\ toRetry'[p] \ toRetry[p] \subseteq Results
             /\ toRetry[p] \ toRetry'[p] \subseteq Results

RecordRecent ==
    \E p \in Products, from, to \in Blocks :
        /\ covered' = [covered EXCEPT ![p] = @ \cup from .. to]
        /\ \/ toRetry' = [toRetry EXCEPT ![p] = @ \cup from .. to]
           \/ toRetry' = [toRetry EXCEPT ![p] = @ \ (from .. to)]
        /\ UNCHANGED planned

Next == Plan \/ Record \/ RecordRecent

Spec == Init /\ [][Next]_<<covered, toRetry, planned>>
=============================================================================
