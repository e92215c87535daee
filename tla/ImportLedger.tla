---------------------------- MODULE ImportLedger ----------------------------
(***************************************************************************)
(* What updateImportState$ promises to the importers: a batch of results   *)
(* they hand over is merged into the current import states of all its keys *)
(* in one step, once, or it is dropped as a whole.                         *)
(***************************************************************************)
EXTENDS ImportRanges

CONSTANTS Writers, Keys, Batches

VARIABLES
    ledger,     \* the import state of every key
    pending     \* the batch each writer has handed over, NoBatch when none

NoBatch == [k \in Keys |-> NoResult]

Init ==
    /\ ledger = [k \in Keys |-> DefaultImportState(0)]
    /\ pending = [w \in Writers |-> NoBatch]

HandOver(w, b) ==
    /\ pending[w] = NoBatch
    /\ pending' = [pending EXCEPT ![w] = b]
    /\ UNCHANGED ledger

Record(w) ==
    /\ ledger' = [k \in Keys |-> MergeImportState(pending[w][k], ledger[k])]
    /\ pending' = [pending EXCEPT ![w] = NoBatch]

Drop(w) ==
    /\ pending' = [pending EXCEPT ![w] = NoBatch]
    /\ UNCHANGED ledger

Next ==
    \E w \in Writers :
        \/ \E b \in Batches : HandOver(w, b)
        \/ Record(w)
        \/ Drop(w)

Spec == Init /\ [][Next]_<<ledger, pending>>
=============================================================================
