-------------------------- MODULE MCTransferImport --------------------------
(***************************************************************************)
(* Product m has two events of the same owner in the second block; w has a *)
(* transfer from an ignored address, one that comes and goes, and one that *)
(* was dropped by a reorganisation.                                        *)
(***************************************************************************)
EXTENDS TransferImport, TLC

CONSTANTS m, w, a, c, z

Log(p, event, from, to, amount, block, index) ==
    [product |-> p, event |-> event, from |-> from, to |-> to, amount |-> amount,
     block |-> block, index |-> index, removed |-> FALSE]

MCCreated == (m :> 1) @@ (w :> 1)
MCLogs ==
    {Log(m, "Staked", a, a, 2, 1, 1),
     Log(m, "Staked", a, a, 1, 2, 1), Log(m, "Withdrawn", a, a, 2, 2, 2),
     Log(m, "Transfer", z, a, 3, 1, 3), Log(m, "Transfer", a, z, 3, 2, 3),
     Log(w, "Transfer", z, a, 1, 2, 4), Log(w, "Transfer", a, z, 1, 2, 5),
     [Log(w, "Transfer", z, a, 5, 2, 6) EXCEPT !.removed = TRUE],
     Log(w, "Staked", a, a, 1, 2, 7), Log(w, "Staked", c, c, 2, 2, 8)}

Chain(sameBlock, multicall, timestamp, calls, kind) ==
    [sameBlock |-> sameBlock, multicall |-> multicall, timestamp |-> timestamp,
     calls |-> calls, kind |-> kind, empty |-> {}]

(***************************************************************************)
(* One that reads the next block, as aurora; one whose RPC cannot tell the *)
(* time nor batch calls, and a bridged vault; one where a vault is empty   *)
(* after the second block; one without multicall where two owners stake in *)
(* the same block.                                                         *)
(***************************************************************************)
MCChains ==
    {Chain(FALSE, 1, TRUE, 4, m :> "boost"),
     Chain(TRUE, 1, FALSE, None, (m :> "bridged") @@ (w :> "standard")),
     [Chain(TRUE, 1, TRUE, 4, m :> "standard") EXCEPT !.empty = {<<m, 2>>}],
     Chain(TRUE, None, TRUE, 4, w :> "boost")}
=============================================================================
