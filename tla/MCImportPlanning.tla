-------------------------- MODULE MCImportPlanning --------------------------
(* One product from the first block on and one created later. *)
EXTENDS ImportPlanning

CONSTANTS p, q

MCCreated == (p :> 0) @@ (q :> 1)
=============================================================================
