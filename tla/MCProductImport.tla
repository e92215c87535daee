-------------------------- MODULE MCProductImport ---------------------------
(* The chain of the runs: a few blocks, from 0 on. *)
EXTENDS ProductImport

MCBlocks == 0 .. MaxBlock
=============================================================================
