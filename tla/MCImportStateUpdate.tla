------------------------ MODULE MCImportStateUpdate -------------------------
(***************************************************************************)
(* A few importers, two rows of two blocks.  The buffers are chosen so     *)
(* that a block is imported by one writer and failed by the other, that    *)
(* one buffer has the same block as a success and as an error, and that    *)
(* one needs the locks of both rows and the other the lock of one of them. *)
(***************************************************************************)
EXTENDS ImportStateUpdate

MCBlocks == {1, 2}
MCKeys == {1, 2}

Ok(blocks) == [success |-> blocks, error |-> {}, latest |-> 1]
Mixed(good, bad) == [success |-> good, error |-> bad, latest |-> 2]

MCBatches ==
    {<<Ok({1}), Mixed({1, 2}, {1})>>,
     <<Mixed({2}, {1}), NoResult>>}
=============================================================================
