CONSTANTS
    Writers = {w1, w2}
    NoWriter = NoWriter
    Blocks <- MCBlocks
    Keys <- MCKeys
    Batches <- MCBatches
    MaxAttempts = 2
    MaxTimeouts = 2
SPECIFICATION FairSpec
INVARIANTS TypeOK RowConsistent MergedFromCurrentRow NoWaitCycle
PROPERTIES BatchEnds LedgerExceptLate
