CONSTANTS
    Writers = {w1, w2}
    NoWriter = NoWriter
    Blocks <- MCBlocks
    Keys <- MCKeys
    Batches <- MCBatches
    MaxAttempts = 2
    MaxTimeouts = 2
SPECIFICATION FairSpec
PROPERTY CoveredRemembered
