SPECIFICATION FairSpec
CONSTANTS
    MaxTime = 2
    Scenarios <- MCScenarios
    Corrected = {1}
    RowTimes = {0, 1}
    NoPriceMargin = 1
    NearMargin = 1
    Window = 1
    Span = 1
    LimitBatch = 1
INVARIANT GuessesAreRight
INVARIANT ReimportReachesRows
PROPERTY EveryRowPriced
CHECK_DEADLOCK FALSE
