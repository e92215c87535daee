CONSTANTS
    Historical = {h}
    Recent = {}
    Ignoring = {}
    Deployments = {{h}}
    NoRow = NoRow
    Blocks <- MCBlocks
    MaxBlock = 3
    Created = 1
    WaitForBlockPropagation = 1
    MaxLag = 1
    MaxBlocksPerQuery = 2
    PeriodInBlocks = 1
    SkipRecent = TRUE
    ReimportTo = {0}
    SettledReimports = FALSE
    MaxReimports = 1
    MaxFaults = 0
SPECIFICATION Spec
INVARIANT WaitsForPropagation
