CONSTANTS
    Historical = {h, i}
    Recent = {r}
    Ignoring = {i}
    Deployments = {{h, r}, {h, i}}
    NoRow = NoRow
    Blocks <- MCBlocks
    MaxBlock = 2
    Created = 0
    WaitForBlockPropagation = 1
    MaxLag = 1
    MaxBlocksPerQuery = 2
    PeriodInBlocks = 1
    SkipRecent = TRUE
    ReimportTo = {1}
    SettledReimports = TRUE
    MaxReimports = 1
    MaxFaults = 1
SPECIFICATION FairSpec
INVARIANTS TypeOK NoSilentGap WaitsForPropagation
PROPERTIES AllImported RetriesEnd
