\* Two products; every limit is reached by some run.
CONSTANTS
    p = p
    q = q
    Products = {p, q}
    Importers = {"investments", "share rates", "statistics", "prices"}
    MaxBlock = 5
    Created <- MCCreated
    MaxSpan = 4
    MaxAddresses = 2
    MaxQueries = 2
    SnapshotBlocks = 2
    RecentSpan = 1
    MaxRecent = 2
    MaxFaults = 1
SPECIFICATION FairSpec
INVARIANTS RowsMerged PlannedOnce WithinLimits
PROPERTIES ImplementsCoverage EverythingImported
