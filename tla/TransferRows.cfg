\* The chain is given: once all is imported there is nothing left to do.
CONSTANTS
    m = m
    w = w
    a = a
    c = c
    z = z
    None = None
    Products = {m, w}
    Owners = {a, c, z}
    Ignored = {z}
    MaxBlock = 2
    Created <- MCCreated
    Logs <- MCLogs
    Chains <- MCChains
    RecentBlocks = {2}
    MaxTake = 2
    MaxRecent = 1
    MaxFaults = 1
SPECIFICATION FairSpec
INVARIANTS TypeOK ImportedIsStored RowsAddUp DatesAgree BlocksToldOnce
PROPERTIES RowsStay EverythingStored
CHECK_DEADLOCK FALSE
