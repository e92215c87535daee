CONSTANTS
    Importers = {p, q}
    old = old
    new = new
    boost = boost
    orphan = orphan
    Vaults = {old, new}
    Boosts = {boost, orphan}
    GovVaults = {new}
    Id <- MCId
    Pool <- MCPool
    V1Log <- MCV1Log
    Month <- MCMonth
    History <- MCHistory
    Edits <- MCEdits
    MaxCommits = 1
    MaxNow = 5
    MaxFaults = 1
    EolAfter = 0
SPECIFICATION FairSpec
INVARIANTS TypeOK EolDatesRight BoostsHaveVaults
PROPERTY ImportersFollowGit
