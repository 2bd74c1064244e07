SPECIFICATION PartsSpec
CONSTANTS
    Records = {r1, r2}
    MaxDay = 2
    QueueCap = 1
    BatchSize = 2
    MaxFaults = 1
    MaxCrashes = 1
    MaxConfigs = 2
    MaxDamage = 1
    ReplayMayFail = FALSE
    Content <- MCContent
    Names <- MCNames
    Attempts = {a1, a2}
    Clocks = {1, 2}
    StageUnits = 13
    Rewrites = {"emptied"}
    BatchSizes = {9}
    MaxWrites = 1
    MaxSpoils = 1
    None = None
    Callers = {c1, c2}
    Files = {f1, f2}
    LineOf <- MCLineOf
    OtherIdentity = "other"
    Large = {"long", "huge"}
    PageBytes = 2
    Limits = {2}
    Queries <- MCQueries
    Directories = {b1}
    MaxGeneration = 3
    MaxRot = 1
    BackupGenerations = 2
    Missing = Missing
    Rotten = Rotten
SYMMETRY PartsSymmetry
INVARIANTS TypeOK CountedOnce HiddenShardsCovered LedgerCoversDisk CloseSavesLedger ProjectionMeansSource CatalogCountsOnce LedgerSound PagesComplete
PROPERTIES DurableNeverShrinks UnreadableSnapshotUntouched ImplementsLedger
