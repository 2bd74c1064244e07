SPECIFICATION LedgerSpec
CONSTANTS
    Values = {x, y}
    Blank = blank
    Views = {w1}
    Arrays = {1, 2, 3, 4, 5}
    BlockRecords = 2
    GroupRecords = 2
    GroupMin = 1
    MaxCount = 4
    Observations <- ResetsAndRevocations
    Absent = Absent
    QMinute = 1
    DropTolerance = 2
    MaxSamples = 5
    RevocationRetention = 20
    FutureSlack = 5
    QuotaEnd = 25
    QuotaTicks = {8}
    MaxLogged = 1
    MaxDownloaded = 1
    r1 = r1
    r2 = r2
    r3 = r3
    r4 = r4
    here = here
    there = there
    Requests = {r1, r2, r3, r4}
    Nobody = Nobody
    Everything = Everything
    TimeOf <- MinuteOf
    FilterOf <- SourceOf
    Plain <- PlainFilters
    EventQueries <- ListQueries
    Summaries <- SummaryQueries
    DetailPages <- DetailQueries
    RecentLimit = 1
    Restored <- RestoredArrays
    VisibleLimits = {2, 3}
    KeepFor = 2
    QueueMax = 1
    PageMax = 1
    SummaryMax = 1
    BlockRows = 2
    BlockLeast = 1
    Compactable = 4
    Minutes = 4
    MaxRepairs = 1
    MaxReprices = 1
SYMMETRY Symmetry
CHECK_DEADLOCK FALSE
INVARIANTS
    TypeOK AggregatesCurrent
    LiveWindowLoads BoundaryShared RevocationHolds CompactionKeepsReset OwnBackupNeutral
    EventsCurrent RangesCurrent
PROPERTIES ImplementsFrozenLedger
