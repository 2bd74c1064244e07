SPECIFICATION PartsSpec
CONSTANTS
    Jobs = {e1, e2, b1}
    EventJobs = {e1, e2}
    MaxActive = 2
    MaxStored = 2
    MaxFaults = 1
    MaxHolds = 1
    Items <- MCItems
    Eligible = {"old", "nat", "ans", "evic"}
    Earlier <- MCEarlier
    Doubled = {"old"}
    Truncated = {"evic"}
    At <- MCAt
    NativeOf <- MCNativeOf
    CopyOf <- MCCopyOf
    MaxVisible = 1
    Retentions = {0, 2}
    PeriodStart = 1
    Unset = Unset
    NoFile = NoFile
    Backups <- MCBackups
    OldRows <- MCOldRows
    MaxMoves = 2
    LedgerEnd = 3
CHECK_DEADLOCK FALSE
INVARIANTS CapacityHeld SucceededHasFile NoOrphanFiles CountersMatch EachCountedOnce ExpiryKnown FactsFollow SnapshotAccepted
PROPERTIES OutcomeFinal JobSettles CloseReturns
