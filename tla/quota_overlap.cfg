SPECIFICATION QuotaSpec
CONSTANTS
    Observations <- LateHighReading
    Absent = Absent
    QMinute = 1
    DropTolerance = 2
    MaxSamples = 5
    RevocationRetention = 20
    FutureSlack = 5
    QuotaEnd = 25
    QuotaTicks = {8}
    MaxLogged = 1
    MaxDownloaded = 1
CHECK_DEADLOCK FALSE
INVARIANTS ShownDisjoint
