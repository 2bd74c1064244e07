SPECIFICATION FairSpec
CONSTANTS
    Records = {r1, r2}
    MaxDay = 1
    QueueCap = 1
    BatchSize = 2
    MaxFaults = 1
    MaxCrashes = 0
    MaxConfigs = 1
    MaxDamage = 0
    ReplayMayFail = FALSE
PROPERTIES AcceptedReachesDisk
