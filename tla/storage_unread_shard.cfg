SPECIFICATION Spec
CONSTANTS
    Records = {r1, r2}
    MaxDay = 2
    QueueCap = 1
    BatchSize = 2
    MaxFaults = 1
    MaxCrashes = 1
    MaxConfigs = 2
    MaxDamage = 0
    ReplayMayFail = TRUE
PROPERTIES DurableNeverShrinks
