SPECIFICATION Spec
CONSTANTS
    Records = {r1, r2, r3}
    MaxDay = 1
    QueueCap = 1
    BatchSize = 2
    MaxFaults = 0
    MaxCrashes = 1
    MaxConfigs = 2
    MaxDamage = 0
    ReplayMayFail = FALSE
PROPERTIES FlushedLinesSurvive
