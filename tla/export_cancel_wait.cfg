SPECIFICATION FairSpec
CONSTANTS
    Jobs = {e1, e2, b1}
    EventJobs = {e1, e2}
    MaxActive = 2
    MaxStored = 2
    MaxFaults = 0
    MaxHolds = 1
CHECK_DEADLOCK FALSE
PROPERTIES CancelFreesWorker
