SPECIFICATION Spec
CONSTANTS
    e1 = e1
    e2 = e2
    e3 = e3
    Execs = {e1, e2, e3}
    Request <- OneRetry
    Group <- OneGroup
    Infos <- TwoPaths
    TTL = 1
    Interval = 1
    MaxEntries = 2
    MaxTime = 5
CHECK_DEADLOCK FALSE
INVARIANTS NeverFalseMatch
