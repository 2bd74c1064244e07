SPECIFICATION RequestSpec
CONSTANTS
    e1 = e1
    e2 = e2
    e3 = e3
    Execs = {e1, e2, e3}
    Request <- OneRetry
    Group <- OneGroup
    Infos <- TwoPaths
    TTL = 1
    Interval = 1
    MaxEntries = 2
    MaxTime = 5
    Catalogs = {u1, u2}
    Models = {m1}
    RuleSets <- TimeRules
    PricePaths = {"data", "own"}
    DefaultPath = "data"
    LegacyPath = "root"
    LeftFiles <- Files
    Nothing = Nothing
    DayMinutes = 4
    Weekdays = {0, 1}
    Editions = {1, 2}
CHECK_DEADLOCK FALSE
INVARIANTS TruthfulUnlessSpanning ReportFindsItsOwn
    CatalogMatchesSettings CostsCurrent OneRuleApplies
