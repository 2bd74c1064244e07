SPECIFICATION PriceSpec
CONSTANTS
    Catalogs = {u1, u2}
    Models = {m1, m2}
    RuleSets <- TimeRules
    PricePaths = {"data", "own"}
    DefaultPath = "data"
    LegacyPath = "root"
    LeftFiles <- Files
    Nothing = Nothing
    DayMinutes = 4
    Weekdays = {0, 1}
    Editions = {1, 2}
CHECK_DEADLOCK FALSE
PROPERTIES UneditedPricesKept
