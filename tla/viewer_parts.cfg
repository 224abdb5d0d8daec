SPECIFICATION Spec
CONSTANTS
    NumPages = 3
    Hits <- TwoQueries
    MaxSearches = 3
    Scales = {"auto", "100"}
    MaxRequests = 5
    PrintPages = 3
    MaxPrints = 3
    Files = {"long", "short"}
    PageCount <- LongAndShort
    Locked = {"short"}
    Hashes <- SecondPage
    MaxOpens = 3
    Fingerprints = {"a", "b", "c", "d"}
    Memory = 3
    Tabs = {"s", "t"}
    MaxViews = 8
    Places <- ThreePlaces
    Leads <- Starts
    MaxTrips = 4
CHECK_DEADLOCK FALSE
INVARIANTS PartsTypeOK SearchIsRight ModesAreLeft DocumentIsOpen HistoryIsRight
PROPERTY PartsSettle
