SPECIFICATION MemorySpec
CONSTANTS
    Adders = {"a1", "a2", "a3"}
    Clearers = {"x1"}
    Summarisers = {"s1"}
    Importances = {0, 1}
    Sizes = {1, 2}
    Keep = 3
    SummaryFrom = 2
    Budget = 3
    MaxCrashes = 1
INVARIANT ContextAsCommented
CHECK_DEADLOCK FALSE
