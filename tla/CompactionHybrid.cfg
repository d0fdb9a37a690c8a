SPECIFICATION HistorySpec
CONSTANTS
    Preloaded = 1
    MaxMessages = 5
    MaxTurns = 2
    MaxAttempts = 2
    MaxFailures = 1
    PendingCap = 2
    MaxFaults = 1
    Strategies = {"hybrid"}
    MaxRecent = 2
    None = none
INVARIANTS
    NoneLost
CHECK_DEADLOCK FALSE
