SPECIFICATION HistorySpec
CONSTANTS
    Preloaded = 1
    MaxMessages = 5
    MaxTurns = 2
    MaxAttempts = 2
    MaxFailures = 1
    PendingCap = 2
    MaxFaults = 1
    Strategies = {"progressive_disclosure"}
    MaxRecent = 2
    None = none
INVARIANTS
    OnlyWhatWasSaid
CHECK_DEADLOCK FALSE
