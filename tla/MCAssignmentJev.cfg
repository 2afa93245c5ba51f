SPECIFICATION AssignSpec
CONSTANTS
    t1 = t1
    Modes = {"jev"}
    Batches <- MCInTime
    Open <- MCOpen
    Stale <- MCStale
    OnPage <- MCOnPage
    None = None
    CHATTER = CHATTER
    NEW_THREAD = NEW_THREAD
    Unknown = Unknown
    MaxNew = 2
    MaxPerCall = 2
    TotalBudget = 6
INVARIANT EveryMessagePlaced
CHECK_DEADLOCK FALSE
