SPECIFICATION FairSpec
CONSTANTS
    t1 = t1
    Threads = {t1}
    Chatter = chatter
    Nowhere = nowhere
    Verbs = {"watch", "logs", "unwatch", "ingest", "other"}
    Lively = {"message", "reaction"}
    MaxRows = 2
    MaxEdits = 1
    MaxCommands = 1
    OldAge = 1
    QuietAge = 1
    BatchN = 2
    MaxDrain = 2
    Merges = TRUE
    MaxTouches = 0
    MaxFaults = 1
    MaxCrashes = 0
PROPERTIES
    EventuallyConsumed
CHECK_DEADLOCK FALSE
