SPECIFICATION Spec
CONSTANTS
    t1 = t1
    t2 = t2
    Threads = {t1, t2}
    Chatter = chatter
    Nowhere = nowhere
    Verbs = {"ingest"}
    Lively = {"message"}
    MaxRows = 3
    MaxEdits = 2
    MaxCommands = 1
    OldAge = 0
    QuietAge = 0
    BatchN = 2
    MaxDrain = 1
    Merges = FALSE
    MaxTouches = 2
    MaxFaults = 2
    MaxCrashes = 1
SYMMETRY Symmetry
CONSTRAINT Disturbed
INVARIANTS
    ConsumedWasRead
    WrittenOnce
PROPERTIES
    EndedStaysClosed
CHECK_DEADLOCK FALSE
