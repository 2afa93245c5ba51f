SPECIFICATION FairSpec
CONSTANTS
    MaxSlug = 2
    MaxBuckets = 3
    Merges = TRUE
    MaxHuman = 2
    MaxFaults = 1
INVARIANTS
    NothingClobbered
    IdsAreUnique
PROPERTIES
    Archived
    LivesOneLife
CHECK_DEADLOCK FALSE
