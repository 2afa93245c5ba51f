SPECIFICATION FairSpec
CONSTANTS
    p1 = p1
    p2 = p2
    Ids = {p1, p2}
    Tasks = {a1, a2}
    Human = Human
    Mixes <- MCMixes
    Merges = TRUE
    MaxFaults = 1
INVARIANTS
    ConfirmedIsThere
PROPERTIES
    Settles
CHECK_DEADLOCK FALSE
