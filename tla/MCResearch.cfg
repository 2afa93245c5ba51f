SPECIFICATION ResearchSpec
CONSTANTS
    u1 = u1
    u2 = u2
    p1 = p1
    common = common
    Hourly = {hourly}
    Periodic = {periodic}
    URLs = {u1, u2}
    Projects = {p1}
    Common = common
    Feed = Feed
    ByHand <- MCByHand
    FeedSize = 1
    MaxPicks = 2
    MaxTroubles = 2
INVARIANTS
    CalmPromise
PROPERTIES
    NeverAddedAgain
    DigestIsHandled
CHECK_DEADLOCK FALSE
