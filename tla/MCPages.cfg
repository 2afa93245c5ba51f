SPECIFICATION MCSpec
CONSTANTS
    h1 = h1
    h2 = h2
    i1 = i1
    i2 = i2
    Order <- MCOrder
    Owner <- MCOwner
    Alias <- MCAlias
    Humans = {h1}
    BlockIds = {i1, i2}
    MaxWrites = 2
    MaxEdits = 2
    Kinds = {"task"}
    Texts = {"t", "u"}
    Digest <- MCDigest
    Forgotten = Forgotten
    MaxItems = 3
    MaxRevisions = 2
    t1 = t1
    Modes = {"worker", "jev"}
    Batches <- MCBatches
    Open <- MCOpen
    Stale <- MCStale
    OnPage <- MCOnPage
    None = None
    CHATTER = CHATTER
    NEW_THREAD = NEW_THREAD
    Unknown = Unknown
    MaxNew = 2
    MaxPerCall = 2
    TotalBudget = 6
    co = co
    g1 = g1
    g2 = g2
    k1 = k1
    k2 = k2
    Groups = {co, g1, g2}
    Coordis = co
    DirsOf <- MCDirsOf
    Readers = {r}
    Privileged = {}
    Areas = {"e", "j"}
    Nowhere = Nowhere
    Checks = {k1, k2}
    TTL = 2
    MaxTime = 4
    MaxMoves = 1
    MaxLookupFaults = 1
SYMMETRY Symmetric
INVARIANTS
    RoundTrip
    ItemsHaveIdentity
    IdentityIsKept
    NothingDropped
    RepliesFollow
    NewThreadsAreNamed
PROPERTIES
    HumanTextKept
    VerdictIsRecent
CHECK_DEADLOCK FALSE
