SPECIFICATION MCSpec
CONSTANTS
    c1 = c1
    c2 = c2
    a1 = a1
    t1 = t1
    t2 = t2
    Chans = {c1, c2}
    Admins = {a1}
    Tasks = {t1, t2}
    Titles <- MCTitles
    Slug <- MCSlug
    Kinds = {"project", "research", "other"}
    Start <- MCStart
    None = None
    MaxSetups = 2
    MaxReplies = 3
    MaxFaults = 1
    x = x
    y = y
    h1 = h1
    h2 = h2
    Persons = {x, y}
    HasLid = {x}
    RosterIds = {ra, rb}
    Nobody = Nobody
    Handlers = {h1, h2}
    MaxCommands = 3
    MaxOutages = 1
SYMMETRY Symmetric
INVARIANTS
    AtMostOne
    InitiativeHasPage
    NoPageLost
    RowsAgree
PROPERTIES
    LinksStand
    WholePerson
CHECK_DEADLOCK FALSE
