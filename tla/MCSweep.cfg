SPECIFICATION Spec
CONSTANTS
    a = a
    b = b
    None = None
    Channels = {a, b}
    Initially = {a}
    BatchN = 1
    MaxPending = 2
    MaxMessages = 2
    MaxCalls = 2
    MaxFaults = 2
    MaxAdmin = 3
INVARIANTS
    AccountsAgree
PROPERTIES
    BackfillIsKept
    CaughtUp
