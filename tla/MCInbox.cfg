SPECIFICATION MCSpec
CONSTANTS
    t1 = t1
    t2 = t2
    Subjects = {t1, t2}
    Calls <- MCCalls
    NoSubject = NoSubject
    Messages = {1, 2}
    Writers = {w1, w2}
    WriteAttempts = 2
    MaxRevision = 3
    Window = 1
    MaxSaid = 2
    MaxRows = 2
    MaxChatFaults = 1
INVARIANTS
    OneAnswerEach
PROPERTIES
    Heard
    NothingOverwritten
    Implements
CHECK_DEADLOCK FALSE
