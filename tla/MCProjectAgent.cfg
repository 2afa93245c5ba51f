SPECIFICATION AgentFairSpec
CONSTANTS
    Subjects = {t1, t2}
    NoSubject = NoSubject
    NoItem = NoItem
    Messages = {1, 2}
    Calls <- MCCalls
    ingest = ingest
    agent = agent
    Writers = {ingest, agent}
    WriteAttempts = 3
    MaxRevision = 20
    OnDemand = FALSE
    MaxMaterial = 2
    MaxFaults = 2
INVARIANTS
    NothingForgotten
PROPERTIES
    Delivered
CHECK_DEADLOCK FALSE
