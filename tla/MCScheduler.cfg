SPECIFICATION FairSpec
CONSTANTS
    ingest = ingest
    backfill = backfill
    project = project
    ingestKey = ingestKey
    projectKey = projectKey
    Jobs = {backfill, project}
    Keys = {ingestKey, projectKey}
    Loop = loop
    Clients = {c1, c2}
    LockKey <- MCLockKey
    OnDemandKey = ingestKey
    Interval <- MCInterval
    MaxRetries = 1
    NameRank <- MCNameRank
    RegRank <- MCRegRank
    MaxAge = 1
    MaxCrashes = 1
    MaxHealth = 1
    NoJob = NoJob
    Never = Never
INVARIANTS
    MutualExclusion
    OpenRowIsRunning
PROPERTIES
    DueJobRuns
    RequestedJobRuns
