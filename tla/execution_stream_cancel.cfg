SPECIFICATION ExecSpec
CONSTANTS
    r1 = r1  r2 = r2  r3 = r3
    s1 = s1  s2 = s2
    Requests = {r1}
    Calls <- TwoAttempts
    MaxProviderAttempts = 2
    Limited = {r1}
    Members = {r1}
    Streaming = {r1}
    WorkflowSlots = 1
    MaxInlineWait = 1
    Faults = {"cancel"}
    Scopes = {s1, s2}
    Settings <- PoolSettings
    CallerSettings <- OneAtATime
    Outcomes <- PoolOutcomes
    TokenRequests = {1}
    DayLength = 100
    StartTime = 1
    MaxTime = 2
    MaxCallTime = 5
INVARIANTS NothingAbandoned
CHECK_DEADLOCK FALSE
