SPECIFICATION Spec
CONSTANTS
    c1 = c1  c2 = c2  c3 = c3  c4 = c4
    s1 = s1  s2 = s2
    Calls = {c1, c2, c3}
    Scopes <- PoolScopes
    Settings <- PoolSettings
    Outcomes <- PoolOutcomes
    TokenRequests = {1, 2}
    DayLength = 3
    StartTime = 4
    MaxTime = 7
    MaxCallTime = 1
SYMMETRY CallSymmetry
INVARIANTS   NoDoubleCharge
PROPERTIES ImplementsPool
CHECK_DEADLOCK FALSE
