SPECIFICATION HistorySpec
CONSTANTS
    c1 = c1  c2 = c2  c3 = c3  c4 = c4
    s1 = s1  s2 = s2
    Calls = {c1, c2, c3, c4}
    Scopes <- OneScope
    Settings <- LedgerSettings
    Outcomes <- LedgerOutcomes
    TokenRequests = {1, 2}
    DayLength = 100
    StartTime = 2
    MaxTime = 5
    MaxCallTime = 3
SYMMETRY CallSymmetry
INVARIANTS  EveryServedCallCharged BurstWithinTwiceLimit RetryHintSuffices
PROPERTIES CooldownHonoured
CHECK_DEADLOCK FALSE
