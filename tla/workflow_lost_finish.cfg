SPECIFICATION FairSpec
CONSTANTS
    c1 = c1  c2 = c2  c3 = c3  c4 = c4
    p1 = p1  p2 = p2
    Calls = {c1, c2}
    Providers = {p1}
    TokenAmounts = {0}
    MaxCalls = 2
    MaxConcurrency = 1
    Deadlines <- AlwaysDeadline
    Retention = 1
    RecheckDelay = 1
    Faults = {"finish"}
PROPERTIES DeadlineEnforced
