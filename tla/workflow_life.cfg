SPECIFICATION FairSpec
CONSTANTS
    c1 = c1  c2 = c2  c3 = c3  c4 = c4
    p1 = p1  p2 = p2
    Calls = {c1, c2, c3, c4}
    Providers = {p1, p2}
    TokenAmounts = {0, 1}
    MaxCalls = 3
    MaxConcurrency = 2
    Deadlines <- MCDeadlines
    Retention = 1
    RecheckDelay = 1
    Faults = {"finish", "rpc", "early"}
INVARIANTS LeasesCounted LimitsKept TerminalHasNoOpenCalls LearnersAgree
PROPERTIES TerminalIsFinal OnlyLeaksOutlastDeadline OutcomeRecorded
