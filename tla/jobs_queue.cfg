SPECIFICATION FairSpec
CONSTANTS
    j1 = j1  j2 = j2  j3 = j3
    Jobs = {j1, j2, j3}
    MaxAttempts = 2
    RetryAfters = {0, 3}
    Fallback = 2
    Retention = 1
    Crashes = 1
INVARIANTS AlarmCoversQueue
PROPERTIES EveryJobRuns OnlyRestartsStrand
