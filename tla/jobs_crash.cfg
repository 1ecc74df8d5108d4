SPECIFICATION ServedSpec
CONSTANTS
    j1 = j1  j2 = j2  j3 = j3
    Jobs = {j1, j2}
    MaxAttempts = 2
    RetryAfters = {1}
    Fallback = 2
    Retention = 1
    Crashes = 1
PROPERTIES EveryJobSettles
