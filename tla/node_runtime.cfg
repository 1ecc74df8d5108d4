SPECIFICATION NodeFairSpec
CONSTANTS
    r1 = r1  r2 = r2  s1 = s1  s2 = s2
    Requests = {r1, r2}
    Streaming = {r1}
    Sticky = {r1, r2}
    Scopes = {s1, s2}
    ByScarcity <- TwoAccounts
    Settings <- AccountSettings
    CallerSettings <- UnlimitedCaller
    TokenRequests = {2}
    UsageReports <- Usage
    RetryAfters <- Retries
    UpstreamTimeout = 2
    Margin = 1
    TransportCooldown = 2
    TimerLag = 1
    MaxStreamTime <- SilentInTime
    DayLength = 4
    StartTime = 2
    LastStart = 3
    MaxTime = 5
    Faults = {"busy"}
INVARIANTS UpstreamCeiling  EndedHoldsNothing LedgersAgree
PROPERTIES SilentUpstreamsEnd
CHECK_DEADLOCK FALSE
