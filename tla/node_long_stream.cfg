SPECIFICATION NodeSpec
CONSTANTS
    r1 = r1  r2 = r2  s1 = s1  s2 = s2
    Requests = {r1, r2}
    Streaming = {r1, r2}
    Sticky = {}
    Scopes = {s1}
    ByScarcity <- OneAccount
    Settings <- ShortSettings
    CallerSettings <- UnlimitedCaller
    TokenRequests = {1}
    UsageReports <- NoRetry
    RetryAfters <- NoRetry
    UpstreamTimeout = 3
    Margin = 1
    TransportCooldown = 2
    TimerLag = 0
    MaxStreamTime <- Talkative
    DayLength = 100
    StartTime = 1
    LastStart = 8
    MaxTime = 8
    Faults = {}
INVARIANTS UpstreamCeiling
CHECK_DEADLOCK FALSE
