SPECIFICATION PathSpec
CONSTANTS
    Draws = 12
    Sampled = {0, 11}
    TokensPerCall = 1
    MaxLines = 2
    NvidiaModels <- MCNvidiaModels
    DiagnosticModels <- MCDiagnosticModels
    Bodies <- MCBodies
    Histories <- MCHistories
    Progress <- MCProgress
    Configurations <- MCConfigurations
    Requests <- MCRequests
    Headrooms <- MCHeadrooms
    Statistics <- MCStatistics
    Controls <- MCControls
    Lines <- MCLines
    Ranked <- MCRanked
    MaxRanked = 3
    WorkflowCalls <- MCWorkflowCalls
INVARIANTS HistoryOnlyFillsIn ContractServed RightAccount FitDominates EvaluationUnbiased
INVARIANTS StreamJudgedAsWhole NoReasoningForwarded CancelledIsNoSuccess
CHECK_DEADLOCK FALSE
