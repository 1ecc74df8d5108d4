SPECIFICATION Spec
CONSTANTS
    d1 = d1  d2 = d2  w1 = w1  w2 = w2
    alice = alice  bob = bob  coding = coding  batch = batch  model = model
    CallOutcomes <- MCCallOutcomes
    WorkflowOutcomes <- MCWorkflowOutcomes
    Retention = 1
    MaxTime = 2
    MaxTaught = 2
    Units = 12
INVARIANTS PosteriorsAreCounts ForecastIsExact
PROPERTIES LearnOnceWithinRetention EstimatesFollowOutcomes
CHECK_DEADLOCK FALSE
