SPECIFICATION FairSpec
CONSTANTS
    Nobody = Nobody
    NoResult = NoResult
    Workers = {w1, w2}
    NSubs = 2
    MaxPlans = 2
    PlanOf <- PlanPerRow
    TaskOf <- OneRowPerTask
    KindOf <- AllAgent
    Results = {r1, r2}
    ValidResults = {r1, r2}
    Tags = {1}
    FirstTag = 1
    MaxAttempts = 1
    Deadline = TRUE
    MaxFaults = 1
PROPERTIES
    Settles
    CompletedStepsRetained
CHECK_DEADLOCK FALSE
