SPECIFICATION Spec
CONSTANTS
    Nobody = Nobody
    NoResult = NoResult
    Workers = {w1}
    NSubs = 2
    MaxPlans = 1
    PlanOf <- OnePlan
    TaskOf <- OneRowPerTask
    KindOf <- AllAgent
    Results = {r1}
    ValidResults = {r1}
    Tags = {1, 2}
    FirstTag = 1
    MaxAttempts = 2
    Deadline = FALSE
    MaxFaults = 0
INVARIANT
    ResumedWorkAccepted
CHECK_DEADLOCK FALSE
