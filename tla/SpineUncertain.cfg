SPECIFICATION Spec
CONSTANTS
    Nobody = Nobody
    NoResult = NoResult
    Workers = {w1}
    NSubs = 1
    MaxPlans = 1
    PlanOf <- OnePlan
    TaskOf <- OneRowPerTask
    KindOf <- AllRead
    Results = {r1}
    ValidResults = {r1}
    Tags = {1}
    FirstTag = 1
    MaxAttempts = 2
    Deadline = FALSE
    MaxFaults = 0
INVARIANT
    UncertainReconcilable
CHECK_DEADLOCK FALSE
