SPECIFICATION Spec
CONSTANTS
    Nobody = Nobody
    NoResult = NoResult
    Workers = {w1}
    NSubs = 2
    MaxPlans = 1
    PlanOf <- OnePlan
    TaskOf <- OneRowPerTask
    KindOf <- ManualThenAgent
    Results = {r1, bad}
    ValidResults = {r1}
    Tags = {1, 2}
    FirstTag = 1
    MaxAttempts = 2
    Deadline = TRUE
    MaxFaults = 2
INVARIANTS
    TypeOK
    SuccessIsComplete
    AttemptsBounded
    FinalEvidence
PROPERTIES
    ActionsGoverned
CHECK_DEADLOCK FALSE
