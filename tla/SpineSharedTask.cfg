SPECIFICATION Spec
CONSTANTS
    Nobody = Nobody
    NoResult = NoResult
    Workers = {w1, w2}
    NSubs = 2
    MaxPlans = 1
    PlanOf <- OnePlan
    TaskOf <- OneTask
    KindOf <- ReadThenAuto
    Results = {r1, bad}
    ValidResults = {r1}
    Tags = {1}
    FirstTag = 1
    MaxAttempts = 2
    Deadline = FALSE
    MaxFaults = 1
SYMMETRY WorkerSymmetry
INVARIANTS
    EffectAtMostOnce
    StepsInOrder
    EffectAuthorized
    ToolEvidence
    SpineInv
CHECK_DEADLOCK FALSE
