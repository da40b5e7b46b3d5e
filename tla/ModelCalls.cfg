SPECIFICATION Spec
CONSTANTS
    Nobody = Nobody
    Callers = {c1, c2}
    Maxima = {2, 3}
    MaxRuns = 3
    Configured = {"groq", "cloudflare"}
    NModels = 2
    FirstModel = 1
    MaxRetries = 2
    Overhead = 0
    Outputs = {1, 2}
SYMMETRY CallerSymmetry
INVARIANTS
    TypeOK
    LedgerAgrees
    DispatchesReserved
    DispatchesBounded
CHECK_DEADLOCK FALSE
