SPECIFICATION Spec
CONSTANTS
    m1 = m1
    m2 = m2
    p1 = p1
    Repairs <- MCRepairs
    Releases <- MCReleases
    Root = Root
    None = None
    HourLimit = 1
    DayLimit = 1
    ScanLimit = 1
INVARIANTS
    PromotionsKept
CHECK_DEADLOCK FALSE
