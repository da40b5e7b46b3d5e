CONSTANTS
    n1 = n1
    e1 = e1
    nhtsa = nhtsa
    catalog = catalog
    NoJob = NoJob
    Workers <- MCWorkers
    EdgeWorkers <- MCEdgeWorkers
    Jobs <- MCJobs
    CatalogJobs <- MCCatalogJobs
    MaxAttempts = 2
    MaxFaults = 2
    MaxRefreshes = 1
SPECIFICATION FairSpec
INVARIANTS TypeOK CompletedStored AttemptsAccounted
PROPERTIES NewestClaimDecides JobsEnd
CHECK_DEADLOCK FALSE
