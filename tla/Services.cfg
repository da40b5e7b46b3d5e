SPECIFICATION ServicesSpec
CONSTANTS
    s1 = s1
    s2 = s2
    s3 = s3
    t1 = t1
    t2 = t2
    t3 = t3
    x1 = x1
    x2 = x2
    p1 = p1
    p2 = p2
    p3 = p3
    p4 = p4
    Submissions = {s1, s2, s3}
    ObjectiveOf <- MCObjective
    TokensOf <- MCTokens
    Limits = {1, 2}
    Nobody = Nobody
    Batch <- MCBatch
    Hands = {h1, h2}
    RetrySafe = {t1}
    Malformed = {t3}
    MaxRetries = 1
    MaxBatches = 2
    Reviews = {r1, r2, r3}
    Codes = {x1, x2}
    Paths = {f1, f2}
    NoFile = NoFile
    Slots = 2
    Dispatched = {o1}
    Calls = {c1, c2}
    Commands = {k1, k2}
    Spoken = {k2}
    NoOrgan = NoOrgan
    Pages <- MCPages
    Seed = p1
    Webs <- MCWebs
    Fanout = 2
    MaxDepth = 2
    MaxPages = 3
    Browsers = {b1, b2, b3}
    Visitors = {v1, v2, v3}
    NoBrowser = NoBrowser
    Runners = {n1, n2}
    MaxRounds = 2
    MaxTasks = 4
    MaxResumes = 1
    Attempts = 2
    Kept = 2
    MaxSamples = 4
    Deeds = {d1, d2}
    Seeded = d1
    Listed = 2
INVARIANTS
    AcceptedUnchanged
    DispatchedOnce
    ReviewedOnce
    IsolationShown
    CommandsTold
    BreadthFirst
    BrowsersAccounted
    SuccessJudged
    RoundsCounted
    SamplesStored
    DecisionsGrounded
CHECK_DEADLOCK FALSE
