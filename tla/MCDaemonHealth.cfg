SPECIFICATION Safe
CONSTANTS
    c1 = c1
    c2 = c2
    Clients = {c1}
    QueueCapacity = 1
    two = two
    one = one
    bad = bad
    Docs = {two, one, bad}
    JobCount <- MCJobCount
INVARIANTS
    TypeOK
    DrainNeverHealthy
    MarkerTruthful
    RecordHonest
    HeartbeatMeansComplete
    AdvisedOnce
PROPERTIES
    CutPassLeavesNoTrace
