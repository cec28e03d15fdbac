SPECIFICATION FairSpec
CONSTANTS
    Runs = {r1}
    MaxConcurrency = 1
    r1 = r1
    r2 = r2
    Journey <- CheckoutAndPing
    SlotsPerRun = 3
    StartTargets <- GoodAndPrivate
    Unrestricted = FALSE
    AllowPrivate = FALSE
    PurgeLimit = 2
    Workers = 1
    MaxFaults = 1
    MaxHistory = 2
CHECK_DEADLOCK FALSE
INVARIANTS CapacityExact VerdictMatchesEvidence ArtifactsBacked
PROPERTIES  RunsEnd OrphansPurged
