SPECIFICATION FairSpec
CONSTANTS
    Monitors = {m1, m2}
    Clients = {c1}
    RowIds = {1}
    Ops = {"configure", "disable", "abandon"}
    Kinds = {"INTERVAL"}
    Policies <- BothPolicies
    Interval = 4
    CronPeriod = 4
    Jitter <- NoJitter
    TicksPerSecond = 2
    BatchSize = 2
    MaxTime = 8
    MaxRequests = 3
    MaxLatency = 1
CHECK_DEADLOCK FALSE
INVARIANTS
    DueClaimable
PROPERTY DueRuns
