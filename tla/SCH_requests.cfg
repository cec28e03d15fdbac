SPECIFICATION Spec
CONSTANTS
    Monitors = {m1}
    Clients = {c1}
    RowIds = {1}
    Ops <- AllOps
    Kinds <- AllKinds
    Policies <- BothPolicies
    Interval = 4
    CronPeriod = 4
    Jitter <- OneSecond
    TicksPerSecond = 2
    BatchSize = 2
    MaxTime = 10
    MaxRequests = 4
    MaxLatency = 2
CHECK_DEADLOCK FALSE
INVARIANTS
    ScheduleFollowsMonitor
PROPERTY SkippingKeepsInterval
