SPECIFICATION FairSpec
CONSTANTS
    Jobs = {j1, j2}
    Monitors = {m1}
    Workers = {w1}
    Slots = {t1}
    ManualSlots = 2
    Kinds <- WaitingKinds
    NoJob = NoJob
    NoWorker = NoWorker
    MaxCrashes = 1
    MaxStalls = 1
    MaxDbErrors = 0
CHECK_DEADLOCK FALSE
PROPERTY JobsSettle
