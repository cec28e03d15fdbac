SPECIFICATION FairSpec
CONSTANTS
    Jobs = {j1}
    Monitors = {m1}
    Workers = {w1}
    Slots = {t1}
    ManualSlots = 2
    Kinds <- SafeOnly
    NoJob = NoJob
    NoWorker = NoWorker
    MaxCrashes = 1
    MaxStalls = 0
    MaxDbErrors = 0
CHECK_DEADLOCK FALSE
PROPERTY RunsEnd
