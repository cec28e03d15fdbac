SPECIFICATION Spec
CONSTANTS
    Jobs = {j1, j2}
    Monitors = {m1}
    Workers = {w1, w2}
    Slots = {t1}
    ManualSlots = 2
    Kinds <- ContendingKinds
    NoJob = NoJob
    NoWorker = NoWorker
    MaxCrashes = 2
    MaxStalls = 0
    MaxDbErrors = 0
CHECK_DEADLOCK FALSE
SYMMETRY Symmetry
INVARIANTS
    OneLeasePerMonitor
    NoRunLeftActive
    EffectMatchesRun
