SPECIFICATION Spec
CONSTANTS
    Jobs = {j1}
    Monitors = {m1}
    Workers = {w1, w2}
    Slots = {t1, t2}
    ManualSlots = 2
    Kinds <- RecoveryKinds
    NoJob = NoJob
    NoWorker = NoWorker
    MaxCrashes = 1
    MaxStalls = 1
    MaxDbErrors = 1
CHECK_DEADLOCK FALSE
SYMMETRY Symmetry
INVARIANTS
    NonIdempotentNotReplayed
    TerminalEffectsOnce
PROPERTY ImplementsLeasedQueue
