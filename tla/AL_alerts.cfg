SPECIFICATION FairSpec
CONSTANTS
    MaxRuns = 3
    Channels = {c1}
    Failures = {1, 2}
    Recoveries = {2}
    Outcomes = {"SUCCESS", "FAILED"}
    MaxAttempts = 2
    MaxChanges = 2
    MaxStrays = 1
    MaxRestarts = 1
CHECK_DEADLOCK FALSE
INVARIANTS
    FailingHasAlert
    RecoveredHasNoAlert
PROPERTY NewsEnds
