SPECIFICATION Spec
CONSTANTS
    MaxRuns = 3
    Channels = {c1}
    Failures = {2}
    Recoveries = {2}
    Outcomes = {"SUCCESS", "FAILED"}
    MaxAttempts = 2
    MaxChanges = 0
    MaxStrays = 0
    MaxRestarts = 0
CHECK_DEADLOCK FALSE
PROPERTY OpensAtThreshold
