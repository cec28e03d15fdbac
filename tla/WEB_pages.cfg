SPECIFICATION Spec
CONSTANTS
    Offered = {"MONITOR", "ELF_QUERY", "DYNATRACE_INFRASTRUCTURE"}
    Bound = FALSE
    MaxStages = 2
    MaxChecks = 2
    MaxEdits = 5
    SuiteNames = {s1, s2}
    MaxSuiteRuns = 2
    a1 = a1
    a2 = a2
    b1 = b1
    old = old
    Runs <- MCRuns
    Past = {old}
    PageOf <- MCPageOf
    Outcomes <- MCOutcomes
    MaxExecuted = 2
    LoopsAllowed = FALSE
    MaxLoads = 2
INVARIANTS ShowsItsRun FailureTraceable
PROPERTIES FollowedToEnd FinalStatusShown
CHECK_DEADLOCK FALSE
