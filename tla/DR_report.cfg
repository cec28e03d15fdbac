SPECIFICATION FairSpec
CONSTANTS
    api = api
    journey = journey
    hosts = hosts
    logs = logs
    Checks = {api, journey, hosts, logs}
    Suites = {{api}, {journey}, {hosts}, {logs}}
    Kind <- KindOf
    Required = {api, hosts}
    RunOutcomes = {"SUCCESS", "FAILED", "CANCELLED"}
    SampleCount = 1
    MinimumSamples = 1
    MaxFaults = 1
CHECK_DEADLOCK FALSE
INVARIANTS BlockExplained
PROPERTIES EvidenceKept ShownEnds
