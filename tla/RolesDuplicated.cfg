SPECIFICATION Spec
CONSTANTS
    Ids = {r1}
    FirstVersion = 0
    Lag = 1
    MaxVersion = 1
    Origins = {"own", "foreign"}
    RetryCount = 1
    Replicas = 2
    MaxDeaths = 2
    MaxCrashes = 0
    MaxFaults = 0
INVARIANTS
    VersionMatchesContent
    NoResurrection
CHECK_DEADLOCK FALSE
