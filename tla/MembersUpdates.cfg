SPECIFICATION Spec
CONSTANTS
    MemberIds = {m1}
    MaxStints = 1
    MaxVersion = 1
    MaxUpdates = 1
    Origins = {"own"}
    MaxForeign = 0
    RetryCount = 1
    Replicas = 1
    MaxDeaths = 2
    MaxCrashes = 0
    MaxFaults = 0
INVARIANTS
    AckedUpdateStored
CHECK_DEADLOCK FALSE
