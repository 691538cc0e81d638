SPECIFICATION Spec
CONSTANTS
    Ids = {r1}
    FirstVersion = 0
    Lag = 1
    MaxVersion = 2
    Origins = {"own"}
    RetryCount = 2
    Replicas = 2
    MaxDeaths = 4
    MaxCrashes = 1
    MaxFaults = 1
INVARIANTS
    TypeOK
    VersionMatchesContent
    AppliedBeforeAck
    NoResurrection
    RetriesBounded
PROPERTIES
    IsVersionedCopy
CHECK_DEADLOCK FALSE
