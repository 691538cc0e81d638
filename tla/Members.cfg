SPECIFICATION Spec
CONSTANTS
    MemberIds = {m1}
    MaxStints = 2
    MaxVersion = 1
    MaxUpdates = 1
    Origins = {"own", "foreign"}
    MaxForeign = 1
    RetryCount = 1
    Replicas = 1
    MaxDeaths = 1
    MaxCrashes = 1
    MaxFaults = 1
INVARIANTS
    TypeOK
    LeftForGood
    MissingOnlyByRepeat
CONSTRAINT TwoExtras
CHECK_DEADLOCK FALSE
