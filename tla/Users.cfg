SPECIFICATION FairSpec
CONSTANTS
    UserIds = {u1}
    MaxVersion = 3
    Origins = {"own"}
    RetryCount = 2
    Replicas = 1
    MaxDeaths = 4
    MaxCrashes = 1
    MaxFaults = 0
INVARIANTS
    OneBehindUpstream
PROPERTIES
    IsVersionedCopy
    InOrderUpdateLands
    EventsSettle
CHECK_DEADLOCK FALSE
