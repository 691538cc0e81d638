SPECIFICATION FairSpec
CONSTANTS
    ann = ann
    bob = bob
    Users = {ann, bob}
    Requests = {q1}
    Relationships <- OneWay
    Replicas = 2
    MaxDeaths = 0
    MaxCrashes = 2
    MaxFaults = 1
INVARIANTS
    TypeOK
    OneChannelPerAcceptance
    ReturnedIsAnnounced
PROPERTIES
    AcceptedHasChannel
    DeletesSettle
CHECK_DEADLOCK FALSE
