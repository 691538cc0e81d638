SPECIFICATION Spec
CONSTANTS
    ann = ann
    bob = bob
    Users = {ann, bob}
    Requests = {q1}
    Relationships <- OneWay
    Replicas = 2
    MaxDeaths = 0
    MaxCrashes = 0
    MaxFaults = 0
INVARIANTS
    DeletedChannelGone
CHECK_DEADLOCK FALSE
