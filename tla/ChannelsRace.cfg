SPECIFICATION Spec
CONSTANTS
    ann = ann
    bob = bob
    Users = {ann, bob}
    Requests = {q1, q2}
    Relationships <- None
    Replicas = 2
    MaxDeaths = 0
    MaxCrashes = 0
    MaxFaults = 0
INVARIANTS
    OneChannelPerList
CHECK_DEADLOCK FALSE
