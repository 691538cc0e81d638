SPECIFICATION Spec
CONSTANTS
    ann = ann
    bob = bob
    here = here
    there = there
    mods = mods
    guests = guests
    q1 = q1
    q2 = q2
    NoServer = NoServer
    RoleIds = {mods, guests}
    MaxVersion = 1
    Permits <- Grants
    Users = {ann, bob}
    Servers = {here, there}
    Memberships <- MayJoin
    FirstChannels <- AtFirst
    Requests = {q1, q2}
    Questions <- MayAsk
    MaxWrites = 2
INVARIANTS
    TypeOK
    GrantGrounded
    DenialGrounded
    ParentsStand
CHECK_DEADLOCK FALSE
