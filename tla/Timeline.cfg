SPECIFICATION Spec
CONSTANTS
    PrivateChannels = {dm}
    ServerChannels = {room}
    Sends = {s1, s2}
    Edits = {}
    Deletes = {d1}
    Bodies <- NoBody
    FirstBodies <- Plain
    NoContent = NoContent
    UserTags = {ann}
    HereTags = {here}
    TypedFiles = {image}
    ann = ann
    here = here
    image = image
    Readers = {r1}
    Limits <- SomeLimits
    MaxDay = 2
    MaxFailures = 0
SYMMETRY Alike
INVARIANTS
    DateIsGreatest
    PagesAscend
    PagesComplete
CHECK_DEADLOCK FALSE
