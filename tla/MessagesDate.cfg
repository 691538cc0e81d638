SPECIFICATION Spec
CONSTANTS
    PrivateChannels = {dm}
    ServerChannels = {}
    Sends = {s1, s2}
    Edits = {}
    Deletes = {}
    Bodies <- NoBody
    FirstBodies <- Plain
    NoContent = NoContent
    UserTags = {ann}
    HereTags = {here}
    TypedFiles = {image}
    ann = ann
    here = here
    image = image
    Readers = {}
    Limits <- NoLimits
    MaxDay = 3
    MaxFailures = 0
INVARIANTS
    DateIsLatest
CHECK_DEADLOCK FALSE
