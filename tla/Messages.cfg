SPECIFICATION Spec
CONSTANTS
    PrivateChannels = {dm}
    ServerChannels = {}
    Sends = {s1, s2}
    Edits = {e1, e2}
    Deletes = {d1}
    Bodies <- AnyBody
    FirstBodies <- Plain
    NoContent = NoContent
    UserTags = {ann}
    HereTags = {here}
    TypedFiles = {image}
    ann = ann
    here = here
    image = image
    Readers = {}
    Limits <- NoLimits
    MaxDay = 0
    MaxFailures = 1
SYMMETRY Alike
INVARIANTS
    TypeOK
    MentionsMatchContent
    ArraysOfOneCall
    DeletedForGood
    SilentOnlyAfterFailure
CHECK_DEADLOCK FALSE
