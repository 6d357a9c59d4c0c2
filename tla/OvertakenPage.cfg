SPECIFICATION Spec
CONSTANTS
    Parts = {p1}
    Kind = "page"
    AuditMayFail = FALSE
    NoTag = NoTag
    NoRequest = NoRequest
    MaxWrites = 1
CHECK_DEADLOCK FALSE
PROPERTIES
    CatchesUp
