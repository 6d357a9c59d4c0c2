SPECIFICATION Spec
CONSTANTS
    Users = {x, y}
    Seeded = {x, y}
    Browsers = {b1, b2}
    Chosen = {p1}
    Temporary = {g1}
    SignedOut = SignedOut
    Threads = 2
    Handlers = {"editEmail", "resetPassword"}
    MaxVersion = 5
CHECK_DEADLOCK FALSE
INVARIANTS
    SignInsAreCurrent
