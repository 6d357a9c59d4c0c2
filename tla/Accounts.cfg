SPECIFICATION MCSpec
CONSTANTS
    Users = {x, y}
    Seeded = {x}
    Browsers = {b1, b2}
    Chosen = {p1, p2}
    Temporary = {g1, g2}
    SignedOut = SignedOut
    AnyPassword = p0
    Threads = 1
    Handlers = {"newUser", "resetPassword", "disableUserTotp", "wipePasskeys", "toggleAdmin", "changePassword", "setupTotp", "confirmTotp", "disableTotp"}
    MaxVersion = 4
SYMMETRY Symmetric
CHECK_DEADLOCK FALSE
INVARIANTS
    EnabledAdminRemains
    OlderSignInsEnd
PROPERTIES
    TemporaryPasswordsAreChanged
    MemberTransactions
