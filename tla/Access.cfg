SPECIFICATION MCSpec
CONSTANTS
    Browsers = {b1, b2}
    Threads = {t1, t2}
    b0 = b0
    t0 = t0
    Admins = {b0}
    Customers = {c0}
    None = None
    ConfirmationTtl = 2
    MaximumItems = 1
    MaxReportTime = 2
    MaxReleases = 2
    Paths = {"disable"}
    DisablePath = "disable"
    ManagePath = "disable"
    Nothing = Nothing
    Ttl = 1
    Operations = {"login", "reauthenticate", "password", "disable"}
    Secrets = 1
    MaxTime = 2
    MaxVersion = 2
    MaxChallenges = 0
    MaxProofs = 1
    Keys = {b1, b2}
    Handlers = {t1, t2}
    NoAttempt = NoAttempt
    Limit = 1
    Window = 2
    MaximumKeys = 1
    MaxDelay = 1
    MaxLimiterTime = 5
    Passwords = {p1, p2, p3}
SYMMETRY Symmetric
CHECK_DEADLOCK FALSE
INVARIANTS
    CodesAreUsedOnce
    
    ChallengesAreSpentOnce
    ActionsFollowGrants
    ReportSessionsAreCurrent
    DisplayedOnce
    FailuresAreLimited
    RefusalsAreEarned
