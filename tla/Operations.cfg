SPECIFICATION MCSpec
CONSTANTS
    p1 = p1
    p2 = p2
    Processes = {p1, p2}
    MaxCrashes = 3
    MaxCommits = 2
    MaxFaults = 3
    part1 = part1
    part2 = part2
    NoTag = NoTag
    NoRequest = NoRequest
CHECK_DEADLOCK FALSE
INVARIANTS
    MarkerMatchesSchema
    ServingMeansReady
    DataRecoverable
    BackupsAreComplete
    RotationIsAllOrNothing
PROPERTIES
    ServesAtLast
    BrowsersCatchUp
