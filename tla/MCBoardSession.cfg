SPECIFICATION Spec
CONSTANTS
    Devices = {"front", "rear"}
    Views <- MCViews
    Boards = {0, 20}
    Steps <- MCSteps
    Start <- MCStart
    Required = 4
    MoveCm = 2
    MoveDeg = 2
    AgreeCm = 3
    AgreeDeg = 2
    MaxResidual = 20
    MinCorners = 8
    MinCoverage = 2
    MaxGravity = 12
    MaxMoves = 1
    MaxSteps = 1
    MaxSessions = 2
INVARIANTS StoodStill BoardStillForEach SolvedUpright
CHECK_DEADLOCK FALSE
