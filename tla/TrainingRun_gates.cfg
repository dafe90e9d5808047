CONSTANTS
    Requests = {r1, r2}
    Jobs = {j1, j2, j3}
    External = {x1, x2}
    None = None
    Workers = 2
    Reports = {"pass", "fail"}
    MaxRequests = 3
    MaxTries = 0
    MaxCrashes = 0
    MaxDropped = 0
SYMMETRY Symmetry
SPECIFICATION Spec
PROPERTY ReadyHasPassed
CHECK_DEADLOCK FALSE
