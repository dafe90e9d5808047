CONSTANTS
    Requests = {r1, r2}
    Jobs = {j1, j2, j3}
    External = {x1, x2}
    None = None
    Workers = 1
    Reports = {"pass"}
    MaxRequests = 3
    MaxTries = 1
    MaxCrashes = 0
    MaxDropped = 0
SYMMETRY Symmetry
SPECIFICATION Spec
INVARIANT OneStartPerConfirmation
CHECK_DEADLOCK FALSE
