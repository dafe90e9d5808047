CONSTANTS
    Requests = {r1, r2}
    Jobs = {j1, j2, j3}
    External = {x1, x2}
    None = None
    Workers = 1
    Reports = {"pass"}
    MaxRequests = 2
    MaxTries = 1
    MaxCrashes = 0
    MaxDropped = 0
SPECIFICATION FairSpec
PROPERTY RunSettles
CHECK_DEADLOCK FALSE
