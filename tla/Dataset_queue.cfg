CONSTANTS
    Datasets = {d1, d2}
    Examples = {e1}
    Contents = {c1}
    Requests = {r1, r2}
    Attempts = {a1, a2}
    MaxOpen = 3
    MaxRequests = 1
    MaxGenerated = 2
    MaxTries = 1
    MaxRedelivered = 2
    MaxCrashes = 1
SYMMETRY Symmetry
SPECIFICATION Spec
PROPERTIES JobsFollowQueue
CHECK_DEADLOCK FALSE
