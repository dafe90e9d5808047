CONSTANTS
    Datasets = {d1}
    Examples = {e1, e2}
    Contents = {c1, c2}
    Requests = {r1, r2}
    Attempts = {a1}
    MaxOpen = 2
    MaxRequests = 2
    MaxGenerated = 0
    MaxTries = 1
    MaxRedelivered = 0
    MaxCrashes = 0
SPECIFICATION Spec
PROPERTY ApprovedIsFrozen
CHECK_DEADLOCK FALSE
