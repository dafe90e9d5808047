CONSTANTS
    Requests = {r1, r2}
    Jobs = {j1, j2, j3}
    External = {x1, x2}
    None = None
    Workers = 1
    Reports = {"pass"}
    MaxRequests = 3
    MaxTries = 1
    MaxCrashes = 1
    MaxDropped = 1
SYMMETRY Symmetry
SPECIFICATION Spec
INVARIANTS TypeOK WaitingHasWork CancelledIsStopped
PROPERTY ImplementsContract
CHECK_DEADLOCK FALSE
