CONSTANTS
    Datasets = {d1, d2}
    Examples = {e1, e2}
    Contents = {c1, c2}
    Requests = {r1, r2}
    Attempts = {a1, a2}
    MaxOpen = 2
    MaxRequests = 2
    MaxGenerated = 1
    MaxTries = 1
    MaxRedelivered = 1
    MaxCrashes = 1
SYMMETRY Symmetry
SPECIFICATION Spec
CONSTRAINT TwoEvents
INVARIANTS TypeOK UsedIsApproved GeneratedOnce GeneratingHasWork
PROPERTIES ImplementsReview OnlyLaterTriesFail
CHECK_DEADLOCK FALSE
