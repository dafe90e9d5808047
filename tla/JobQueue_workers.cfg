CONSTANTS
    a = a
    b = b
    w1 = w1
    w2 = w2
    Jobs = {a}
    Cancellable = {}
    Domained = {a}
    Workers = {w1, w2}
    Ids = {i1, i2}
    None = None
    MaxRetries = 1
    ReadCount = 1
    MaxCrashes = 0
    MaxDefers = 1
    MaxEventFailures = 0
SPECIFICATION FairSpec
INVARIANT PendingHasHolder
PROPERTIES EveryJobSettles FailureReachesDomain
