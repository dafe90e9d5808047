CONSTANTS
    a = a
    b = b
    w1 = w1
    w2 = w2
    Jobs = {a}
    Cancellable = {}
    Domained = {a}
    Workers = {w1}
    Ids = {i1, i2}
    None = None
    MaxRetries = 1
    ReadCount = 2
    MaxCrashes = 2
    MaxDefers = 1
    MaxEventFailures = 1
SPECIFICATION FairSpec
INVARIANT RunningIsRecoverable
PROPERTIES EveryJobSettles FailureReachesDomain
