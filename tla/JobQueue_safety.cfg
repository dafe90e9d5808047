CONSTANTS
    a = a
    b = b
    w1 = w1
    w2 = w2
    Jobs = {a}
    Cancellable = {a}
    Domained = {}
    Workers = {w1, w2}
    Ids = {i1, i2}
    None = None
    MaxRetries = 1
    ReadCount = 2
    MaxCrashes = 1
    MaxDefers = 1
    MaxEventFailures = 0
SYMMETRY Symmetry
SPECIFICATION Spec
INVARIANTS TypeOK RunningHasExecutor
PROPERTY ImplementsLifecycle
