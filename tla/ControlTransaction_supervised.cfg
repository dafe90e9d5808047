CONSTANTS
    Controls = {1, 2, 3}
    Approvals <- Both
    KindOf <- WithScheduler
    Profiles = {"balanced", "eco"}
    MaxCrashes = 1
    MaxFaults = 0
SPECIFICATION Spec
INVARIANT EveryOriginalIsKnown
CHECK_DEADLOCK FALSE
