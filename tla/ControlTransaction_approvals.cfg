CONSTANTS
    Controls = {1, 2, 3}
    Approvals <- Growing
    KindOf <- WithScheduler
    Profiles = {"balanced", "eco"}
    MaxCrashes = 2
    MaxFaults = 2
SPECIFICATION Spec
CONSTRAINT FileCovers
INVARIANTS OriginalIsKnown AnsweredIsApplied
CHECK_DEADLOCK FALSE
