CONSTANTS
    Controls = {1, 2, 3, 4, 5, 6, 7}
    Approvals <- FirstSix
    KindOf <- AllKinds
    Profiles = {"balanced", "eco"}
    MaxCrashes = 2
    MaxFaults = 2
SPECIFICATION FairSpec
INVARIANTS TypeOK OriginalIsKnown AnsweredIsApplied
PROPERTY HostIsRestored
CHECK_DEADLOCK FALSE
