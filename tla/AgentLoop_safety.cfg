SPECIFICATION Spec
CONSTANTS
    Profiles = {"eco"}
    Benchmarks = {b1}
    ProfileOf <- MCProfileOf
    Calls = {c1, c2}
    Strikes = 2
    MaxPending = 2
    MaxAsked = 1
    MaxCancels = 1
    MaxMishaps = 1
SYMMETRY Symmetry
INVARIANTS
    TypeOK
    ComparisonIsFair
    RolledBackStaysOff
    AppliedIsDesired
PROPERTIES
    ImplementsContract
