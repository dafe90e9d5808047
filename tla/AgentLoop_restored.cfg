SPECIFICATION Spec
CONSTANTS
    Profiles = {"eco"}
    Benchmarks = {b1}
    ProfileOf <- MCProfileOf
    Calls = {c1, c2}
    Strikes = 2
    MaxPending = 2
    MaxAsked = 0
    MaxCancels = 0
    MaxMishaps = 0
SYMMETRY Symmetry
INVARIANTS
    ConcurrencyIsRestored
