CONSTANTS
    k1 = k1
    k2 = k2
    e1 = e1
    e2 = e2
    r1 = r1
    r2 = r2
    None = None
    Keys = {k1}
    Entries = {e1, e2}
    Requests = {r1, r2}
    MaxEntries = 1
SPECIFICATION Spec
INVARIANT InvalidatedIsNotHit
