CONSTANTS
    e1 = e1
    e2 = e2
    p1 = p1
    p2 = p2
    Endpoints = {e1, e2}
    Models = {m1}
    Policies = {p1, p2}
    Allowed <- MCAllowed
    Naming = {p1, p2}
    Seeded = {e1, p1}
    Transactions = {t1}
    MaxStarted = 5
    MaxNamespace = 2
    MaxEdits = 1
SYMMETRY Symmetry
SPECIFICATION Spec
INVARIANT EditsInvalidate
CHECK_DEADLOCK FALSE
