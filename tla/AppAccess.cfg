SPECIFICATION Spec
CONSTANTS
    u1 = u1
    a1 = a1
    p1 = p1
    p2 = p2
    Users = {u1}
    Apps = {a1}
    Procs = {p1, p2}
    Expiries = {0}
    MaxTime = 1
    MaxRows = 3
    MaxApps = 2
SYMMETRY Symmetry
INVARIANT
    GrantsAsAsked
PROPERTIES
    AccessAsAsked
    FailsForCause
