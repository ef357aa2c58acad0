SPECIFICATION FairSpec
CONSTANTS
    u1 = u1
    r1 = r1
    r2 = r2
    q1 = q1
    p1 = p1
    p2 = p2
    Users = {u1}
    Roles = {r1, r2}
    Perms = {q1}
    Procs = {p1, p2}
    Super = r2
    NoUser = NoUser
    Kinds <- EveryKind
    MaxWrites = 3
INVARIANTS
    TypeOK
    TreeFresh
PROPERTIES
    TreeEventuallyFresh
