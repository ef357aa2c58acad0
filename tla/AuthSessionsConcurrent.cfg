SPECIFICATION Spec
CONSTANTS
    Users = {u1}
    Pairs = {g1, g2}
    Procs = {p1, p2}
    u1 = u1
    g1 = g1
    g2 = g2
    p1 = p1
    p2 = p2
    NoUser = NoUser
    NoPair = NoPair
    NoProc = NoProc
    AccessLife = 2
    RefreshLife = 3
    UsedLife = 1
    MaxTime = 1
    MaxStamp = 1
SYMMETRY Symmetry
INVARIANTS
    RetiredNeverServed
    EndedServedOnlyAfterNewLogin
    SingleSession
    EndedLineageStaysEnded
    GoneUserHasNoSession
