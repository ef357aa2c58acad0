SPECIFICATION Spec
CONSTANTS
    Users = {u1}
    Pairs = {g1, g2, g3}
    Procs = {p1}
    u1 = u1
    g1 = g1
    g2 = g2
    g3 = g3
    p1 = p1
    NoUser = NoUser
    NoPair = NoPair
    NoProc = NoProc
    AccessLife = 2
    RefreshLife = 3
    UsedLife = 1
    MaxTime = 3
    MaxStamp = 2
SYMMETRY PairSymmetry
INVARIANTS
    OneSuccessor
    OldPasswordTokensDead
PROPERTY
    KeepsSessions
