SPECIFICATION FairSpec
CONSTANTS
    Users = {u1}
    Pairs = {g1}
    Procs = {p1, p2}
    u1 = u1
    g1 = g1
    p1 = p1
    p2 = p2
    NoUser = NoUser
    NoPair = NoPair
    NoProc = NoProc
    AccessLife = 2
    RefreshLife = 3
    UsedLife = 1
    MaxTime = 0
    MaxStamp = 2
PROPERTIES
    PasswordRaisesVersion
    EveryRequestEnds
