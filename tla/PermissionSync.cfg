SPECIFICATION FairSpec
CONSTANTS
    c1 = c1
    c2 = c2
    c3 = c3
    f1 = f1
    f2 = f2
    s1 = s1
    s2 = s2
    Codes = {c1, c2, c3}
    NoCode = NoCode
    Fields = {f1, f2}
    Syncs = {s1, s2}
    NoSync = NoSync
    Reports <- ChainReports
INVARIANTS
    TypeOK
    ParentsStored
PROPERTIES
    TreeRestored
    SyncMatchesReference
    FieldsAligned
    EverySyncEnds
