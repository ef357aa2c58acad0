SPECIFICATION Spec
CONSTANTS
    i1 = i1
    i2 = i2
    c1 = c1
    c2 = c2
    c3 = c3
    n1 = n1
    n2 = n2
    u1 = u1
    s1 = s1
    s2 = s2
    Ids = {i1, i2}
    Codes = {c1, c2, c3}
    NoCode = NoCode
    Perms = {n1, n2}
    Users = {u1}
    Procs = {s1, s2}
    NoProc = NoProc
    NoId = NoId
    Foreign = {c3}
    Known = {n1}
    Reports <- SomeReports
    Rebinds <- SomeRebinds
    Edits = {"create", "update", "assign", "delete", "grant", "revoke"}
    Given = {c2}
SYMMETRY Symmetry
INVARIANTS
    TypeOK
    BindingsAsAsked
PROPERTIES
    NoAssignmentLost
    SubsystemOwnsBindings
    RolesAsReported
