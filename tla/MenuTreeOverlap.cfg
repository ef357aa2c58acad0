SPECIFICATION Spec
CONSTANTS
    m1 = m1
    m2 = m2
    m3 = m3
    m4 = m4
    p1 = p1
    p2 = p2
    Menus = {m1, m2, m3, m4}
    NoMenu = NoMenu
    Unset = Unset
    Procs = {p1, p2}
SYMMETRY Symmetry
INVARIANTS
    ParentsStored
    Acyclic
    TreeShowsAll
