SPECIFICATION Spec
CONSTANTS
    c1 = c1
    p1 = p1
    p2 = p2
    Calls = {c1}
    Caller = "datahub"
    Procs = {p1, p2}
    NoCall = NoCall
    NoApp = "none"
    NoStamp = NoStamp
    Blank = "blank"
    Named = {"datahub"}
    Window = 2
    Environment = "development"
    Trust = 1
    TokenEnd = 2
    Skews <- Offsets
    Urls <- Paths
    MaxTime = 2
    MaxVersion = 2
SYMMETRY Symmetry
INVARIANTS
    AcceptedOnce
    OldSecretRefused
    HandledUnderHeader
    RefusedForCause
