SPECIFICATION Spec
CONSTANTS
    c1 = c1
    p1 = p1
    Calls = {c1}
    Caller = "datahub"
    Procs = {p1}
    NoCall = NoCall
    NoApp = "none"
    NoStamp = NoStamp
    Blank = "blank"
    Named = {"datahub"}
    Window = 2
    Environment = "production"
    Trust = 1
    TokenEnd = 2
    Skews <- Offsets
    Urls <- Paths
    MaxTime = 2
    MaxVersion = 1
INVARIANTS
    ForwardedBearerServed
