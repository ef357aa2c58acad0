SPECIFICATION FairSpec
CONSTANTS
    r1 = r1
    r2 = r2
    Replicas = {r1, r2}
    MaxRetries = 2
    Editable <- Edited
    MaxHeads = 1
PROPERTIES
    StartFailsForCause
    OneHeadOffice
    SeedComplete
    EveryStartEnds
