SPECIFICATION Spec
CONSTANTS
    Nil = Nil
    NCalls = 3
    AtOnce = 2
    Requests <- MCRequests
    ServerID = "deck"
    Files <- MCFiles
    MaxGen = 3
    MaxOut = 1
CHECK_DEADLOCK FALSE
INVARIANTS
    EveryServerIsOurs
