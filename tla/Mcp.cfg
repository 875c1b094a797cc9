SPECIFICATION FairSpec
CONSTANTS
    Nil = Nil
    NCalls = 2
    AtOnce = 2
    Requests <- MCRequests
    ServerID = "deck"
    Files <- MCFiles
    MaxGen = 2
    MaxOut = 2
CHECK_DEADLOCK FALSE
INVARIANTS
    TypeOK
    AnswerIsOwn
    NoOrphan
    ToolCallsAreDue
PROPERTIES
    EveryCallEnds
