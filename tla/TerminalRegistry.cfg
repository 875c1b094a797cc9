SPECIFICATION Spec
CONSTANTS
    Calls = {c1, c2}
    Ids = {i1, i2}
    Cwds = {d1, d2}
    MaxTerminals = 1
    MaxScroll = 1
    PumpPrompt = TRUE
    MaxChunks = 0
    MaxTicks = 0
    MaxAsked = 2
    Stops = TRUE
    Nil = Nil
SYMMETRY Interchangeable
INVARIANTS
    TypeOK
    LiveIsReachable
    LimitUnlessOverlap
    StoredShellsAreKilled
    AnsweredIsOver
CHECK_DEADLOCK FALSE
