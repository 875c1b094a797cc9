SPECIFICATION FairSpec
CONSTANTS
    Calls = {c1, c2}
    Ids = {i1}
    Cwds = {d1}
    MaxTerminals = 2
    MaxScroll = 2
    PumpPrompt = TRUE
    MaxChunks = 3
    MaxTicks = 1
    MaxAsked = 1
    Stops = FALSE
    Nil = Nil
INVARIANTS
    ReattachMissesNothing
PROPERTIES
    NoDataAfterExit
    ClosedEnds
    ExitIsReported
CHECK_DEADLOCK FALSE
