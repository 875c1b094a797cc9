SPECIFICATION FairSpec
CONSTANTS
    Calls = {c1, c2}
    Ids = {i1}
    Cwds = {d1}
    MaxTerminals = 1
    MaxScroll = 1
    PumpPrompt = TRUE
    MaxChunks = 0
    MaxTicks = 0
    MaxAsked = 0
    Stops = FALSE
    Nil = Nil
PROPERTIES
    EveryOpenReturns
CHECK_DEADLOCK FALSE
