SPECIFICATION FairSpec
CONSTANTS
    Execs = {x1}
    Cancels = {k1}
    MaxChunks = 2
    PipeSize = 1
    Inputs = {"small", "big"}
    Heirs = TRUE
    Stops = TRUE
    Nil = Nil
INVARIANTS
    TypeOK
    OutputBeforeResult
    IdleMeansEnded
    ListedAreAsked
PROPERTIES
    EveryExecAnswered
CHECK_DEADLOCK FALSE
