SPECIFICATION Spec
CONSTANTS
    i1 = i1
    i2 = i2
    Nil = Nil
    Invokes = {i1, i2}
    OpsOf <- MCOpsOf
    Chunks <- MCChunks
    MaxPrints = 2
    MaxLate = 1
    Secret <- MCSecret
    Carry = 2
    Conts <- MCConts
CHECK_DEADLOCK FALSE
INVARIANTS
    TypeOK
    OutputArrives
PROPERTIES
    Delivered
