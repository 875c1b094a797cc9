SPECIFICATION Spec
CONSTANTS
    Creds = {k1, k2}
    NoName = NoName
    Reqs = {r1, r2, r3}
    MaxDevices = 2
    MaxCrashes = 1
    MaxTouches = 1
    Nil = Nil
SYMMETRY Alike
INVARIANTS
    StoreTypeOK
    FileIsMemory
    EnrolledStays
PROPERTIES
    LocalConfirmOnce
CHECK_DEADLOCK FALSE
