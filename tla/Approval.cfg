SPECIFICATION ApprovalSpec
CONSTANTS
    Creds = {k1, k2}
    NoName = NoName
    Reqs = {r1}
    MaxDevices = 2
    MaxCrashes = 1
    MaxTouches = 1
    Nil = Nil
    Calls = {c1, c2}
    Acts = {a1, a2}
    Tickets <- TimedTickets
    HmacKey = TRUE
    OneBook = TRUE
    Skew = 0
    MaxTime = 2
    k1 = k1
    a1 = a1
SYMMETRY Alike
CONSTRAINT TouchedEarly
INVARIANTS
    TypeOK
    OnceUnlessExcused
    AppTicketWorks
    AppTicketOnlyUnenrolled
    RevokedKeyRefused
CHECK_DEADLOCK FALSE
