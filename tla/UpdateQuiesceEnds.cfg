SPECIFICATION Spec
CONSTANTS
    j1 = j1
    j2 = j2
    p1 = p1
    p2 = p2
    Nil = Nil
    Jobs = {j1}
    Procs = {p1, p2}
    Versions <- MCVersions
    Base <- MCBase
    Duds <- MCDuds
    Mutes <- MCMutes
    Tokens <- MCTokens
INVARIANTS
    DaemonComesBack
