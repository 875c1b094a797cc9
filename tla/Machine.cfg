SPECIFICATION Spec
CONSTANTS
    p1 = p1
    p2 = p2
    Nil = Nil
    Procs = {p1, p2}
    Servers = {"cloud", "office"}
    Default = "cloud"
    Folders = {"work"}
    MaxIds = 2
    MaxLines = 3
SYMMETRY Symmetric
CONSTRAINT OneAtATime
INVARIANTS
    ConfigHolds
    ChainTells
