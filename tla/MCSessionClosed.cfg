SPECIFICATION Spec
CONSTANTS
    Desc = {d1, d2, d3}
    Char = {c1, c2, c3, c4}
    Name = {n1}
    None = None
    InitFile <- ClosedFile
    NewLock = TRUE
    MaxVer = 2
    FirstId = 1
    MaxId = 2
    Holds = {"deal"}
    MaxErrs = 1
    VoidTimer = 1
    QuitTimer = 2
    IdleTimer = 3
SYMMETRY Symmetry
INVARIANTS
    LinkConsistent
    OneBodyPerName
    OneEntrance
    CopiesFresh
PROPERTIES
    RollBackOnlyByLogin
    ImplementsPresence
