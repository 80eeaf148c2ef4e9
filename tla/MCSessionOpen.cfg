SPECIFICATION FairSpec
CONSTANTS
    Desc = {d1, d2}
    Char = {c1, c2}
    Name = {n1}
    None = None
    InitFile <- EmptyFile
    NewLock = FALSE
    MaxVer = 0
    FirstId = 0
    MaxId = 2
    Holds = {"fight"}
    MaxErrs = 0
    VoidTimer = 1
    QuitTimer = 1
    IdleTimer = 1
INVARIANTS
    OneCreation
PROPERTIES
    LinkDeadLeaves
