SPECIFICATION Spec
CONSTANTS
    None = None
    Desc = {d1, d2, d3}
    Char = {c1, c2, c3}
    Name = {n1}
    InitFile <- EmptyFile
    NewLock = FALSE
    MaxVer = 0
    FirstId = 0
    MaxId = 3
    Holds = {}
    MaxErrs = 0
    VoidTimer = 1
    QuitTimer = 1
    IdleTimer = 1
PROPERTIES
    RefusalIsLocal
