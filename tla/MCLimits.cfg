CONSTANTS
    Player = {p1, p2}
    None = None
    InitMax = 1
    MaxMax = 2
    MaxObjs = 3
    MaxCount = 3
SPECIFICATION Spec
SYMMETRY Symmetry
INVARIANTS OnePerPlayer
PROPERTIES DriftsOnlyBy
