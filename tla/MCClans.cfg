CONSTANTS
    Player = {p1, p2}
    Conn = {d}
    Clan = {a, b, free}
    Independent = free
    None = None
    NoFile = NoFile
    Atheist = {p1, p2}
    MaxPlayers = 2
    MaxRare = 1
SPECIFICATION Spec
SYMMETRY Sym
INVARIANTS NoCivilWar
PROPERTIES CountKept NeverPoached MasterStays
VIEW View
