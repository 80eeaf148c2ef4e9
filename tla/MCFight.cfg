CONSTANTS
    Chars = {c1, c2, c3}
    None = None
SPECIFICATION Spec
SYMMETRY Alike
INVARIANTS
    ListsSound
    FightingAlive
    TurnsLostByCutOnly
    DeadReturn
