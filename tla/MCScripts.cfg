CONSTANTS
    PC = {p1, p2}
    Mob = {m1}
    Thing = {o1}
    Null = Null
    MaxNested = 3
    MaxCall = 2
SPECIFICATION ScriptSpec
SYMMETRY Alike
INVARIANTS BlocksNest LeavesClean
PROPERTIES StaleOnlyBy
