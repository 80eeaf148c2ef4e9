CONSTANTS
    Player = {p1, p2}
    Mob = {m1, m2}
    None = None
    Limit <- Limits
    MaxAlive = 4
SPECIFICATION Spec
SYMMETRY Alike
VIEW Seen
INVARIANTS FollowLinksAlive PetsLoyal ChainsEnd
