CONSTANTS
    PC = {p1, p2}
    Mob = {m1, m2}
    Changer = {m1}
    Rate = 2
    Sums = {1, 2}
    Costs = {3}
    InitPurse <- Purse
    MaxWorth = 7
    MaxPiles = 2
SPECIFICATION CoinsSpec
SYMMETRY Symmetry
INVARIANTS PilesSound
PROPERTIES CoinsKept
