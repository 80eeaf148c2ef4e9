CONSTANTS
    Player = {p1, p2, p3}
    Obj = {o1, o2}
    Traps = {o2}
    Arms = {o2}
    Slots = 1
    None = None
    Ghost = Ghost
    Starts = {1}
    Bids = {2, 3}
    Sums = {4}
    IdFee = 3
    InitBank <- Bank034
    InitGold <- Gold0
SPECIFICATION FairSpec
INVARIANTS TypeOK BidderPresent LotsSound
PROPERTIES LotsEnd MoneyNotMade StakeAnswered
