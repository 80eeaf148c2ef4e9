CONSTANTS
    Player = {p1, p2, p3}
    Quester = {s1}
    NoQuester = NoQuester
    Times = {2}
    Wait = 1
    ShortWait = 1
    MaxRecords = 2
SPECIFICATION FairSpec
INVARIANTS QuestSound
PROPERTIES RecordKept EndsTogether QuestEnds
