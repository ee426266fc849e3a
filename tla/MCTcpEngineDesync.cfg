SPECIFICATION Spec
CONSTANTS
    Ranks <- TwoRanks
    Master = 0
    Groups = {"world"}
    World = "world"
    Members <- OneWorld
    Tasks = {0, 1}
    RankOf <- OneTaskOfTwo
    Program <- OutOfStep
    OnError = {"stop"}
    Faults = {"timeout"}
    MaxTags = 2
INVARIANTS BuffersMatch
CHECK_DEADLOCK FALSE
