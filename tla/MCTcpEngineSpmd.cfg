SPECIFICATION FairSpec
CONSTANTS
    Ranks <- TwoRanks
    Master = 0
    Groups = {"pair", "solo", "world"}
    World = "world"
    Members <- Pairs
    Tasks = {0, 1, 2, 3}
    RankOf <- TwoTasksEach
    Program <- MainAndBackground
    OnError = {"stop"}
    Faults = {"connect", "post"}
    MaxTags = 2
INVARIANTS BuffersMatch EachContributesOnce
PROPERTIES AllFinish
CHECK_DEADLOCK FALSE
