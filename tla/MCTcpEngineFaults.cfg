SPECIFICATION FairSpec
CONSTANTS
    Ranks <- TwoRanks
    Master = 0
    Groups = {"world"}
    World = "world"
    Members <- OneWorld
    Tasks = {0, 1}
    RankOf <- OneTaskOfTwo
    Program <- BroadcastThenReduce
    OnError = {"retry", "skip"}
    Faults = {"input", "connect", "post", "timeout", "crash"}
    MaxTags = 2
PROPERTIES KeysAreWrittenOnce NothingHangs
CHECK_DEADLOCK FALSE
