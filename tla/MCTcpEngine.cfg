SPECIFICATION Spec
CONSTANTS
    Ranks <- ThreeRanks
    Master = 0
    Groups = {"world"}
    World = "world"
    Members <- WorldOfThree
    Tasks = {0, 1, 2}
    RankOf <- OneTaskEach
    Program <- ReduceOnly
    OnError = {"retry", "skip"}
    Faults = {"connect", "post", "timeout", "crash"}
    MaxTags = 2
INVARIANTS IInv TypeOK TagAgreement EachContributesOnce NobodyLeavesEarly
CHECK_DEADLOCK FALSE
