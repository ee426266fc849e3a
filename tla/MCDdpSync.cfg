SPECIFICATION FairSpec
CONSTANTS
    Ranks <- TwoRanks
    Params <- ThreeParams
    Setups <- AllSetups
    Faults = {"timeout"}
    MaxSteps = 2
INVARIANTS TypeOK AveragesRight InStep OverlapInStep WholeBuckets LengthsKeepApart
PROPERTIES SyncReturns WorkerCatchesUp
CHECK_DEADLOCK FALSE
