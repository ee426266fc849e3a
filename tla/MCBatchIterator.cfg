SPECIFICATION FairSpec
CONSTANTS
    w1 = w1
    w2 = w2
    Workers <- TwoWorkers
    Faults = {"error", "panic"}
    MaxPending = 3
    Batches = 4
    Epochs = 2
INVARIANTS IInv TypeOK InOrder NoneMeansAll Backpressure
PROPERTIES NextReturns
CHECK_DEADLOCK FALSE
