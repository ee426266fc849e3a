SPECIFICATION FairSpec
CONSTANTS
    w1 = w1
    w2 = w2
    Workers <- TwoWorkers
    Tasks <- ThreeTasks
    Ranks = {0}
    FailureThreshold = 2
    SuccessThreshold = 3
    MaxStep = 3
    MaxCheckpoints = 2
    MaxAttempts = 2
    MinWorkers = 1
    MaxWorkers = 3
    Requests = {3}
    Builds = {"debug", "release"}
    Word = 256
    Limits <- AllLimits
INVARIANTS TypeOK LatestKept JoinsCounted
PROPERTIES LoadedNotOlder ClosesTested WorldFixedWhileTraining ScalingEnds
CHECK_DEADLOCK FALSE
