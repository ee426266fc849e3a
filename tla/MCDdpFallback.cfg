SPECIFICATION Spec
CONSTANTS
    Ranks <- TwoRanks
    Params <- ThreeParams
    Setups <- AsLong
    Faults = {"timeout"}
    MaxSteps = 1
INVARIANTS NothingMixed
CHECK_DEADLOCK FALSE
