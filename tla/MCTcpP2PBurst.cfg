SPECIFICATION Spec
CONSTANTS
    Ranks <- TwoRanks
    Tags = {7, 8}
    Channels <- BurstOnly
    Acked <- NoChannel
    Faults <- NoFaults
    MaxCalls = 2
    NoMessage = NoMessage
INVARIANTS NewestIsThere
CHECK_DEADLOCK FALSE
