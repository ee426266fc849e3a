SPECIFICATION FairSpec
CONSTANTS
    Ranks <- TwoRanks
    Tags = {7, 8}
    Channels <- Three
    Acked <- AckOnly
    Faults <- SomeFaults
    MaxCalls = 2
    NoMessage = NoMessage
INVARIANTS PInv TakenWasSent InOrder
PROPERTIES ImplementsMailbox Delivered
CHECK_DEADLOCK FALSE
