SPECIFICATION LVSpec
CONSTANTS
    a = a
    b = b
    Convs <- TwoConvs
    First = a
    QueueSize = 2
    MaxMessages = 3
    MaxOpens = 2
    Faults <- AllFaults
CHECK_DEADLOCK FALSE
INVARIANTS LVTypeOK ShownOnce OnlyLostIsMissing
