SPECIFICATION FairSpec
CONSTANTS
    Producers = {p1, p2, p3}
    None = None
    Records = 2
    MaxAttempts = 2
    MaxFaults = 1
CHECK_DEADLOCK FALSE
INVARIANTS TopicInOrder LostOnlyAfterFault
PROPERTIES RepliesSettle
