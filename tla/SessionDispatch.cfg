SPECIFICATION FairSpec
CONSTANTS
    r1 = r1
    r2 = r2
    NoReplica = NoReplica
    Replicas <- TwoReplicas
    Partitions <- ThreeMessages
    MaxUpsets = 2
CHECK_DEADLOCK FALSE
INVARIANTS OneTurn AnswersInOrder CancelledByLaterStop
PROPERTIES MessagesSettle
