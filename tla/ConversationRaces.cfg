SPECIFICATION FairSpec
CONSTANTS
    c1 = c1
    c2 = c2
    c3 = c3
    d1 = d1
    d2 = d2
    r1 = r1
    r2 = r2
    NoRequest = NoRequest
    Requests <- MCRequests
    Calls <- MCCalls
    Reads <- MCReads
    MaxProgress = 1
    Patient = FALSE
    Faults <- AllFaults
CHECK_DEADLOCK FALSE
INVARIANTS AnswersFollowRequest NoReplyUncounted
PROPERTIES EveryRequestAnswered
