SPECIFICATION Spec
CONSTANTS
    c1 = c1
    c2 = c2
    c3 = c3
    d1 = d1
    d2 = d2
    r1 = r1
    r2 = r2
    NoRequest = NoRequest
    Requests <- MCRequests
    Calls <- MCCalls3
    Reads <- MCNoReads
    MaxProgress = 2
    Patient = TRUE
    Faults <- KafkaFaults
CHECK_DEADLOCK FALSE
INVARIANTS ProgressExact
