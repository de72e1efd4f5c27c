SPECIFICATION Spec
CONSTANTS
    Concurrency = 2
    MaxCalls = 3
    MaxTurns = 3
    MaxFaults = 2
    MaxLapses = 1
CONSTRAINT ShortWhereSavesFail
CHECK_DEADLOCK FALSE
INVARIANTS QuestionKept ResultsReachModel
PROPERTIES OverlapHarmless ResumedOnce
