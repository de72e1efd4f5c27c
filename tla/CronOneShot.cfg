SPECIFICATION Spec
CONSTANTS
    r1 = r1
    r2 = r2
    once = once
    every = every
    Nobody = Nobody
    Replicas <- TwoReplicas
    Jobs <- TwoJobs
    OneShot <- OneTime
    Delay <- Delays
    MaxTime = 4
    SchedulerTtl = 1
    ExecTtl = 2
    Grace = 2
    MaxAttempts = 2
    BackoffCap = 2
    MaxUpsets = 0
    Callers <- OneReplica
CHECK_DEADLOCK FALSE
INVARIANTS OneShotRunsOnce
