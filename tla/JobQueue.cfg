\* Two workers, two jobs of two attempts, batches of two, one requeue, one
\* fault; no symmetry, which TLC cannot use with liveness.  The model stops
\* when every job has settled and the bounds are used up.
SPECIFICATION FairSpec
CONSTANTS
    w1 = w1
    w2 = w2
    Workers <- MCTwoWorkers
    NoJob = NoJob
    MaxAttempts = 2
    BatchSize = 2
    MaxJobs = 2
    MaxRequeues = 1
    MaxFaults = 1
CHECK_DEADLOCK FALSE
INVARIANT TypeOK
INVARIANT NoDoubleProcessing
INVARIANT DeliveryRunsOnce
INVARIANT HeldIsCurrent
INVARIANT StrandedOnlyByLoss
PROPERTY EveryJobSettles
