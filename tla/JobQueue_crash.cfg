\* One worker is enough to meet this sentence of docs/queue.md.
SPECIFICATION FairSpec
CONSTANTS
    w1 = w1
    w2 = w2
    Workers <- MCOneWorker
    NoJob = NoJob
    MaxAttempts = 2
    BatchSize = 1
    MaxJobs = 1
    MaxRequeues = 1
    MaxFaults = 1
CHECK_DEADLOCK FALSE
PROPERTY VisibleAfterTimeout
