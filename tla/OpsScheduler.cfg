\* Two replicas, one of them of an older release, a lease of two units.
SPECIFICATION FairSpec
CONSTANTS
    s1 = s1
    s2 = s2
    a = a
    b = b
    Schedulers <- MCSchedulers
    Tasks <- MCTasks
    NoTask = NoTask
    Handlers <- MCUpgrade
    Interval <- MCInterval
    Timeout <- MCTimeout
    Lease = 2
    MaxFaults = 3
INVARIANT TypeOK
INVARIANT OneHolder
INVARIANT LeaseHasHolder
PROPERTY DueTasksRun
