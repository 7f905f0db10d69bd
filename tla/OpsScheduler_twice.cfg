\* Two replicas of one release; nothing fails.
SPECIFICATION Spec
CONSTANTS
    s1 = s1
    s2 = s2
    a = a
    b = b
    Schedulers <- MCSchedulers
    Tasks <- MCTasks
    NoTask = NoTask
    Handlers <- MCSame
    Interval <- MCInterval
    Timeout <- MCTimeout
    Lease = 2
    MaxFaults = 0
INVARIANT NotRunTwice
