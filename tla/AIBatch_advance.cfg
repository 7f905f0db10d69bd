\* One replica submits, another collects; a single fault.
SPECIFICATION Spec
CONSTANTS
    p1 = p1
    p2 = p2
    p3 = p3
    r1 = r1
    r2 = r2
    j1 = j1
    j2 = j2
    Runs <- MCThreeRuns
    Duties <- MCOneEach
    Receipts <- MCReceipts
    Slots <- MCSlots
    NoJob = NoJob
    BatchLimit = 2
    MaxFaults = 1
CHECK_DEADLOCK FALSE
PROPERTY StagesOnlyAdvance
