\* Two replicas, one receipt, two faults.  The model stops when the receipt
\* has settled or is stranded.
SPECIFICATION FairSpec
CONSTANTS
    p1 = p1
    p2 = p2
    p3 = p3
    r1 = r1
    r2 = r2
    j1 = j1
    j2 = j2
    Runs <- MCThreeRuns
    Duties <- MCOneEach
    Receipts <- MCReceipt
    Slots <- MCSlots
    NoJob = NoJob
    BatchLimit = 2
    MaxFaults = 2
CHECK_DEADLOCK FALSE
PROPERTY EveryReceiptSettles
