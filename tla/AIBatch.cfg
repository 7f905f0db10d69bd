\* Two replicas, one receipt, two faults.  The model stops when the receipt
\* has settled or is stranded.
SPECIFICATION Spec
CONSTANTS
    p1 = p1
    p2 = p2
    p3 = p3
    r1 = r1
    r2 = r2
    j1 = j1
    j2 = j2
    Runs <- MCRuns
    Duties <- MCOverlap
    Receipts <- MCReceipt
    Slots <- MCSlots
    NoJob = NoJob
    BatchLimit = 2
    MaxFaults = 2
SYMMETRY MCSymmetry
CHECK_DEADLOCK FALSE
INVARIANT TypeOK
INVARIANT LeaseHasHolder
INVARIANT OneHolder
INVARIANT DraftsBuiltOnce
PROPERTY FallsBackOnlyOnRepeat
