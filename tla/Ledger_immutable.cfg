\* README.md:29 against UpdateStatus: one request posts a receipt, another
\* sets its status.
SPECIFICATION Spec
CONSTANTS
    p1 = p1
    p2 = p2
    r1 = r1
    Procs <- MCProcs
    Receipts <- MCReceipts
    Nets <- MCNets
    SetStatuses <- MCSetStatuses
    NoReceipt = NoReceipt
    Nobody = Nobody
    MaxRequests = 3
CHECK_DEADLOCK FALSE
PROPERTY AttachedIsImmutable
