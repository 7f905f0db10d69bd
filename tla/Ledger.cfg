\* Two requests at a time, three in all, on one receipt.  The model stops
\* when all have been answered.
SPECIFICATION FairSpec
CONSTANTS
    p1 = p1
    p2 = p2
    r1 = r1
    Procs <- MCProcs
    Receipts <- MCReceipts
    Nets <- MCNets
    SetStatuses <- MCSetStatuses
    NoReceipt = NoReceipt
    Nobody = Nobody
    MaxRequests = 3
CHECK_DEADLOCK FALSE
INVARIANT TypeOK
INVARIANT OneTransactionPerReceipt
INVARIANT AttachedIffPosted
INVARIANT PostedBalances
INVARIANT DraftsDoNotMix
INVARIANT RepliesAreTrue
PROPERTY JournalSpec
PROPERTY EveryRequestEnds
