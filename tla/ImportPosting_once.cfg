\* Two requests post the same row; nothing fails.
SPECIFICATION Spec
CONSTANTS
    p1 = p1
    p2 = p2
    a1 = a1
    a2 = a2
    Posters <- MCPosters
    Indexes <- MCIndexes
    Amounts <- MCAmounts
    Accounts <- MCAccounts
    NoAccount = NoAccount
    NoRow = NoRow
    MaxReplaces = 2
    MaxPosts = 3
    MaxFaults = 0
CHECK_DEADLOCK FALSE
INVARIANT OneTransactionPerRow
