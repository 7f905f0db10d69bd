\* Two requests post the two rows of an import that is parsed twice.  The
\* model stops when the bounds are used up.
SPECIFICATION Spec
CONSTANTS
    p1 = p1
    p2 = p2
    a1 = a1
    a2 = a2
    Posters <- MCPosters
    Indexes <- MCIndexes
    Amounts <- MCAmounts
    Accounts <- MCAccounts
    NoAccount = NoAccount
    NoRow = NoRow
    MaxReplaces = 2
    MaxPosts = 2
    MaxFaults = 1
SYMMETRY MCSymmetry
CHECK_DEADLOCK FALSE
INVARIANT TypeOK
INVARIANT PostedRowsAreBacked
INVARIANT ReportsAreTrue
INVARIANT StraysWereFailures
INVARIANT PostedRowsAgree
PROPERTY PostedRowsStay
