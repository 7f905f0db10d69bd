\* Two requests, two users, two vendors at a time; every part by itself.
\* A part stops when its bounds are used up.
SPECIFICATION Spec
CONSTANTS
    w1 = w1
    w2 = w2
    x1 = x1
    x2 = x2
    a1 = a1
    a2 = a2
    Cash = Cash
    Fees = Fees
    RecoveryCodes = {r1}
    Raws = {r1}
    Users <- MCNames
    Clerks <- MCHands
    Phones <- MCHands
    Hands <- MCHands
    VendorNames <- MCNames
    Expenses <- MCThings
    MaxTenants = 3
    MaxEntities = 2
    MaxSessions = 3
    MaxRequests = 4
    MaxAccessFaults = 1
    MaxStep = 4
    MaxEnrolments = 2
    MaxUses = 3
    MaxVendors = 2
    MaxVisits = 3
    MaxVendorFaults = 1
    StageWorkers <- MCHands
    MaxTries = 2
    MaxStageJobs = 4
    MaxAsked = 2
    MaxStageFaults = 1
    Pages <- MCHands
    MaxRowEdits = 2
    MaxSearchFaults = 1
    MaxCrawls = 1
    Sheets = {p1}
    Slips <- MCHands
    ListLimit = 2
    MaxTaxEdits = 2
    MaxTaxFaults = 1
    MaxCents = 1
    Extracts <- MCExtracts
    RowLists <- MCRowLists
    Years <- MCYears
    Books <- MCBooks
SYMMETRY MCSymmetry
CHECK_DEADLOCK FALSE
INVARIANT TypeOK
INVARIANT SessionsAreSound
INVARIANT MembershipsHold
INVARIANT CodesAreSpent
INVARIANT DocsFollowVendors
INVARIANT HumanAccountStands
INVARIANT ReceiptsSettle
INVARIANT ReadyMeansClean
INVARIANT SearchFollowsTable
INVARIANT AnswersAreSound
