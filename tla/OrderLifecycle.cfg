SPECIFICATION Spec
CONSTANTS
    p1 = p1
    p2 = p2
    a = a
    b = b
    c = c
    k1 = k1
    k2 = k2
    Proposals = {p1, p2}
    Lines = {a, b, c}
    LinesOf <- MCLinesOf
    Terms <- MCTerms
    Recommended <- MCRecommended
    BlockedLines = {}
    Budget = 8
    Preview = TRUE
    SnapshotCanApprove = TRUE
    BuyerPrepared = TRUE
    Role = "approver"
    ExportKeys = {k1, k2}
    NoBudget = NoBudget
    NoCost = NoCost
    NoReservation = NoReservation
    MaxPurchase = 2
    MaxVersion = 3
INVARIANTS
    ApprovalMatchesAudit
    ExportsWereSigned
    ExportKeysNameOneCsv
    LedgerReconciles
    RunWithinBudget
PROPERTIES
    HistoryOnlyGrows
    ImplementsReleaseContract
CHECK_DEADLOCK FALSE
