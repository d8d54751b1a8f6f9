SPECIFICATION Spec
CONSTANTS
    Series = {1, 2, 3}
    GroupOf <- ThreeGroups
    Inputs <- MCInputs
    CanApproveSource = TRUE
    NoBudget = NoBudget
    NoCover = NoCover
    NoReview = NoReview
    NoCost = NoCost
    NoCurrency = NoCurrency
    NoDay = NoDay
    Currencies = {"KZT", "USD"}
    POLines = {"a", "b"}
INVARIANTS
    LeastSufficientOrder
    CoverLimitKept
    ProtectionHolds
    PlansAreApprovable
    BudgetKept
    UrgentLinesAreServedFirst
    NothingDropped
CHECK_DEADLOCK FALSE
