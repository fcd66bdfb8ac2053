SPECIFICATION MCSpec
CONSTANTS
    Policies <- MCPolicies
    Markets <- MCMarkets
    Budgets <- MCBudgets
    Reviews <- MCReviews
    ClaimLists <- MCClaimLists
    Positions <- MCPositions
    Sightings <- MCSightings
    Books <- MCBooks
    PlanSpecs <- MCPlanSpecs
    LiveEvidence <- MCLiveEvidence
    SignalCases <- MCSignalCases
    Lead = 3
    SessionBars = 8
    DailyCloses = 3
    DailyLimit = 6
    MaxContracts = 6
    Runs = {r1, r2}
    Boundaries = {1, 2}
    Window = 3
    Equity = 20000
    MaxPlans = 2
    MaxClock = 3
SYMMETRY RunSymmetry
INVARIANTS
    SelectedIsAcceptable
    CloseIsMonotone
    EvidenceIsJudgedAlike
    OrdersKeepTheirLoss
PROPERTY
    KeepsLedger
CHECK_DEADLOCK FALSE
