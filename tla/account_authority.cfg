SPECIFICATION Spec
CONSTANTS
    i1 = i1
    i2 = i2
    i3 = i3
    NoIntent = NoIntent
    Intents <- MCIntents
    Actions = {"ENTRY", "CLOSE"}
    Risk <- MCRisk
    EquityLevels = {1, 2}
    EquityFloor = 1
    MaxLifetimeEntries = 2
    MaxLifetimeRisk = 3
    MaxPositionLoss = 2
SYMMETRY Symmetry
INVARIANTS
    OneFencedClaim
    BudgetWithinLimits
    BudgetIsSumOfFills
PROPERTIES
    LatchedAccountOnlyWindsDown
