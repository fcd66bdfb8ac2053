SPECIFICATION Spec
CONSTANTS
    Qty = 2
    Price = 5
    BaseCash = 20
    MaxFeeDrag = 1
    MaxOrders = 2
    MaxFees = 1
    MaxForeign = 1
    None = None
CHECK_DEADLOCK FALSE
INVARIANTS
    AcceptedIsTrueAtOnce
    BooksExplained
    LatchHasCause
