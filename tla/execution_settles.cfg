CONSTANTS
    w1 = w1
    w2 = w2
    Workers = {w1}
    Qty = 2
    LastOrdinal = 1
    MaxPermits = 4
    MaxCrashes = 1
    Faults = {"timeout", "lapse", "expire", "stall"}
    Prompt = FALSE
SPECIFICATION DaySpec
PROPERTIES
    ClosedOrdersSettle
CHECK_DEADLOCK FALSE
