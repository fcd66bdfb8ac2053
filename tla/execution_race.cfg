CONSTANTS
    w1 = w1
    w2 = w2
    Workers = {w1, w2}
    Qty = 1
    LastOrdinal = 1
    MaxPermits = 3
    MaxCrashes = 0
    Faults = {"timeout"}
    Prompt = FALSE
SPECIFICATION Spec
SYMMETRY Symmetry
INVARIANTS WritesAreSerial RowsFollowBroker
CHECK_DEADLOCK FALSE
