CONSTANTS
    w1 = w1
    w2 = w2
    Workers = {w1}
    Qty = 2
    LastOrdinal = 1
    MaxPermits = 4
    MaxCrashes = 2
    Faults = {"timeout", "drop", "refuse", "lookup", "sweep", "lag", "lapse", "expire", "stall"}
    Prompt = FALSE
SPECIFICATION Spec
INVARIANTS CertificateTruth LineageIntact  
CHECK_DEADLOCK FALSE
