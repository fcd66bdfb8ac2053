SPECIFICATION StreamSpec
CONSTANTS
    t1 = t1
    t2 = t2
    t3 = t3
    Trades = {t1, t2}
    PrintedAt <- MCPrintedAt
    SessionOpen = 1
    SessionClose = 4
    MaxAge = 2
    OrderTolerance = 1
    ReadSkew = 3
    Start = 0
    Backoff = 1
    MaxLag = 1
    ReadLead = 1
    MaxTime = 4
    MaxEpochs = 2
    MaxSequence = 3
    MaxPending = 1
INVARIANTS OpenIsCurrent HaltRemembered RecoveryPending
CHECK_DEADLOCK FALSE
