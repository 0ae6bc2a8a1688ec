CONSTANTS
    t1 = t1
    t2 = t2
    t3 = t3
    t4 = t4
    r1 = r1
    r2 = r2
    x1 = x1
    x2 = x2
    k1 = k1
    k2 = k2
    k3 = k3
    f1 = f1
    f2 = f2
    f3 = f3
    Sends <- FourSends
    RowCalls <- TwoRowCalls
    Exchanges <- TwoExchanges
    Keys <- ThreeKeys
    ExchangeOf <- MCExchangeOf
    KeyOf <- MCKeyOf
    Rows <- MCRows
    Bytes <- MCBytes
    FrameOf <- MCFrameOf
    Workloads <- MCWorkloads
    Budgets <- MCBudgets
    MaxBatches = 1
    MaxBytes = 2
    MaxBatchBytes = 2
    PendingLimits <- MCPendingLimits
    MaxTeardowns = 1
    MaxBreaks = 1
    MaxBudgetChanges = 1

SPECIFICATION Spec
INVARIANTS ChargesExact NoLostWakeup
PROPERTIES NotifierKept LateAcksAreInert WaitingEnds
CHECK_DEADLOCK FALSE
