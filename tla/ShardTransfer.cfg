SPECIFICATION FairSpec
CONSTANTS
    w1 = w1
    w2 = w2
    o1 = o1
    Workers <- TwoWorkers
    Operations <- OneOperation
    Nil = Nil
    MaxTransitions = 12
    MaxToken = 8
    MaxRequests = 1
    MaxFaults = 2
    MaxErrors = 1
INVARIANTS
    OutcomeIsTrue
PROPERTIES
    HandOverIsExclusive
    OperationEnds
CHECK_DEADLOCK FALSE
