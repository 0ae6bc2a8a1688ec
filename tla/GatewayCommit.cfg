SPECIFICATION Spec
CONSTANTS
    Conns = {a, b}
    RowKeys = {1, 2}
    Vals = {1, 2}
    IdemKeys = {k}
    NoKey = nokey
    MaxOps = 2
    LogLimit = 2
    Loads <- SmallLoads
INVARIANTS
    ViewMatchesTable
    ExactlyOncePerKey
    SubscriberIsExact
PROPERTY
    SubscriberCatchesUp
CHECK_DEADLOCK FALSE
