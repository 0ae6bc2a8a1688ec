SPECIFICATION Spec
CONSTANTS
    a1 = a1
    legacy = legacy
    s1 = s1
    Aggregators <- Mixed
    Scalar <- Legacy
    Shards <- OneShard
    MaxRegistered = 1
    MaxIncarnation = 2
    MaxEpoch = 1
    MaxGeneration = 2
    MaxToken = 2
    MaxErrors = 1
    MaxReopens = 1
INVARIANTS
    TypeOK
    SinglePublisher
    FrontierIsComplete
PROPERTIES
    ScalarFrontierNeverRetreats
CHECK_DEADLOCK FALSE
