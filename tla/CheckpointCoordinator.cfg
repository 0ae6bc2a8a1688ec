SPECIFICATION CheckpointFairSpec
CONSTANTS
    s1 = s1
    s2 = s2
    b1 = b1
    r1 = r1
    r2 = r2
    Shards <- TwoShards
    Triggers <- OneTrigger
    Reporters <- TwoReporters
    MaxCredits = 2
    Retention = 1
    MaxId = 5
INVARIANTS
    CheckpointTypeOK
    ManifestIsBacked
    NoCreditLeak
PROPERTIES
    LatestNeverRetreats
    RoundsEnd
CHECK_DEADLOCK FALSE
