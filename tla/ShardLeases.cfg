SPECIFICATION Spec
CONSTANTS
    c1 = c1
    c2 = c2
    w1 = w1
    w2 = w2
    s1 = s1
    s2 = s2
    k1 = k1
    k2 = k2
    Controls <- TwoControls
    Workers <- TwoWorkers
    Shards <- TwoShards
    Sessions <- TwoSessions
    Nil = Nil
    Deployments <- StandaloneOrFailover
    MaxFaults = 2
    MaxEpoch = 3
    MaxToken = 3
SYMMETRY Symmetry
INVARIANTS
    TypeOK
    UniqueTokens
    NewestTokenWins
    LeaseRemembered
CHECK_DEADLOCK FALSE
