SPECIFICATION FairSpec
CONSTANTS
    n1 = n1
    n2 = n2
    n3 = n3
    Nodes <- Group
    Nil = Nil
    Bootstrap = {}
    Standing <- Candidates
    ElectionTimeoutMin = 0
    LeaderQuorumTimeout = 1
    MaxTerm = 2
    MaxFaults = 0
PROPERTIES
    StaleLeaderStepsDown
CHECK_DEADLOCK FALSE
