SPECIFICATION Spec
CONSTANTS
    n1 = n1
    n2 = n2
    n3 = n3
    Nodes <- Group
    Nil = Nil
    Bootstrap = {}
    Standing <- Candidates
    ElectionTimeoutMin = 0
    LeaderQuorumTimeout = 0
    MaxTerm = 2
    MaxFaults = 1
SYMMETRY CandidateSymmetry
INVARIANTS
    TypeOK
    ElectionSafety
PROPERTIES
    BallotNeverForgotten
    ImplementsLeadership
CHECK_DEADLOCK FALSE
