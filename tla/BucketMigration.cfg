SPECIFICATION FairSpec
CONSTANTS
    gateway = gateway
    Keys = {1, 2}
    Seeded = {1}
    Routers <- OneRouter
    PlannedFrontier = 1
    Setups <- TwoSetups
    MaxEpoch = 2
    MaxFaults = 1
    MaxCrashes = 1
INVARIANTS
    RowsSurvive
    CopyIsComplete
    RecordNeverLost
PROPERTIES
    ImplementsOwnership
    MigrationEnds
CHECK_DEADLOCK FALSE
