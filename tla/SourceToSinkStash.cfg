SPECIFICATION Spec
CONSTANTS
    MaxRows = 2
    RowLimit = 2
    Slots = 2
    MaxInFlight = 1
    MaxEpoch = 6
    Loads <- StashLoads
INVARIANT
    AckedInputIsCommitted
CHECK_DEADLOCK FALSE
