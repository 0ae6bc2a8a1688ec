SPECIFICATION JoinSpec
CONSTANTS
    Kinds <- AllKinds
    Rows <- SmallRows
    MaxCopies <- SmallCopies
    MaxChanges = 3
INVARIANT ViewIsTheJoin
