SPECIFICATION Spec
CONSTANTS
    Places <- MetroAndNeighbour
    NShards = 2
    MaxLevel = 1
    Cap = 2
    SplitAt = 2
    CapRate = 1
    MaxClaims = 5
INVARIANTS ChildrenGoHome
CHECK_DEADLOCK FALSE
