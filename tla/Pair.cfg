SPECIFICATION FairSpec
CONSTANTS
    Window = 4
    MinObs = 3
    ResetAfterRejects = 3
    MaxJumps = 2
    MaxOdd = 3
INVARIANTS TypeOK StaleBounded DirectionsAgree
PROPERTIES Recovers
