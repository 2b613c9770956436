SPECIFICATION Spec
CONSTANTS
    c1 = c1
    c2 = c2
    Conns = {c1, c2}
    WantsResults = {}
    Faults = {"silent", "gone"}
    Others = {}
    QueueCap = 2
    LineCap = 1
    MaxBurst = 1
SYMMETRY Pair
INVARIANTS TypeOK CountedOnce NoSlotLeft RemovalIsLast EvictedWasReplaced
PROPERTIES LeaseKept
CHECK_DEADLOCK FALSE
