SPECIFICATION FairSpec
CONSTANTS
    c1 = c1
    c2 = c2
    Conns = {c1}
    WantsResults = {c1}
    Faults = {"silent", "gone"}
    Others = {c2}
    QueueCap = 2
    LineCap = 2
    MaxBurst = 2
INVARIANTS NothingLeftRunning
PROPERTIES ReplacedCloses DeadPeerCloses
CHECK_DEADLOCK FALSE
