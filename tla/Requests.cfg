SPECIFICATION Spec
CONSTANTS
    a1 = a1
    a2 = a2
    a3 = a3
    Aircraft = {a1, a2, a3}
    Junk = {junk}
    SyncCap = 1
    MaxRequested = 2
    SyncIdle = 1
    Suppress = 2
    Keep = 3
    LineCap = 2
    MaxTime = 3
SYMMETRY Fleet
INVARIANTS Bounded AnswersAgree
PROPERTIES NoEarlyRestart
CHECK_DEADLOCK FALSE
