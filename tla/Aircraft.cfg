SPECIFICATION Spec
CONSTANTS
    MlatAdsb = TRUE
    EmitFiltered = TRUE
    Backoff = 1
    LooseWait = 2
    FitWindow = 2
    Stale = 4
    AcExpire = 5
    MaxLag = 1
    SolveBy = 2
    SpeedRejects = 2
    MaxGroups = 1
    MaxTime = 10
INVARIANTS TypeOK MapsFollowLog TrackFixesAgree FixesRecent Unsuppressed
PROPERTIES Continuity
CHECK_DEADLOCK FALSE
