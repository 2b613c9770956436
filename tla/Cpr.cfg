SPECIFICATION Spec
CONSTANTS
    NZ = 2
    Bins = 32
    LonZones = 420
    Edge <- SmallEdge
    Slips <- SmallSlips
    Legs <- SmallLegs
    StartLons <- SmallLons
    ForeignXz <- SmallXz
INVARIANTS TypeOK RoundTrips Recovered
CHECK_DEADLOCK FALSE
