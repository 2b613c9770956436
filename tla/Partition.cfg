SPECIFICATION OutputSpec
CONSTANTS
    Places <- BorderPlaces
    NShards = 2
    MaxLevel = 2
    Cap = 1
    SplitAt = 1
    CapRate = 1
    MaxClaims = 6
    k1 = k1
    k2 = k2
    FixKey = {k1, k2}
    OutCap = 1
    DedupeCap = 1
    MaxFixes = 3
SYMMETRY Keys
INVARIANTS TypeOK PartitionIsTree RecentIsOrder PublishedOnce OneShardPerCell
PROPERTIES TerritoryKept ClaimedByOwner
CHECK_DEADLOCK FALSE
