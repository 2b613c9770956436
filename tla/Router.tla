-------------------------------- MODULE Router --------------------------------
(***************************************************************************)
(* The geographic partition (crates/mlatd/src/shard.rs, Router).           *)
(*                                                                         *)
(* Cells are squares of a quadtree: level 0 cells are base_deg wide, each  *)
(* level halves that.  A receiver is claimed for the shard that owns its   *)
(* leaf cell; a leaf without an owner gets one by the vote of its eight    *)
(* neighbours, from the nearest mapped ancestor, or by load.  A crowded    *)
(* leaf splits.  Positions are integers, in units of half the finest cell, *)
(* so that the centre of every cell is a position.                         *)
(*                                                                         *)
(* has_capacity and load_of read counters that connections (release) and   *)
(* the stats task change at any time.  A shard's rate is whatever the      *)
(* stats task stored last, anything at all to a claim: rate is a choice of *)
(* each claim, not a variable.                                             *)
(***************************************************************************)
EXTENDS Integers, FiniteSets, FiniteSetsExt

CONSTANTS
    Places,     \* where receivers are: <<y, x>>
    NShards,
    MaxLevel,   \* the last level at least MIN_CELL_DEG wide
    Cap,        \* --shard-cap
    SplitAt,    \* SPLIT_AT
    CapRate,    \* CAP_RATE_PER_WINDOW; rates are 0..CapRate
    MaxClaims   \* bound: connections over the process' life

ASSUME RouterAssumption ==
    /\ Places \subseteq Int \X Int
    /\ NShards \in Nat \ {0} /\ MaxLevel \in Nat /\ Cap \in Nat /\ SplitAt \in Nat
    /\ CapRate \in Nat /\ MaxClaims \in Nat

Shard == 0..(NShards - 1)
NoShard == NShards
Levels == 0..MaxLevel

VARIABLES owner, rx_count, split,   \* CellMap
          receivers,                \* the shard handles' counters
          nclaims

cellmap == <<owner, rx_count, split>>
vars == <<owner, rx_count, split, receivers, nclaims>>

Init ==
    /\ owner = [k \in {} |-> 0]
    /\ rx_count = [k \in {} |-> 0]
    /\ split = {}
    /\ receivers = [s \in Shard |-> 0]
    /\ nclaims = 0

-----------------------------------------------------------------------------
Pow2[n \in 0..(MaxLevel + 1)] == IF n = 0 THEN 1 ELSE 2 * Pow2[n - 1]
CellSize == [level \in 0..(MaxLevel + 1) |-> Pow2[MaxLevel + 1 - level]]

\* cell_at: floor division.
CellAt(level, p) == <<level, p[1] \div CellSize[level], p[2] \div CellSize[level]>>

\* Mutant: the floor on the cell size is off by one level.
SplittableBelow(level) == level <= MaxLevel
Splittable(level) == level < MaxLevel

\* leaf_at: the first level, from the top, whose cell is not split.
LeafLevel(p) ==
    CHOOSE l \in 0..(MaxLevel + 1) :
        CellAt(l, p) \notin split /\ \A m \in 0..(l - 1) : CellAt(m, p) \in split
LeafAt(p) == CellAt(LeafLevel(p), p)

\* Mutant: only the leaf itself counts.
OwnerAtLeaf(p) == IF LeafAt(p) \in DOMAIN owner THEN owner[LeafAt(p)] ELSE NoShard

\* owner_at: the leaf's owner, else that of the nearest mapped ancestor.
OwnerAt(p) ==
    LET mapped == {l \in 0..LeafLevel(p) : CellAt(l, p) \in DOMAIN owner}
    IN  IF mapped = {} THEN NoShard ELSE owner[CellAt(Max(mapped), p)]

\* What the stats task stores: each shard's sync observations of its last window.
Rates == [Shard -> 0..CapRate]

HasCapacity(s, rate) == receivers[s] < Cap /\ rate[s] < CapRate

\* The centres of the eight cells around cell k, at k's own size.
Around(k) ==
    LET size == CellSize[k[1]]
    IN  {<<(k[2] + d[1]) * size + size \div 2, (k[3] + d[2]) * size + size \div 2>> :
            d \in ((-1..1) \X (-1..1)) \ {<<0, 0>>}}

\* The votes of the cells around k, by shard.
Votes(k) ==
    LET homes == {<<n, OwnerAt(n)>> : n \in Around(k)}
    IN  [s \in Shard |-> Cardinality({h \in homes : h[2] = s})]

Lighter(s, t, rate) == rate[s] < rate[t] \/ (rate[s] = rate[t] /\ receivers[s] < receivers[t])

\* max_by_key over a hash map: of equal keys, any.
Elected(votes, rate) ==
    LET eligible == {s \in Shard : votes[s] > 0 /\ HasCapacity(s, rate)}
    IN  {s \in eligible : \A t \in eligible :
            votes[t] < votes[s] \/ (votes[t] = votes[s] /\ ~Lighter(t, s, rate))}

\* min_by_key over the shard indices: of equal loads, the first.
Lightest(rate) ==
    CHOOSE s \in Shard :
        \A t \in Shard : ~Lighter(t, s, rate) /\ (t < s => Lighter(s, t, rate))

\* The shard an unmapped leaf at p goes to: by vote, the ancestor's, the lightest.
HomeOf(votes, p, rate) ==
    IF Elected(votes, rate) # {} THEN Elected(votes, rate)
    ELSE IF OwnerAt(p) # NoShard THEN {OwnerAt(p)}
    ELSE {Lightest(rate)}

\* The shards that a claim at p, in leaf k, may be for.
Claimable(k, p) ==
    IF k \in DOMAIN owner THEN {owner[k]}
    ELSE LET votes == Votes(k) IN UNION {HomeOf(votes, p, rate) : rate \in Rates}

\* Mutant: a cell that splits is taken out of the map.
MappedAndUnmappedOnSplit(k, i) ==
    IF k \in split' THEN [j \in DOMAIN owner \ {k} |-> owner[j]]
    ELSE [j \in DOMAIN owner \cup {k} |-> IF j = k THEN i ELSE owner[j]]
Mapped(k, i) == [j \in DOMAIN owner \cup {k} |-> IF j = k THEN i ELSE owner[j]]

CountOf(k) == IF k \in DOMAIN rx_count THEN rx_count[k] ELSE 0

\* shard_for: the claim of a receiver at p for shard i.
ShardFor(p, i) ==
    LET k == LeafAt(p)
    IN  /\ nclaims < MaxClaims
        /\ nclaims' = nclaims + 1
        /\ i \in Claimable(k, p)
        /\ rx_count' = [j \in DOMAIN rx_count \cup {k} |->
                            IF j = k THEN CountOf(k) + 1 ELSE rx_count[j]]
        /\ split' = IF CountOf(k) + 1 > SplitAt /\ Splittable(k[1]) THEN split \cup {k} ELSE split
        /\ owner' = Mapped(k, i)
        /\ receivers' = [receivers EXCEPT ![i] = @ + 1]

\* Mutant: two paths out of a connection give its claim back.
ReleaseTwice(s) ==
    /\ receivers[s] > 0
    /\ receivers' = [receivers EXCEPT ![s] = @ - 2]
    /\ UNCHANGED <<cellmap, nclaims>>

\* release, at the end of a connection that was claimed for s.
Release(s) ==
    /\ receivers[s] > 0
    /\ receivers' = [receivers EXCEPT ![s] = @ - 1]
    /\ UNCHANGED <<cellmap, nclaims>>

Next ==
    \/ \E p \in Places, i \in Shard : ShardFor(p, i)
    \/ \E s \in Shard : Release(s)

Spec == Init /\ [][Next]_vars

-----------------------------------------------------------------------------
(* Properties *)

CellKey == Levels \X Int \X Int

\* The cell map and the counters keep to their types.
TypeOK ==
    /\ \A k \in DOMAIN owner : k \in CellKey /\ owner[k] \in Shard
    /\ \A k \in DOMAIN rx_count : k \in CellKey /\ rx_count[k] \in Nat
    /\ split \subseteq CellKey
    /\ receivers \in [Shard -> Nat]
    /\ nclaims \in 0..MaxClaims

\* The cells are a quadtree: what is mapped below level 0 lies in a cell that
\* was split and is mapped itself, every split cell is mapped, and none is split
\* below the floor, where leaf_at would run past the last level.
ParentOf(k) == <<k[1] - 1, k[2] \div 2, k[3] \div 2>>
PartitionIsTree ==
    /\ \A k \in DOMAIN owner : k[1] > 0 => ParentOf(k) \in split
    /\ split \subseteq DOMAIN owner
    /\ \A k \in split : k[1] < MaxLevel

\* Territory is never given up: a point some shard owns stays owned, and its
\* owner changes only in the step that maps its own leaf.  A split by itself
\* changes nobody's territory.
KeepsOwner(p) ==
    OwnerAt(p) # NoShard /\ OwnerAt(p)' # OwnerAt(p) =>
        /\ OwnerAt(p)' # NoShard
        /\ LeafAt(p) \notin DOMAIN owner /\ LeafAt(p) \in DOMAIN owner'
TerritoryKept == [][cellmap' # cellmap => \A p \in Places : KeepsOwner(p)]_vars

\* A receiver lands in the shard that owns its position, from its claim on: when
\* a shard counts one receiver more, every place in the cell the claim was made
\* in is that shard's, whether or not the cell split in the same step.
CountedIn(k) == k \in DOMAIN rx_count' /\ rx_count'[k] > CountOf(k)
ClaimedByOwner ==
    [][\A i \in Shard : receivers'[i] > receivers[i] =>
        \A p \in Places : CountedIn(LeafAt(p)) => OwnerAt(p)' = i]_vars

\* What the comment on subdivision says: the children of a split cell go home to
\* the ancestor's shard, so one crowded sky is not carved across shards.
ChildrenGoHome == \A k \in DOMAIN owner : k[1] > 0 => owner[k] = owner[ParentOf(k)]
===============================================================================
