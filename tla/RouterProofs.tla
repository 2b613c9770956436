----------------------------- MODULE RouterProofs -----------------------------
(***************************************************************************)
(* Proofs about Router, for every set of places, every number of shards,   *)
(* every depth of the quadtree and every capacity.  The invariant is the   *)
(* shape of the tree: with it a point's leaf exists, its ancestors are     *)
(* mapped, and nothing below it is (Leaves, Homes).                        *)
(***************************************************************************)
EXTENDS Router, WellFoundedInduction, TLAPS

Point == Int \X Int

-----------------------------------------------------------------------------
(* Cells *)

\* Every set of numbers that is not empty has a least one: induction, in the form
\* the provers can use.
LEMMA LeastOf ==
    ASSUME NEW T \in SUBSET Nat, T # {}
    PROVE  \E x \in T : \A y \in T : ~(y < x)
<1> DEFINE below == {ss \in Nat \X Nat : ss[1] < ss[2]}
<1>1. IsWellFoundedOn(below, Nat)
  BY NatLessThanWellFounded, Zenon DEF OpToRel
<1>2. \A x, y \in Nat : y < x => <<y, x>> \in below
  OBVIOUS
<1> HIDE DEF below
<1>3. PICK x \in T : \A y \in T : ~(<<y, x>> \in below)
  BY <1>1, WFMin
<1> QED
  BY <1>2, <1>3

\* There is a function that doubles from each number to the next.
LEMMA Pow2Exists ==
    \E f : f = [n \in 0..(MaxLevel + 1) |-> IF n = 0 THEN 1 ELSE 2 * f[n - 1]]
<1> DEFINE Doubles(g, n) == /\ g \in [0..n -> Nat]
                            /\ \A l \in 0..n : g[l] = IF l = 0 THEN 1 ELSE 2 * g[l - 1]
           Missing == {n \in Nat : ~\E g : Doubles(g, n)}
<1>0. MaxLevel \in Nat
  BY RouterAssumption
<1>1. 0 \notin Missing
  <2> DEFINE g == [l \in 0..0 |-> 1]
  <2>1. Doubles(g, 0)
    OBVIOUS
  <2> QED
    BY <2>1
<1>2. ASSUME NEW n \in Nat, n \notin Missing PROVE n + 1 \notin Missing
  <2>1. PICK g : Doubles(g, n)
    BY <1>2
  <2> DEFINE h == [l \in 0..(n + 1) |-> IF l = n + 1 THEN 2 * g[n] ELSE g[l]]
  <2>2. /\ n \in 0..n /\ g[n] \in Nat
        /\ \A l \in 0..(n + 1) : l = n + 1 \/ l \in 0..n
        /\ \A l \in 0..n : l \in 0..(n + 1) /\ l # n + 1 /\ (l # 0 => l - 1 \in 0..n)
    BY <2>1
  <2>3. h \in [0..(n + 1) -> Nat]
    BY <2>1, <2>2
  <2>4. ASSUME NEW l \in 0..(n + 1) PROVE h[l] = IF l = 0 THEN 1 ELSE 2 * h[l - 1]
    <3>1. CASE l = n + 1
      <4>1. h[l] = 2 * g[n] /\ l - 1 = n /\ h[n] = g[n] /\ l # 0
        BY <2>2, <3>1
      <4> QED
        BY <4>1
    <3>2. CASE l \in 0..n
      <4>1. h[l] = g[l] /\ g[l] = IF l = 0 THEN 1 ELSE 2 * g[l - 1]
        BY <2>1, <2>2, <3>2
      <4>2. l # 0 => h[l - 1] = g[l - 1]
        BY <2>2, <3>2
      <4> QED
        BY <4>1, <4>2
    <3> QED
      BY <2>2, <3>1, <3>2
  <2> HIDE DEF h
  <2>5. Doubles(h, n + 1)
    BY <2>3, <2>4
  <2> QED
    BY <2>5
<1>3. Missing = {}
  <2>1. Missing \in SUBSET Nat
    OBVIOUS
  <2> HIDE DEF Missing
  <2> SUFFICES ASSUME Missing # {} PROVE FALSE
    OBVIOUS
  <2>2. PICK x \in Missing : \A y \in Missing : ~(y < x)
    BY <2>1, LeastOf
  <2>3. x \in Nat /\ x # 0 /\ x - 1 \in Nat /\ x - 1 < x /\ (x - 1) + 1 = x
    BY <1>1, <2>1, <2>2
  <2> QED
    BY <1>2, <2>2, <2>3
<1>4. PICK g : Doubles(g, MaxLevel + 1)
  <2>1. MaxLevel + 1 \in Nat
    BY <1>0
  <2> HIDE DEF Doubles
  <2> QED
    BY <1>3, <2>1
<1>5. g = [n \in 0..(MaxLevel + 1) |-> IF n = 0 THEN 1 ELSE 2 * g[n - 1]]
  BY <1>4
<1> QED
  BY <1>5

\* Each level halves the cells.
LEMMA CellSizes ==
    /\ \A l \in 0..(MaxLevel + 1) : CellSize[l] \in Nat \ {0}
    /\ \A l \in 0..MaxLevel : CellSize[l] = 2 * CellSize[l + 1]
<1>0. MaxLevel \in Nat
  BY RouterAssumption
<1>1. Pow2 = [n \in 0..(MaxLevel + 1) |-> IF n = 0 THEN 1 ELSE 2 * Pow2[n - 1]]
  BY Pow2Exists, Zenon DEF Pow2
<1>2. /\ Pow2[0] = 1
      /\ \A n \in 0..(MaxLevel + 1) : n # 0 => Pow2[n] = 2 * Pow2[n - 1]
  BY <1>0, <1>1
<1> DEFINE Wrong == {n \in 0..(MaxLevel + 1) : Pow2[n] \notin Nat \ {0}}
<1>3. Wrong = {}
  <2> SUFFICES ASSUME Wrong # {} PROVE FALSE
    OBVIOUS
  <2>1. Wrong \in SUBSET Nat
    BY <1>0
  <2>2. PICK x \in Wrong : \A y \in Wrong : ~(y < x)
    <3> HIDE DEF Wrong
    <3> QED
      BY <2>1, LeastOf
  <2>3. x # 0 /\ x \in 0..(MaxLevel + 1)
    BY <1>0, <1>2, <2>2
  <2>4. x - 1 \notin Wrong /\ x - 1 \in 0..(MaxLevel + 1)
    BY <1>0, <2>2, <2>3
  <2>5. Pow2[x - 1] \in Nat \ {0}
    BY <2>4
  <2>6. Pow2[x] = 2 * Pow2[x - 1]
    BY <1>2, <2>3
  <2> QED
    BY <2>2, <2>5, <2>6
<1>4. ASSUME NEW l \in 0..(MaxLevel + 1)
      PROVE  /\ MaxLevel + 1 - l \in 0..(MaxLevel + 1)
             /\ CellSize[l] = Pow2[MaxLevel + 1 - l] /\ CellSize[l] \in Nat \ {0}
  BY <1>0, <1>3 DEF CellSize
<1>5. ASSUME NEW l \in 0..MaxLevel PROVE CellSize[l] = 2 * CellSize[l + 1]
  <2>1. /\ l \in 0..(MaxLevel + 1) /\ l + 1 \in 0..(MaxLevel + 1)
        /\ MaxLevel + 1 - l # 0 /\ (MaxLevel + 1 - l) - 1 = MaxLevel + 1 - (l + 1)
    BY <1>0
  <2> QED
    BY <1>2, <1>4, <2>1
<1> QED
  BY <1>4, <1>5

\* Where a cell lies, and which cell it lies in.
LEMMA CellsNested ==
    ASSUME NEW p \in Point, NEW l \in 0..(MaxLevel + 1)
    PROVE  /\ CellAt(l, p) \in (0..(MaxLevel + 1)) \X Int \X Int
           /\ CellAt(l, p)[1] = l
           /\ l > 0 => ParentOf(CellAt(l, p)) = CellAt(l - 1, p)
<1>0. MaxLevel \in Nat /\ p[1] \in Int /\ p[2] \in Int
  BY RouterAssumption DEF Point
<1>1. CellSize[l] \in Nat \ {0}
  BY CellSizes
<1>2. p[1] \div CellSize[l] \in Int /\ p[2] \div CellSize[l] \in Int
  BY <1>0, <1>1
<1>3. ASSUME l > 0 PROVE ParentOf(CellAt(l, p)) = CellAt(l - 1, p)
  <2>1. l - 1 \in 0..MaxLevel /\ l - 1 + 1 = l
    BY <1>0, <1>3
  <2>2. CellSize[l - 1] = 2 * CellSize[l]
    BY <2>1, CellSizes
  <2>3. ASSUME NEW x \in Int, NEW s \in Nat \ {0} PROVE (x \div s) \div 2 = x \div (2 * s)
    OBVIOUS
  <2>4. /\ (p[1] \div CellSize[l]) \div 2 = p[1] \div CellSize[l - 1]
        /\ (p[2] \div CellSize[l]) \div 2 = p[2] \div CellSize[l - 1]
    BY <1>0, <1>1, <2>2, <2>3
  <2> QED
    BY <2>4 DEF ParentOf, CellAt
<1> QED
  BY <1>2, <1>3 DEF CellAt

\* Two points in one cell are in one cell at every level above.
LEMMA SameAbove ==
    ASSUME NEW p \in Point, NEW q \in Point, NEW l \in 0..(MaxLevel + 1), NEW m \in 0..l,
           CellAt(l, p) = CellAt(l, q)
    PROVE  CellAt(m, p) = CellAt(m, q)
<1>0. MaxLevel \in Nat
  BY RouterAssumption
<1> DEFINE B == {n \in 0..l : CellAt(l - n, p) # CellAt(l - n, q)}
<1>1. B = {}
  <2> SUFFICES ASSUME B # {} PROVE FALSE
    OBVIOUS
  <2>1. B \in SUBSET Nat
    BY <1>0
  <2>2. PICK x \in B : \A y \in B : ~(y < x)
    <3> HIDE DEF B
    <3> QED
      BY <2>1, LeastOf
  <2>3. x \in 0..l /\ x # 0
    <3>1. l - 0 = l
      BY <1>0
    <3> QED
      BY <2>2, <3>1
  <2>4. x - 1 \notin B /\ x - 1 \in 0..l
    BY <1>0, <2>2, <2>3
  <2>5. CellAt(l - (x - 1), p) = CellAt(l - (x - 1), q)
    BY <2>4
  <2>6. /\ l - (x - 1) \in 0..(MaxLevel + 1) /\ l - (x - 1) > 0
        /\ (l - (x - 1)) - 1 = l - x
    BY <1>0, <2>3
  <2> HIDE DEF B
  <2>7. /\ ParentOf(CellAt(l - (x - 1), p)) = CellAt(l - x, p)
        /\ ParentOf(CellAt(l - (x - 1), q)) = CellAt(l - x, q)
    BY <2>6, CellsNested
  <2>8. CellAt(l - x, p) = CellAt(l - x, q)
    BY <2>5, <2>7
  <2> QED
    BY <2>2, <2>8 DEF B
<1>2. l - m \in 0..l /\ l - (l - m) = m
  BY <1>0
<1> QED
  BY <1>1, <1>2

-----------------------------------------------------------------------------
(* The tree *)

\* The inductive invariant.
IInv == TypeOK /\ PartitionIsTree

IsLeaf(l, p) == CellAt(l, p) \notin split /\ \A m \in 0..(l - 1) : CellAt(m, p) \in split

\* Every point has one leaf, above the floor.
Leaves ==
    \A p \in Point :
        /\ LeafLevel(p) \in Levels /\ IsLeaf(LeafLevel(p), p)
        /\ \A l \in Levels : IsLeaf(l, p) => l = LeafLevel(p)

\* The tree has a leaf at every point.
LEMMA LeavesExist == IInv => Leaves
<1> SUFFICES ASSUME IInv, NEW p \in Point
             PROVE  /\ LeafLevel(p) \in Levels /\ IsLeaf(LeafLevel(p), p)
                    /\ \A l \in Levels : IsLeaf(l, p) => l = LeafLevel(p)
  BY DEF Leaves
<1>0. MaxLevel \in Nat /\ Levels = 0..MaxLevel
  BY RouterAssumption DEF Levels
<1> DEFINE Whole == {l \in Levels : CellAt(l, p) \notin split}
<1>1. \A l \in Levels : CellAt(l, p) \in split => l < MaxLevel
  <2>1. \A l \in Levels : l \in 0..(MaxLevel + 1)
    BY <1>0
  <2>2. \A l \in Levels : CellAt(l, p)[1] = l
    BY <2>1, CellsNested
  <2> QED
    BY <2>2 DEF IInv, PartitionIsTree
<1>2. MaxLevel \in Whole /\ Whole \in SUBSET Nat
  BY <1>0, <1>1
<1>3. PICK l \in Whole : \A y \in Whole : ~(y < l)
  <2> HIDE DEF Whole
  <2> QED
    BY <1>2, LeastOf
<1>4. l \in Levels /\ IsLeaf(l, p)
  BY <1>0, <1>3 DEF IsLeaf
<1>5. ASSUME NEW a \in 0..(MaxLevel + 1), NEW b \in 0..(MaxLevel + 1), IsLeaf(a, p), IsLeaf(b, p)
      PROVE  a = b
  <2>1. a \in 0..(b - 1) \/ b \in 0..(a - 1) \/ a = b
    BY <1>0
  <2> QED
    BY <1>5, <2>1 DEF IsLeaf
<1>6. LeafLevel(p) = CHOOSE x \in 0..(MaxLevel + 1) : IsLeaf(x, p)
  BY DEF LeafLevel, IsLeaf
<1>7. l \in 0..(MaxLevel + 1)
  BY <1>0, <1>4
<1>8. LeafLevel(p) \in 0..(MaxLevel + 1) /\ IsLeaf(LeafLevel(p), p)
  BY <1>4, <1>6, <1>7
<1>9. LeafLevel(p) = l
  BY <1>4, <1>5, <1>7, <1>8
<1>10. \A x \in Levels : x \in 0..(MaxLevel + 1)
  BY <1>0
<1> QED
  BY <1>4, <1>5, <1>8, <1>9, <1>10

\* A point belongs to its leaf's owner, or to the owner of the cell its leaf was split
\* from; nothing below a leaf is mapped.
Homes ==
    \A p \in Point :
        /\ LeafAt(p) \in DOMAIN owner => OwnerAt(p) = owner[LeafAt(p)]
        /\ LeafAt(p) \notin DOMAIN owner /\ LeafLevel(p) > 0 =>
              /\ CellAt(LeafLevel(p) - 1, p) \in DOMAIN owner
              /\ OwnerAt(p) = owner[CellAt(LeafLevel(p) - 1, p)]
        /\ LeafAt(p) \notin DOMAIN owner /\ LeafLevel(p) = 0 => OwnerAt(p) = NoShard
        /\ \A l \in Levels : l > LeafLevel(p) => CellAt(l, p) \notin DOMAIN owner

\* The greatest of a set of numbers.
LEMMA MaxIs ==
    ASSUME NEW S \in SUBSET Nat, NEW x \in S, \A y \in S : y <= x
    PROVE  Max(S) = x
<1>1. Max(S) \in S /\ \A y \in S : Max(S) >= y
  BY DEF Max
<1>2. Max(S) \in Nat /\ x \in Nat /\ Max(S) <= x /\ Max(S) >= x
  BY <1>1
<1> QED
  BY <1>2

\* The tree gives every point its home.
LEMMA HomesKnown == IInv => Homes
<1> SUFFICES ASSUME IInv, NEW p \in Point
             PROVE  /\ LeafAt(p) \in DOMAIN owner => OwnerAt(p) = owner[LeafAt(p)]
                    /\ LeafAt(p) \notin DOMAIN owner /\ LeafLevel(p) > 0 =>
                          /\ CellAt(LeafLevel(p) - 1, p) \in DOMAIN owner
                          /\ OwnerAt(p) = owner[CellAt(LeafLevel(p) - 1, p)]
                    /\ LeafAt(p) \notin DOMAIN owner /\ LeafLevel(p) = 0 => OwnerAt(p) = NoShard
                    /\ \A l \in Levels : l > LeafLevel(p) => CellAt(l, p) \notin DOMAIN owner
  BY DEF Homes
<1>0. MaxLevel \in Nat /\ Levels = 0..MaxLevel
  BY RouterAssumption DEF Levels
<1> DEFINE n == LeafLevel(p)
           mapped == {l \in 0..n : CellAt(l, p) \in DOMAIN owner}
<1>1. n \in Levels /\ IsLeaf(n, p)
  BY LeavesExist DEF Leaves
<1>2. LeafAt(p) = CellAt(n, p)
  BY DEF LeafAt
<1>3. OwnerAt(p) = IF mapped = {} THEN NoShard ELSE owner[CellAt(Max(mapped), p)]
  BY DEF OwnerAt
<1> HIDE DEF n
<1>4. \A l \in 0..(n - 1) : CellAt(l, p) \in DOMAIN owner
  BY <1>1 DEF IsLeaf, IInv, PartitionIsTree
<1>5. mapped \in SUBSET Nat /\ \A l \in mapped : l <= n
  BY <1>0, <1>1
<1>6. ASSUME CellAt(n, p) \in DOMAIN owner PROVE OwnerAt(p) = owner[CellAt(n, p)]
  <2>1. n \in mapped
    BY <1>0, <1>1, <1>6
  <2> HIDE DEF mapped
  <2>2. Max(mapped) = n
    BY <1>5, <2>1, MaxIs
  <2> QED
    BY <1>3, <2>1, <2>2
<1>7. ASSUME CellAt(n, p) \notin DOMAIN owner, n > 0
      PROVE  CellAt(n - 1, p) \in DOMAIN owner /\ OwnerAt(p) = owner[CellAt(n - 1, p)]
  <2>1. n - 1 \in mapped /\ \A l \in mapped : l <= n - 1
    BY <1>0, <1>1, <1>4, <1>7
  <2> HIDE DEF mapped
  <2>2. Max(mapped) = n - 1
    BY <1>5, <2>1, MaxIs
  <2> QED
    BY <1>3, <2>1, <2>2 DEF mapped
<1>8. ASSUME CellAt(n, p) \notin DOMAIN owner, n = 0 PROVE OwnerAt(p) = NoShard
  BY <1>3, <1>8
<1>9. ASSUME NEW l \in Levels, l > n PROVE CellAt(l, p) \notin DOMAIN owner
  <2> DEFINE Below == {x \in Levels : x > n /\ CellAt(x, p) \in DOMAIN owner}
  <2>1. Below \in SUBSET Nat
    BY <1>0
  <2>2. ASSUME Below # {} PROVE FALSE
    <3>1. PICK x \in Below : \A y \in Below : ~(y < x)
      <4> HIDE DEF Below
      <4> QED
        BY <2>1, <2>2, LeastOf
    <3>2. x \in Levels /\ x > n /\ CellAt(x, p) \in DOMAIN owner
      BY <3>1
    <3>3. x \in 0..(MaxLevel + 1) /\ x > 0 /\ x - 1 \in Levels
      BY <1>0, <1>1, <3>2
    <3>4. CellAt(x, p)[1] = x /\ ParentOf(CellAt(x, p)) = CellAt(x - 1, p)
      BY <3>3, CellsNested
    <3>5. CellAt(x - 1, p) \in split /\ CellAt(x - 1, p) \in DOMAIN owner
      BY <3>2, <3>3, <3>4 DEF IInv, PartitionIsTree
    <3>6. x - 1 = n \/ x - 1 \in Below
      BY <1>0, <1>1, <3>2, <3>3, <3>5
    <3>7. x - 1 # n
      BY <1>1, <3>5 DEF IsLeaf
    <3> QED
      BY <1>0, <3>1, <3>2, <3>3, <3>6, <3>7
  <2> QED
    BY <1>9, <2>2
<1> QED
  BY <1>2, <1>6, <1>7, <1>8, <1>9 DEF n

-----------------------------------------------------------------------------
(* The steps *)

\* A claim maps its leaf and may split it; nothing that was mapped changes hands.
LEMMA ClaimEffect ==
    ASSUME IInv, NEW q \in Places, NEW i \in Shard, ShardFor(q, i)
    PROVE  /\ q \in Point /\ LeafLevel(q) \in Levels /\ IsLeaf(LeafLevel(q), q)
           /\ LeafAt(q) = CellAt(LeafLevel(q), q) /\ LeafAt(q) \in CellKey
           /\ LeafAt(q)[1] = LeafLevel(q)
           /\ DOMAIN owner' = DOMAIN owner \cup {LeafAt(q)}
           /\ owner'[LeafAt(q)] = i
           /\ \A j \in DOMAIN owner : owner'[j] = owner[j]
           /\ \/ split' = split
              \/ split' = split \cup {LeafAt(q)} /\ LeafLevel(q) < MaxLevel
<1> DEFINE k == LeafAt(q)
           n == LeafLevel(q)
<1>0. q \in Point /\ MaxLevel \in Nat /\ Levels = 0..MaxLevel
  BY RouterAssumption DEF Point, Levels
<1>1. n \in Levels /\ IsLeaf(n, q) /\ k = CellAt(n, q)
  BY <1>0, LeavesExist DEF Leaves, LeafAt
<1>2. k \in CellKey /\ k[1] = n
  <2> HIDE DEF k, n
  <2>1. n \in 0..(MaxLevel + 1)
    BY <1>0, <1>1
  <2>2. CellAt(n, q) \in (0..(MaxLevel + 1)) \X Int \X Int /\ CellAt(n, q)[1] = n
    BY <1>0, <2>1, CellsNested
  <2>3. CellAt(n, q) = <<n, q[1] \div CellSize[n], q[2] \div CellSize[n]>>
    BY DEF CellAt
  <2> QED
    BY <1>1, <2>2, <2>3 DEF CellKey
<1>3. /\ i \in Claimable(k, q)
      /\ owner' = Mapped(k, i)
      /\ split' = IF CountOf(k) + 1 > SplitAt /\ Splittable(k[1]) THEN split \cup {k} ELSE split
  BY DEF ShardFor
<1> HIDE DEF k, n
<1>4. k \in DOMAIN owner => owner[k] = i
  BY <1>3 DEF Claimable
<1>5. /\ DOMAIN owner' = DOMAIN owner \cup {k} /\ owner'[k] = i
      /\ \A j \in DOMAIN owner : owner'[j] = owner[j]
  BY <1>3, <1>4 DEF Mapped
<1>6. split' = split \/ (split' = split \cup {k} /\ n < MaxLevel)
  BY <1>2, <1>3 DEF Splittable
<1> QED
  BY <1>0, <1>1, <1>2, <1>5, <1>6 DEF k, n

\* A claim keeps the tree.
LEMMA ClaimKeeps ==
    ASSUME IInv, NEW q \in Places, NEW i \in Shard, ShardFor(q, i)
    PROVE  IInv'
<1> DEFINE k == LeafAt(q)
           n == LeafLevel(q)
<1>0. TypeOK /\ PartitionIsTree /\ MaxLevel \in Nat /\ Levels = 0..MaxLevel
  BY RouterAssumption DEF IInv, Levels
<1>1. /\ q \in Point /\ n \in Levels /\ IsLeaf(n, q)
      /\ k = CellAt(n, q) /\ k \in CellKey /\ k[1] = n
      /\ DOMAIN owner' = DOMAIN owner \cup {k} /\ owner'[k] = i
      /\ \A j \in DOMAIN owner : owner'[j] = owner[j]
      /\ split' = split \/ (split' = split \cup {k} /\ n < MaxLevel)
  BY ClaimEffect
<1>2. /\ rx_count' = [j \in DOMAIN rx_count \cup {k} |->
                          IF j = k THEN CountOf(k) + 1 ELSE rx_count[j]]
      /\ receivers' = [receivers EXCEPT ![i] = @ + 1]
      /\ nclaims < MaxClaims /\ nclaims' = nclaims + 1
  BY DEF ShardFor
<1> HIDE DEF k, n
<1>3. TypeOK'
  <2>1. \A j \in DOMAIN owner' : j \in CellKey /\ owner'[j] \in Shard
    BY <1>0, <1>1 DEF TypeOK
  <2>2. CountOf(k) \in Nat
    BY <1>0 DEF TypeOK, CountOf
  <2>3. \A j \in DOMAIN rx_count' : j \in CellKey /\ rx_count'[j] \in Nat
    BY <1>0, <1>1, <1>2, <2>2 DEF TypeOK
  <2>4. split' \subseteq CellKey
    BY <1>0, <1>1 DEF TypeOK
  <2>5. receivers' \in [Shard -> Nat]
    BY <1>0, <1>2 DEF TypeOK
  <2>6. nclaims' \in 0..MaxClaims
    BY <1>0, <1>2, RouterAssumption DEF TypeOK
  <2> QED
    BY <2>1, <2>3, <2>4, <2>5, <2>6 DEF TypeOK
<1>4. k[1] > 0 => ParentOf(k) \in split
  <2> SUFFICES ASSUME n > 0 PROVE ParentOf(k) \in split
    BY <1>1
  <2>1. n \in 0..(MaxLevel + 1) /\ n - 1 \in 0..(n - 1)
    BY <1>0, <1>1
  <2>2. ParentOf(CellAt(n, q)) = CellAt(n - 1, q)
    BY <1>1, <2>1, CellsNested
  <2> QED
    BY <1>1, <2>1, <2>2 DEF IsLeaf
<1>5. PartitionIsTree'
  BY <1>0, <1>1, <1>4 DEF PartitionIsTree
<1> QED
  BY <1>3, <1>5 DEF IInv

\* What a claim does to a point: in the claimed leaf it is the claimant's from now on,
\* anywhere else its owner stays.
LEMMA ClaimMoves ==
    ASSUME IInv, NEW q \in Places, NEW i \in Shard, ShardFor(q, i), NEW p \in Point
    PROVE  /\ LeafAt(p) = LeafAt(q) => OwnerAt(p)' = i
           /\ LeafAt(p) # LeafAt(q) => OwnerAt(p)' = OwnerAt(p)
<1> DEFINE k == LeafAt(q)
           n == LeafLevel(q)
           l == LeafLevel(p)
<1>0. MaxLevel \in Nat /\ Levels = 0..MaxLevel
  BY RouterAssumption DEF Levels
<1>1. /\ q \in Point /\ n \in Levels /\ IsLeaf(n, q)
      /\ k = CellAt(n, q) /\ k[1] = n
      /\ DOMAIN owner' = DOMAIN owner \cup {k} /\ owner'[k] = i
      /\ \A j \in DOMAIN owner : owner'[j] = owner[j]
      /\ split' = split \/ (split' = split \cup {k} /\ n < MaxLevel)
  BY ClaimEffect
<1>2. l \in Levels /\ IsLeaf(l, p) /\ LeafAt(p) = CellAt(l, p)
  BY LeavesExist DEF Leaves, LeafAt
<1>3. /\ CellAt(l, p) \in DOMAIN owner => OwnerAt(p) = owner[CellAt(l, p)]
      /\ CellAt(l, p) \notin DOMAIN owner /\ l > 0 =>
            /\ CellAt(l - 1, p) \in DOMAIN owner
            /\ OwnerAt(p) = owner[CellAt(l - 1, p)]
      /\ CellAt(l, p) \notin DOMAIN owner /\ l = 0 => OwnerAt(p) = NoShard
      /\ \A m \in Levels : m > l => CellAt(m, p) \notin DOMAIN owner
  BY HomesKnown, <1>2 DEF Homes
<1>4. IInv'
  BY ClaimKeeps
<1>5. Leaves' /\ Homes'
  <2>1. IInv' => Leaves'
    BY LeavesExist, PTL
  <2>2. IInv' => Homes'
    BY HomesKnown, PTL
  <2> QED
    BY <1>4, <2>1, <2>2
<1>6. ASSUME NEW x \in Levels,
             CellAt(x, p) \notin split', \A m \in 0..(x - 1) : CellAt(m, p) \in split'
      PROVE  /\ CellAt(x, p) \in DOMAIN owner' => OwnerAt(p)' = owner'[CellAt(x, p)]
             /\ CellAt(x, p) \notin DOMAIN owner' /\ x > 0 =>
                    OwnerAt(p)' = owner'[CellAt(x - 1, p)]
             /\ CellAt(x, p) \notin DOMAIN owner' /\ x = 0 => OwnerAt(p)' = NoShard
  <2>1. IsLeaf(x, p)'
    BY <1>6 DEF IsLeaf
  <2>2. x = LeafLevel(p)'
    BY <1>5, <2>1 DEF Leaves
  <2>3. LeafAt(p)' = CellAt(x, p)
    BY <2>2 DEF LeafAt
  <2> QED
    BY <1>5, <2>2, <2>3 DEF Homes
<1>7. ASSUME NEW m \in Levels PROVE CellAt(m, p)[1] = m
  <2>1. m \in 0..(MaxLevel + 1)
    BY <1>0, <1>7
  <2> QED
    BY <2>1, CellsNested
<1> HIDE DEF k, n, l
<1>8. ASSUME CellAt(l, p) = k PROVE OwnerAt(p)' = i
  <2>1. l = n
    BY <1>1, <1>2, <1>7, <1>8
  <2>2. CASE split' = split
    BY <1>1, <1>2, <1>6, <1>8, <2>2 DEF IsLeaf
  <2>3. CASE split' = split \cup {k} /\ n < MaxLevel
    <3>1. l + 1 \in Levels /\ l + 1 > l /\ l + 1 > 0 /\ (l + 1) - 1 = l
      BY <1>0, <1>2, <2>1, <2>3
    <3>2. CellAt(l + 1, p) \notin DOMAIN owner /\ CellAt(l + 1, p) # k
      BY <1>1, <1>3, <1>7, <2>1, <3>1
    <3>3. CellAt(l + 1, p) \notin split' /\ CellAt(l + 1, p) \notin DOMAIN owner'
      BY <1>1, <2>3, <3>2 DEF IInv, PartitionIsTree
    <3>4. \A m \in 0..l : CellAt(m, p) \in split'
      <4>1. \A m \in 0..l : m \in 0..(l - 1) \/ m = l
        BY <1>0, <1>2
      <4> QED
        BY <1>2, <1>8, <2>3, <4>1 DEF IsLeaf
    <3>5. OwnerAt(p)' = owner'[CellAt(l, p)]
      BY <1>6, <3>1, <3>3, <3>4
    <3> QED
      BY <1>1, <1>8, <3>5
  <2> QED
    BY <1>1, <2>2, <2>3
<1>9. ASSUME CellAt(l, p) # k PROVE OwnerAt(p)' = OwnerAt(p)
  <2>1. ASSUME NEW m \in Levels, CellAt(m, p) = k PROVE FALSE
    <3>1. m = n /\ CellAt(n, p) = CellAt(n, q) /\ n # l
      BY <1>1, <1>7, <1>9, <2>1
    <3>2. n \in 0..(l - 1) \/ (l \in 0..(n - 1) /\ l \in 0..n)
      BY <1>0, <1>1, <1>2, <3>1
    <3>3. CASE n \in 0..(l - 1)
      BY <1>1, <1>2, <3>1, <3>3 DEF IsLeaf
    <3>4. CASE l \in 0..(n - 1) /\ l \in 0..n
      <4>1. n \in 0..(MaxLevel + 1)
        BY <1>0, <1>1
      <4>2. CellAt(l, p) = CellAt(l, q)
        BY <1>1, <3>1, <3>4, <4>1, SameAbove
      <4> QED
        BY <1>1, <1>2, <3>4, <4>2 DEF IsLeaf
    <3> QED
      BY <3>2, <3>3, <3>4
  <2>2. CellAt(l, p) \notin split' /\ \A m \in 0..(l - 1) : CellAt(m, p) \in split'
    BY <1>1, <1>2, <1>9 DEF IsLeaf
  <2>3. CellAt(l, p) \in DOMAIN owner' <=> CellAt(l, p) \in DOMAIN owner
    BY <1>1, <1>9
  <2>4. CASE CellAt(l, p) \in DOMAIN owner
    BY <1>1, <1>2, <1>3, <1>6, <2>2, <2>3, <2>4
  <2>5. CASE CellAt(l, p) \notin DOMAIN owner /\ l > 0
    BY <1>1, <1>2, <1>3, <1>6, <2>2, <2>3, <2>5
  <2>6. CASE CellAt(l, p) \notin DOMAIN owner /\ l = 0
    BY <1>2, <1>3, <1>6, <2>2, <2>3, <2>6
  <2> QED
    BY <1>0, <1>2, <2>4, <2>5, <2>6
<1> QED
  BY <1>2, <1>8, <1>9 DEF k

-----------------------------------------------------------------------------
(* The theorems *)

\* An empty map.
LEMMA InitInv == Init => IInv
<1> SUFFICES ASSUME Init PROVE IInv
  OBVIOUS
<1>1. DOMAIN owner = {} /\ DOMAIN rx_count = {} /\ split = {}
  BY DEF Init
<1>2. receivers \in [Shard -> Nat] /\ nclaims \in 0..MaxClaims
  BY RouterAssumption DEF Init
<1> QED
  BY <1>1, <1>2 DEF IInv, TypeOK, PartitionIsTree

\* A claim or a release keeps the tree.
LEMMA NextInv == IInv /\ [Next]_vars => IInv'
<1> SUFFICES ASSUME IInv, [Next]_vars PROVE IInv'
  OBVIOUS
<1>1. ASSUME NEW p \in Places, NEW i \in Shard, ShardFor(p, i) PROVE IInv'
  BY <1>1, ClaimKeeps
<1>2. ASSUME NEW s \in Shard, Release(s) PROVE IInv'
  <2>1. receivers' \in [Shard -> Nat]
    BY <1>2 DEF IInv, TypeOK, Release
  <2> QED
    BY <1>2, <2>1 DEF IInv, TypeOK, PartitionIsTree, Release, cellmap
<1>3. CASE UNCHANGED vars
  BY <1>3 DEF IInv, TypeOK, PartitionIsTree, vars
<1> QED
  BY <1>1, <1>2, <1>3 DEF Next

\* The inductive invariant holds whatever is claimed and released in whatever order.
THEOREM RouterInvariant == Spec => []IInv
<1> QED
  BY InitInv, NextInv, PTL DEF Spec

\* The cell map keeps to its type: no key lies below the floor, no count and no load
\* goes negative.
THEOREM RouterTypeCorrect == Spec => []TypeOK
<1>1. IInv => TypeOK
  BY DEF IInv
<1> QED
  BY <1>1, RouterInvariant, PTL

\* The cells are a quadtree at every depth and for every threshold: leaf_at ends.
THEOREM PartitionStaysTree == Spec => []PartitionIsTree
<1>1. IInv => PartitionIsTree
  BY DEF IInv
<1> QED
  BY <1>1, RouterInvariant, PTL

\* No claim and no split takes a point from the shard that owns it, unless the point's
\* own leaf is mapped for the first time; no point becomes nobody's.
THEOREM TerritoryStaysKept == Spec => TerritoryKept
<1>1. ASSUME IInv, NEW q \in Places, NEW i \in Shard, ShardFor(q, i), NEW p \in Places
      PROVE  KeepsOwner(p)
  <2>1. p \in Point /\ i # NoShard
    BY RouterAssumption DEF Point, Shard, NoShard
  <2>2. /\ LeafAt(p) = LeafAt(q) => OwnerAt(p)' = i
        /\ LeafAt(p) # LeafAt(q) => OwnerAt(p)' = OwnerAt(p)
    BY <1>1, <2>1, ClaimMoves
  <2>3. /\ DOMAIN owner' = DOMAIN owner \cup {LeafAt(q)} /\ owner'[LeafAt(q)] = i
        /\ \A j \in DOMAIN owner : owner'[j] = owner[j]
    BY <1>1, ClaimEffect
  <2>4. LeafAt(p) \in DOMAIN owner => OwnerAt(p) = owner[LeafAt(p)]
    BY <1>1, <2>1, HomesKnown DEF Homes
  <2>5. CASE LeafAt(p) = LeafAt(q)
    BY <2>1, <2>2, <2>3, <2>4, <2>5 DEF KeepsOwner
  <2>6. CASE LeafAt(p) # LeafAt(q)
    BY <2>2, <2>6 DEF KeepsOwner
  <2> QED
    BY <2>5, <2>6
<1>2. IInv /\ [Next]_vars => [cellmap' # cellmap => \A p \in Places : KeepsOwner(p)]_vars
  BY <1>1 DEF Next, Release
<1> QED
  BY <1>2, RouterInvariant, PTL DEF Spec, TerritoryKept

\* From its claim on a receiver is counted by the shard that owns every place in its
\* leaf, whether or not the leaf splits in the same step.
THEOREM ClaimsGoToOwner == Spec => ClaimedByOwner
<1> DEFINE A == \A i \in Shard : receivers'[i] > receivers[i] =>
                    \A p \in Places : CountedIn(LeafAt(p)) => OwnerAt(p)' = i
<1>1. ASSUME IInv, NEW q \in Places, NEW j \in Shard, ShardFor(q, j),
             NEW i \in Shard, receivers'[i] > receivers[i],
             NEW p \in Places, CountedIn(LeafAt(p))
      PROVE  OwnerAt(p)' = i
  <2>1. receivers \in [Shard -> Nat] /\ receivers' = [receivers EXCEPT ![j] = @ + 1]
    BY <1>1 DEF IInv, TypeOK, ShardFor
  <2>2. i = j
    BY <1>1, <2>1
  <2>3. rx_count' = [c \in DOMAIN rx_count \cup {LeafAt(q)} |->
                        IF c = LeafAt(q) THEN CountOf(LeafAt(q)) + 1 ELSE rx_count[c]]
    BY <1>1 DEF ShardFor
  <2>4. LeafAt(p) = LeafAt(q)
    <3> SUFFICES ASSUME LeafAt(p) # LeafAt(q) PROVE FALSE
      OBVIOUS
    <3>1. LeafAt(p) \in DOMAIN rx_count /\ rx_count'[LeafAt(p)] = rx_count[LeafAt(p)]
      BY <1>1, <2>3 DEF CountedIn
    <3>2. rx_count[LeafAt(p)] \in Nat /\ CountOf(LeafAt(p)) = rx_count[LeafAt(p)]
      BY <1>1, <3>1 DEF IInv, TypeOK, CountOf
    <3> QED
      BY <1>1, <3>1, <3>2 DEF CountedIn
  <2>5. p \in Point
    BY RouterAssumption DEF Point
  <2> QED
    BY <1>1, <2>2, <2>4, <2>5, ClaimMoves
<1>2. ASSUME IInv, NEW s \in Shard, Release(s), NEW i \in Shard
      PROVE  ~(receivers'[i] > receivers[i])
  BY <1>2 DEF IInv, TypeOK, Release
<1>3. IInv /\ [Next]_vars => [A]_vars
  <2> SUFFICES ASSUME IInv, Next PROVE A
    BY DEF A
  <2> QED
    BY <1>1, <1>2 DEF Next
<1> QED
  BY <1>3, RouterInvariant, PTL DEF Spec, ClaimedByOwner
===============================================================================
