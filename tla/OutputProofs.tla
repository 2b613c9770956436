----------------------------- MODULE OutputProofs -----------------------------
(***************************************************************************)
(* Proofs about Output, for every capacity of the channel and of the twin  *)
(* memory, however many fixes are solved.  Two things make its properties  *)
(* inductive: the twin memory is the tail of what was published            *)
(* (OrderIsTail), and a published cell stays its shard's (CellsOwned).     *)
(***************************************************************************)
EXTENDS Output, RouterProofs, FiniteSetTheorems

PublishedRow == [key : FixKey, shard : Shard, cell : SUBSET CellKey]

OutTyped ==
    outq \in Seq(OutRow) /\ order \in Seq(FixKey) /\ published \in Seq(PublishedRow)

\* The queue of keys is the last DedupeCap keys published.
OrderLength == Len(order) = IF Len(published) < DedupeCap THEN Len(published) ELSE DedupeCap
OrderIsTail ==
    \A i \in 1..Len(order) : order[i] = published[Len(published) - Len(order) + i].key

\* A cell over which a fix was published still belongs to the shard that solved it.
CellsOwned ==
    \A i \in 1..Len(published) :
        \A k \in published[i].cell : k \in DOMAIN owner /\ owner[k] = published[i].shard

\* The inductive invariant, on top of the Router's.
OutInv ==
    /\ IInv
    /\ OutTyped /\ RecentIsOrder /\ OrderLength /\ OrderIsTail /\ PublishedOnce /\ CellsOwned

-----------------------------------------------------------------------------
\* A row is published for the owner of its cell.
LEMMA PublishedByOwner ==
    ASSUME OutInv, Publish
    PROVE  /\ Head(outq) \in OutRow
           /\ \A k \in MappedCell(Head(outq).place) :
                 /\ k \in CellKey /\ k \in DOMAIN owner
                 /\ owner[k] = Head(outq).shard
<1> DEFINE row == Head(outq)
<1>1. row \in OutRow
  BY DEF OutInv, OutTyped, Publish
<1>2. row.place \in Point /\ ~Foreign(row) /\ IInv
  BY <1>1, RouterAssumption DEF Publish, OutRow, Point, OutInv
<1> HIDE DEF row
<1>3. ASSUME NEW k \in MappedCell(row.place)
      PROVE  k \in CellKey /\ k \in DOMAIN owner /\ owner[k] = row.shard
  <2>1. k = LeafAt(row.place) /\ k \in DOMAIN owner
    BY <1>3 DEF MappedCell
  <2>2. OwnerAt(row.place) = owner[k]
    BY <1>2, <2>1, HomesKnown DEF Homes
  <2>3. owner[k] \in Shard /\ k \in CellKey
    BY <1>2, <2>1 DEF IInv, TypeOK
  <2>4. owner[k] # NoShard
    BY <2>3, RouterAssumption DEF Shard, NoShard
  <2> QED
    BY <1>2, <2>1, <2>2, <2>3, <2>4 DEF Foreign
<1> QED
  BY <1>1, <1>3 DEF row

\* The keys in the twin memory are all different.
LEMMA OrderDistinct ==
    ASSUME OutInv, NEW i \in 1..Len(order), NEW j \in 1..Len(order), order[i] = order[j]
    PROVE  i = j
<1> DEFINE n == Len(published)
           m == Len(order)
<1>0. /\ n \in Nat /\ m \in Nat /\ m <= n /\ m <= DedupeCap /\ DedupeCap \in Nat
      /\ \A x \in 1..m : order[x] = published[n - m + x].key
  <2>1. n \in Nat /\ m \in Nat /\ DedupeCap \in Nat
    BY OutputAssumption DEF OutInv, OutTyped
  <2>2. m = IF n < DedupeCap THEN n ELSE DedupeCap
    BY DEF OutInv, OrderLength
  <2>3. \A x \in 1..m : order[x] = published[n - m + x].key
    BY DEF OutInv, OrderIsTail
  <2> HIDE DEF n, m
  <2>4. m <= n /\ m <= DedupeCap
    BY <2>1, <2>2
  <2> QED
    BY <2>1, <2>3, <2>4
<1>1. \A x, y \in 1..n : x < y /\ published[x].key = published[y].key => y - x > DedupeCap
  BY DEF OutInv, PublishedOnce
<1>2. i \in 1..m /\ j \in 1..m
  OBVIOUS
<1> HIDE DEF n, m
<1>3. /\ n - m + i \in 1..n /\ n - m + j \in 1..n
      /\ published[n - m + i].key = published[n - m + j].key
  BY <1>0, <1>2
<1>4. CASE i < j
  BY <1>0, <1>1, <1>2, <1>3, <1>4
<1>5. CASE j < i
  BY <1>0, <1>1, <1>2, <1>3, <1>5
<1> QED
  BY <1>0, <1>2, <1>4, <1>5

\* What publishing a row does to the twin memory: its key comes last and, when the
\* memory is full, the first one goes.
LEMMA MemoryMoves ==
    ASSUME OutInv, Publish
    PROVE  LET key == Head(outq).key
               m == Len(order)
           IN  /\ key \in FixKey /\ order' \in Seq(FixKey)
               /\ \A i \in 1..m : order[i] # key
               /\ m < DedupeCap =>
                     /\ Len(order') = m + 1
                     /\ \A i \in 1..m : order'[i] = order[i]
                     /\ order'[m + 1] = key
                     /\ recent' = recent \cup {key}
               /\ m = DedupeCap =>
                     /\ Len(order') = m
                     /\ \A i \in 1..(m - 1) : order'[i] = order[i + 1]
                     /\ m > 0 => order'[m] = key /\ recent' = (recent \cup {key}) \ {order[1]}
                     /\ m = 0 => recent' = (recent \cup {key}) \ {key}
<1> DEFINE key == Head(outq).key
           m == Len(order)
           keys == Append(order, key)
<1>1. key \in FixKey
  BY PublishedByOwner DEF OutRow
<1>2. /\ order \in Seq(FixKey) /\ m \in Nat /\ DedupeCap \in Nat /\ m <= DedupeCap
      /\ recent = {order[i] : i \in 1..m} /\ key \notin recent
  BY OutputAssumption DEF OutInv, OutTyped, RecentIsOrder, Publish
<1>3. order' = Trimmed(keys) /\ recent' = RecentOf(keys)
  BY DEF Publish
<1> HIDE DEF key
<1>4. /\ keys \in Seq(FixKey) /\ Len(keys) = m + 1 /\ keys[m + 1] = key
      /\ \A i \in 1..m : keys[i] = order[i]
      /\ Head(keys) = keys[1] /\ keys # <<>>
  BY <1>1, <1>2
<1>5. \A i \in 1..m : order[i] # key
  BY <1>2
<1> HIDE DEF m, keys
<1>6. ASSUME m < DedupeCap
      PROVE  /\ order' = keys /\ recent' = recent \cup {key}
  <2>1. ~(Len(keys) > DedupeCap)
    BY <1>2, <1>4, <1>6
  <2> QED
    BY <1>3, <1>4, <2>1 DEF Trimmed, RecentOf
<1>7. ASSUME m = DedupeCap
      PROVE  order' = Tail(keys) /\ recent' = (recent \cup {key}) \ {keys[1]}
  <2>1. Len(keys) > DedupeCap
    BY <1>2, <1>4, <1>7
  <2> QED
    BY <1>3, <1>4, <2>1 DEF Trimmed, RecentOf
<1>8. /\ Tail(keys) \in Seq(FixKey) /\ Len(Tail(keys)) = m
      /\ \A i \in 1..m : Tail(keys)[i] = keys[i + 1]
  BY <1>2, <1>4
<1>9. order' \in Seq(FixKey)
  BY <1>2, <1>4, <1>6, <1>7, <1>8
<1>10. m < DedupeCap =>
           /\ Len(order') = m + 1
           /\ \A i \in 1..m : order'[i] = order[i]
           /\ order'[m + 1] = key
           /\ recent' = recent \cup {key}
  BY <1>4, <1>6
<1>11. m = DedupeCap =>
           /\ Len(order') = m
           /\ \A i \in 1..(m - 1) : order'[i] = order[i + 1]
           /\ m > 0 => order'[m] = key /\ recent' = (recent \cup {key}) \ {order[1]}
           /\ m = 0 => recent' = (recent \cup {key}) \ {key}
  BY <1>2, <1>4, <1>7, <1>8, SMTT(30)
<1> QED
  BY <1>1, <1>5, <1>9, <1>10, <1>11 DEF key, m

\* Publishing keeps the twin memory the tail of what was published, and its set the
\* set of its keys.
LEMMA PublishKeeps ==
    ASSUME OutInv, Publish
    PROVE  OutInv'
<1> DEFINE row == Head(outq)
           key == row.key
           m == Len(order)
           n == Len(published)
           new == [key |-> row.key, shard |-> row.shard, cell |-> MappedCell(row.place)]
<1>0. /\ n \in Nat /\ m \in Nat /\ DedupeCap \in Nat
      /\ m = IF n < DedupeCap THEN n ELSE DedupeCap
      /\ \A x \in 1..m : order[x] = published[n - m + x].key
      /\ UNCHANGED vars
  <2>1. n \in Nat /\ m \in Nat /\ DedupeCap \in Nat /\ UNCHANGED vars
    BY OutputAssumption DEF OutInv, OutTyped, Publish
  <2>2. m = IF n < DedupeCap THEN n ELSE DedupeCap
    BY DEF OutInv, OrderLength
  <2>3. \A x \in 1..m : order[x] = published[n - m + x].key
    BY DEF OutInv, OrderIsTail
  <2> QED
    BY <2>1, <2>2, <2>3
<1>1. /\ key \in FixKey /\ order' \in Seq(FixKey)
      /\ \A i \in 1..m : order[i] # key
      /\ m < DedupeCap =>
            /\ Len(order') = m + 1
            /\ \A i \in 1..m : order'[i] = order[i]
            /\ order'[m + 1] = key
            /\ recent' = recent \cup {key}
      /\ m = DedupeCap =>
            /\ Len(order') = m
            /\ \A i \in 1..(m - 1) : order'[i] = order[i + 1]
            /\ m > 0 => order'[m] = key /\ recent' = (recent \cup {key}) \ {order[1]}
            /\ m = 0 => recent' = (recent \cup {key}) \ {key}
  BY MemoryMoves
<1>2. /\ row \in OutRow /\ MappedCell(row.place) \subseteq CellKey
      /\ \A k \in MappedCell(row.place) : k \in DOMAIN owner /\ owner[k] = row.shard
  BY PublishedByOwner
<1>3. /\ new \in PublishedRow /\ new.key = key /\ new.shard = row.shard
      /\ new.cell = MappedCell(row.place)
  BY <1>2 DEF PublishedRow, OutRow
<1>4. /\ published \in Seq(PublishedRow) /\ published' = Append(published, new)
      /\ outq \in Seq(OutRow) /\ outq # <<>> /\ outq' = Tail(outq)
  BY DEF OutInv, OutTyped, Publish
<1> HIDE DEF row, key, new
<1>5. /\ published' \in Seq(PublishedRow) /\ Len(published') = n + 1
      /\ \A i \in 1..n : published'[i] = published[i]
      /\ published'[n + 1] = new
      /\ outq' \in Seq(OutRow)
  BY <1>3, <1>4
<1>6. \A i, j \in 1..m : order[i] = order[j] => i = j
  BY OrderDistinct
<1>7. recent = {order[i] : i \in 1..m} /\ Cardinality(recent) = m
  BY DEF OutInv, RecentIsOrder
<1>8. \A i, j \in 1..n : i < j /\ published[i].key = published[j].key => j - i > DedupeCap
  BY DEF OutInv, PublishedOnce
<1>9. \A i \in 1..n :
          \A k \in published[i].cell : k \in DOMAIN owner /\ owner[k] = published[i].shard
  BY DEF OutInv, CellsOwned
<1> HIDE DEF m, n
<1>10. OutTyped'
  BY <1>1, <1>5 DEF OutTyped
<1>11. OrderLength' /\ OrderIsTail'
  <2>1. CASE m < DedupeCap
    <3>1. m = n /\ Len(order') = n + 1
      BY <1>0, <1>1, <2>1
    <3>2. \A i \in 1..(n + 1) : order'[i] = published'[i].key
      BY <1>0, <1>1, <1>3, <1>5, <2>1, <3>1
    <3>3. Len(published') - Len(order') = 0
      BY <1>0, <1>5, <3>1
    <3>4. OrderLength'
      BY <1>0, <1>5, <2>1, <3>1 DEF OrderLength
    <3>5. \A i \in 1..(n + 1) : 0 + i = i
      BY <1>0
    <3> QED
      BY <3>1, <3>2, <3>3, <3>4, <3>5 DEF OrderIsTail
  <2>2. CASE m = DedupeCap
    <3>1. Len(order') = m /\ n >= m /\ Len(published') = n + 1
      BY <1>0, <1>1, <1>5, <2>2
    <3>2. ASSUME NEW i \in 1..m PROVE order'[i] = published'[n + 1 - m + i].key
      <4>1. CASE i = m
        <5>1. n + 1 - m + i = n + 1
          BY <1>0, <4>1
        <5> QED
          BY <1>0, <1>1, <1>3, <1>5, <2>2, <4>1, <5>1
      <4>2. CASE i # m
        <5>1. /\ i \in 1..(m - 1) /\ i + 1 \in 1..m
              /\ n + 1 - m + i = n - m + (i + 1) /\ n - m + (i + 1) \in 1..n
          BY <1>0, <3>1, <4>2
        <5>2. order'[i] = order[i + 1] /\ order[i + 1] = published[n - m + (i + 1)].key
          BY <1>0, <1>1, <2>2, <5>1
        <5> QED
          BY <1>5, <5>1, <5>2
      <4> QED
        BY <4>1, <4>2
    <3>3. ~(n + 1 < DedupeCap)
      BY <1>0, <2>2, <3>1
    <3>4. OrderLength'
      BY <2>2, <3>1, <3>3 DEF OrderLength
    <3>5. Len(published') - Len(order') = n + 1 - m /\ Len(order') = m
      BY <1>0, <3>1
    <3>6. OrderIsTail'
      BY <3>2, <3>5, Zenon DEF OrderIsTail
    <3> QED
      BY <3>4, <3>6
  <2> QED
    BY <1>0, <2>1, <2>2
<1>12. PublishedOnce'
  <2>1. ASSUME NEW i \in 1..n, published[i].key = key PROVE (n + 1) - i > DedupeCap
    <3>1. ~(i > n - m)
      <4> SUFFICES ASSUME i > n - m PROVE FALSE
        OBVIOUS
      <4>1. i - (n - m) \in 1..m /\ n - m + (i - (n - m)) = i
        BY <1>0
      <4> QED
        BY <1>0, <1>1, <2>1, <4>1
    <3> QED
      BY <1>0, <3>1
  <2>2. ASSUME NEW i \in 1..(n + 1), NEW j \in 1..(n + 1), i < j,
               published'[i].key = published'[j].key
        PROVE  j - i > DedupeCap
    <3>1. i \in 1..n /\ published'[i] = published[i]
      BY <1>0, <1>5, <2>2
    <3>2. CASE j \in 1..n
      BY <1>5, <1>8, <2>2, <3>1, <3>2
    <3>3. CASE j = n + 1
      BY <1>3, <1>5, <2>1, <2>2, <3>1, <3>3
    <3> QED
      BY <1>0, <3>2, <3>3
  <2> QED
    BY <1>5, <2>2 DEF PublishedOnce
<1>13. CellsOwned'
  <2>1. ASSUME NEW i \in 1..(n + 1), NEW k \in published'[i].cell
        PROVE  k \in DOMAIN owner /\ owner[k] = published'[i].shard
    <3>1. CASE i \in 1..n
      BY <1>5, <1>9, <2>1, <3>1
    <3>2. CASE i = n + 1
      BY <1>2, <1>3, <1>5, <2>1, <3>2
    <3> QED
      BY <1>0, <3>1, <3>2
  <2> QED
    BY <1>0, <1>5, <2>1 DEF CellsOwned, vars
<1>14. RecentIsOrder'
  <2>0. IsFiniteSet(recent) /\ key \notin recent
    <3> DEFINE f == [i \in 1..m |-> order[i]]
    <3>0. 1 \in Int /\ m \in Int
      BY <1>0
    <3>1. IsFiniteSet(1..m)
      BY <3>0, FS_Interval, Zenon
    <3>2. f \in Surjection(1..m, recent)
      BY <1>7 DEF Surjection
    <3> HIDE DEF f
    <3> QED
      BY <1>1, <1>7, <3>1, <3>2, FS_Surjection
  <2>1. IsFiniteSet(recent \cup {key}) /\ Cardinality(recent \cup {key}) = m + 1
    BY <1>7, <2>0, FS_AddElement
  <2>2. CASE m < DedupeCap
    <3>1. recent' = {order'[i] : i \in 1..(m + 1)}
      <4>1. ASSUME NEW x \in recent' PROVE \E i \in 1..(m + 1) : x = order'[i]
        BY <1>0, <1>1, <1>7, <2>2, <4>1
      <4>2. ASSUME NEW i \in 1..(m + 1) PROVE order'[i] \in recent'
        BY <1>0, <1>1, <1>7, <2>2, <4>2
      <4> QED
        BY <4>1, <4>2
    <3>2. Len(order') = m + 1 /\ recent' = recent \cup {key}
      BY <1>1, <2>2
    <3>3. m + 1 <= DedupeCap
      BY <1>0, <2>2
    <3> QED
      BY <2>1, <3>1, <3>2, <3>3 DEF RecentIsOrder
  <2>3. CASE m = DedupeCap /\ m > 0
    <3>0. 1 \in 1..m /\ m \in 1..m
      BY <1>0, <2>3
    <3>1. order[1] \in recent \cup {key} /\ order[1] # key
      BY <1>1, <1>7, <3>0
    <3>2. Cardinality(recent') = m
      <4>1. Cardinality((recent \cup {key}) \ {order[1]}) = Cardinality(recent \cup {key}) - 1
        BY <2>1, <3>1, FS_RemoveElement
      <4>2. recent' = (recent \cup {key}) \ {order[1]} /\ (m + 1) - 1 = m
        BY <1>0, <1>1, <2>3
      <4> QED
        BY <2>1, <4>1, <4>2
    <3>3. recent' = {order'[i] : i \in 1..m}
      <4>1. ASSUME NEW x \in recent' PROVE \E i \in 1..m : x = order'[i]
        <5>1. CASE x = key
          BY <1>1, <2>3, <3>0, <5>1
        <5>2. CASE x \in recent /\ x # order[1]
          <6>1. PICK j \in 1..m : x = order[j]
            BY <1>7, <5>2
          <6>2. j - 1 \in 1..(m - 1) /\ (j - 1) + 1 = j /\ j - 1 \in 1..m
            BY <1>0, <5>2, <6>1
          <6> QED
            BY <1>1, <2>3, <6>1, <6>2
        <5> QED
          BY <1>1, <2>3, <4>1, <5>1, <5>2
      <4>2. ASSUME NEW i \in 1..m PROVE order'[i] \in recent'
        <5>1. CASE i = m
          BY <1>1, <2>3, <3>1, <5>1
        <5>2. CASE i # m
          <6>1. i \in 1..(m - 1) /\ i + 1 \in 1..m /\ i + 1 # 1
            BY <1>0, <5>2
          <6>2. order[i + 1] \in recent /\ order[i + 1] # order[1]
            BY <1>6, <1>7, <3>0, <6>1
          <6> QED
            BY <1>1, <2>3, <6>1, <6>2
        <5> QED
          BY <5>1, <5>2
      <4> QED
        BY <4>1, <4>2
    <3> QED
      BY <1>0, <1>1, <2>3, <3>2, <3>3 DEF RecentIsOrder
  <2>4. CASE m = DedupeCap /\ m = 0
    <3>1. recent = {}
      BY <1>7, <2>4
    <3>2. recent' = {} /\ Len(order') = 0 /\ 1..0 = {} /\ Cardinality({}) = 0
      BY <1>1, <2>4, <3>1, FS_EmptySet
    <3> QED
      BY <1>0, <2>4, <3>2 DEF RecentIsOrder
  <2> QED
    BY <1>0, <2>2, <2>3, <2>4
<1>15. IInv'
  BY <1>0 DEF OutInv, IInv, TypeOK, PartitionIsTree, vars
<1> QED
  BY <1>10, <1>11, <1>12, <1>13, <1>14, <1>15 DEF OutInv

-----------------------------------------------------------------------------
(* The theorems *)

\* Nothing solved yet.
LEMMA OutputInitInv == OutputInit => OutInv
<1> SUFFICES ASSUME OutputInit PROVE OutInv
  OBVIOUS
<1>1. outq = <<>> /\ order = <<>> /\ published = <<>> /\ recent = {}
  BY DEF OutputInit
<1>2. Len(order) = 0 /\ Len(published) = 0 /\ 1..0 = {} /\ Cardinality({}) = 0
  BY <1>1, FS_EmptySet
<1>3. IInv
  BY InitInv DEF OutputInit
<1>4. OutTyped
  BY <1>1 DEF OutTyped
<1>5. RecentIsOrder /\ OrderLength
  BY <1>1, <1>2, OutputAssumption DEF RecentIsOrder, OrderLength
<1>6. OrderIsTail /\ PublishedOnce /\ CellsOwned
  BY <1>2 DEF OrderIsTail, PublishedOnce, CellsOwned
<1> QED
  BY <1>3, <1>4, <1>5, <1>6 DEF OutInv

\* A step of the system is a step of the Router or leaves the partition alone.
LEMMA StepIsRouterStep == [OutputNext]_allvars => [Next]_vars
BY DEF OutputNext, allvars, vars, Emit, Drop, Publish

\* Every step keeps the invariant.
LEMMA OutputNextInv == OutInv /\ [OutputNext]_allvars => OutInv'
<1> SUFFICES ASSUME OutInv, [OutputNext]_allvars PROVE OutInv'
  OBVIOUS
<1>1. IInv'
  BY NextInv, StepIsRouterStep DEF OutInv
<1>2. CASE UNCHANGED <<recent, order, published>> /\ UNCHANGED vars
  <2>1. outq' \in Seq(OutRow) => OutInv'
    BY <1>1, <1>2
       DEF OutInv, OutTyped, RecentIsOrder, OrderLength, OrderIsTail, PublishedOnce, CellsOwned,
           vars
  <2>2. outq' \in Seq(OutRow)
    <3>1. outq \in Seq(OutRow)
      BY DEF OutInv, OutTyped
    <3>2. outq' = outq \/ (outq # <<>> /\ outq' = Tail(outq))
                       \/ \E row \in OutRow : outq' = Append(outq, row)
      BY DEF OutputNext, outvars, allvars, Emit, Drop, Publish
    <3> QED
      BY <3>1, <3>2
  <2> QED
    BY <2>1, <2>2
<1>3. CASE Next /\ UNCHANGED outvars
  <2>1. /\ \A k \in DOMAIN owner : k \in DOMAIN owner' /\ owner'[k] = owner[k]
    <3>1. ASSUME NEW p \in Places, NEW i \in Shard, ShardFor(p, i)
          PROVE  \A k \in DOMAIN owner : k \in DOMAIN owner' /\ owner'[k] = owner[k]
      BY <3>1, ClaimEffect DEF OutInv
    <3>2. ASSUME NEW s \in Shard, Release(s) PROVE owner' = owner
      BY <3>2 DEF Release, cellmap
    <3> QED
      BY <1>3, <3>1, <3>2 DEF Next
  <2>2. CellsOwned'
    BY <1>3, <2>1 DEF OutInv, CellsOwned, outvars
  <2> QED
    BY <1>1, <1>3, <2>2
       DEF OutInv, OutTyped, RecentIsOrder, OrderLength, OrderIsTail, PublishedOnce, outvars
<1>4. CASE Publish
  BY <1>4, PublishKeeps
<1> QED
  BY <1>2, <1>3, <1>4 DEF OutputNext, Emit, Drop, allvars, vars

\* The inductive invariant holds whatever is claimed, solved, dropped and published.
THEOREM OutputInvariant == OutputSpec => []OutInv
<1> QED
  BY OutputInitInv, OutputNextInv, PTL DEF OutputSpec

\* With the output task running beside it the partition does what the Router does:
\* what is proved of Router!Spec holds of OutputSpec.
THEOREM OutputRunsRouter == OutputSpec => Spec
<1>1. OutputInit => Init
  BY DEF OutputInit
<1> QED
  BY <1>1, StepIsRouterStep, PTL DEF OutputSpec, Spec

\* The set the twin check reads and the queue that bounds it hold the same keys, at
\* most DedupeCap, for every DedupeCap.
THEOREM TwinMemoryAgrees == OutputSpec => []RecentIsOrder
<1>1. OutInv => RecentIsOrder
  BY DEF OutInv
<1> QED
  BY <1>1, OutputInvariant, PTL

\* No key is published twice among DedupeCap + 1 rows in a row.
THEOREM NoTwinPublished == OutputSpec => []PublishedOnce
<1>1. OutInv => PublishedOnce
  BY DEF OutInv
<1> QED
  BY <1>1, OutputInvariant, PTL

\* The sky over a mapped leaf cell has one voice, whatever is claimed, split or
\* released while a fix waits in the channel.
THEOREM CellsHaveOneVoice == OutputSpec => []OneShardPerCell
<1>1. OutInv => OneShardPerCell
  <2> SUFFICES ASSUME OutInv,
                      NEW i \in 1..Len(published), NEW j \in 1..Len(published),
                      published[i].cell # {}, published[i].cell = published[j].cell
               PROVE  published[i].shard = published[j].shard
    BY DEF OneShardPerCell
  <2>1. PICK k : k \in published[i].cell /\ k \in published[j].cell
    OBVIOUS
  <2>2. owner[k] = published[i].shard /\ owner[k] = published[j].shard
    BY <2>1 DEF OutInv, CellsOwned
  <2> QED
    BY <2>2
<1> QED
  BY <1>1, OutputInvariant, PTL

\* What the Router keeps it keeps under the output task: the tree, the types, the
\* territory and the claims.
THEOREM PartitionUnderOutput ==
    OutputSpec => [](TypeOK /\ PartitionIsTree) /\ TerritoryKept /\ ClaimedByOwner
<1>1. IInv => TypeOK /\ PartitionIsTree
  BY DEF IInv
<1> QED
  BY <1>1, OutputRunsRouter, RouterInvariant, TerritoryStaysKept, ClaimsGoToOwner, PTL
===============================================================================
