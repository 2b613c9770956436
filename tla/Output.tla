-------------------------------- MODULE Output --------------------------------
(***************************************************************************)
(* The output task (crates/mlatd/src/main.rs): the one consumer of every   *)
(* shard's fixes.  It publishes a fix only for the shard that owns the     *)
(* solved position, and drops twins by (icao, 100 ms bucket), remembering  *)
(* the last DedupeCap keys.  Shards offer fixes with try_send: a fix that  *)
(* finds the channel full is lost.                                         *)
(*                                                                         *)
(* The partition changes under it: the owner of a position is asked when   *)
(* the fix is taken off the channel, not when it was solved.               *)
(***************************************************************************)
EXTENDS Router, Sequences

CONSTANTS
    FixKey,     \* (icao, 100 ms bucket)
    OutCap,     \* capacity of the output channel (4096)
    DedupeCap,  \* keys remembered (4096)
    MaxFixes    \* bound: fixes solved

ASSUME OutputAssumption == OutCap \in Nat \ {0} /\ DedupeCap \in Nat /\ MaxFixes \in Nat

VARIABLES outq, recent, order,
          published,   \* every row published, with its leaf cell if that was mapped
          nfixes

outvars == <<outq, recent, order, published, nfixes>>
allvars == <<owner, rx_count, split, receivers, nclaims,
             outq, recent, order, published, nfixes>>

OutRow == [shard : Shard, place : Places, key : FixKey]

OutputInit ==
    /\ Init
    /\ outq = <<>> /\ recent = {} /\ order = <<>> /\ published = <<>> /\ nfixes = 0

\* State::emit, by a shard that has been given receivers.
Emit(row) ==
    /\ nfixes < MaxFixes
    /\ \E k \in DOMAIN owner : owner[k] = row.shard
    /\ nfixes' = nfixes + 1
    /\ outq' = IF Len(outq) < OutCap THEN Append(outq, row) ELSE outq
    /\ UNCHANGED <<vars, recent, order, published>>

\* Mutant: no territory gate.
ForeignPasses(row) == FALSE

\* Solved by a shard that does not own the position.
Foreign(row) == OwnerAt(row.place) \notin {NoShard, row.shard}

Trimmed(keys) == IF Len(keys) > DedupeCap THEN Tail(keys) ELSE keys

\* Mutants: the set forgets one key early; keys leave the queue but stay in the set.
RecentTrimmedEarly(keys) ==
    (recent \cup {keys[Len(keys)]}) \ (IF Len(keys) >= DedupeCap THEN {Head(keys)} ELSE {})
RecentGrows(keys) == recent \cup {keys[i] : i \in 1..Len(keys)}
RecentOf(keys) ==
    (recent \cup {keys[Len(keys)]}) \ (IF Len(keys) > DedupeCap THEN {Head(keys)} ELSE {})

MappedCell(p) == IF LeafAt(p) \in DOMAIN owner THEN {LeafAt(p)} ELSE {}

Drop ==
    /\ outq # <<>>
    /\ Foreign(Head(outq)) \/ Head(outq).key \in recent
    /\ outq' = Tail(outq)
    /\ UNCHANGED <<vars, recent, order, published, nfixes>>

Publish ==
    LET row == Head(outq)
        keys == Append(order, row.key)
    IN  /\ outq # <<>>
        /\ ~Foreign(row) /\ row.key \notin recent
        /\ outq' = Tail(outq)
        /\ order' = Trimmed(keys)
        /\ recent' = RecentOf(keys)
        /\ published' = Append(published, [key |-> row.key, shard |-> row.shard,
                                           cell |-> MappedCell(row.place)])
        /\ UNCHANGED <<vars, nfixes>>

OutputNext ==
    \/ Next /\ UNCHANGED outvars
    \/ \E row \in OutRow : Emit(row)
    \/ Drop
    \/ Publish

OutputSpec == OutputInit /\ [][OutputNext]_allvars

-----------------------------------------------------------------------------
(* Properties *)

\* The set the twin check reads and the queue that bounds it agree, and hold at
\* most DedupeCap keys: what is forgotten by one is forgotten by both.
RecentIsOrder ==
    /\ recent = {order[i] : i \in 1..Len(order)}
    /\ Cardinality(recent) = Len(order)
    /\ Len(order) <= DedupeCap

\* No key is published twice among DedupeCap + 1 rows in a row, whichever shards
\* solved them and however the partition moved between.
PublishedOnce ==
    \A i, j \in 1..Len(published) :
        i < j /\ published[i].key = published[j].key => j - i > DedupeCap

\* The sky over a mapped cell has one voice: once a fix over a mapped leaf cell is
\* out, every later one over that cell comes from the same shard, whatever was
\* claimed, split or released between and however long a fix sat in the channel.
OneShardPerCell ==
    \A i, j \in 1..Len(published) :
        i < j /\ published[i].cell # {} /\ published[i].cell = published[j].cell =>
            published[i].shard = published[j].shard
===============================================================================
