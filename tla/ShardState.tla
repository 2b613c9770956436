------------------------------ MODULE ShardState ------------------------------
(***************************************************************************)
(* The receiver registry of one shard and the data that hangs on a slot   *)
(* (crates/mlatd/src/state.rs, struct State).                              *)
(*                                                                         *)
(* A connection that is let in gets a slot; slots are reused, so a slot    *)
(* index outlives its holder.  Everything the shard learns is filed by     *)
(* slot: sync reports and mlat entries in flight, pair clock models,       *)
(* stamp offsets, biases, interest.  The danger is an item that outlives   *)
(* the clock it was measured in.  To state that, every item carries, as a  *)
(* ghost, the clock it came from: <<connection, number of clock resets>>.  *)
(*                                                                         *)
(* A name is the sequence of its "-"-separated parts, so that the alias    *)
(* "user-tag" is Append(user, tag).  Times are abstracted: heard[c] says   *)
(* whether connection c has read from its feeder within                    *)
(* CONNECTION_LIVE_S, and a sweep may find any sync point or group old     *)
(* enough.                                                                 *)
(***************************************************************************)
EXTENDS Naturals, Sequences, FiniteSets

CONSTANTS
    NamePart,      \* parts of user names, uuid heads included
    UserNames,     \* the names feeders ask for in their handshake
    Uuid, NoUuid,  \* handshake uuids; NoUuid when the handshake has none
    NoTag, TagOf,  \* first eight alphanumerics of a uuid; NoTag when empty
    SyncPair,      \* (even, odd) DF17 frame pairs: the keys of syncpoints
    Message,       \* raw frames: the keys of groups
    EvenOf,        \* the even frame of a sync pair
    MlatAdsb,      \* the --mlat-adsb switch
    MaxSyncAc,     \* reporters a sync point takes (15)
    MinRx,         \* receivers a solve needs (4)
    GenMod,        \* slot generations are kept modulo this (2^32)
    MaxConns,      \* bound: connections over the shard's life
    MaxResets,     \* bound: clock resets of one feeder
    MaxMsgs        \* bound: sync and mlat messages the shard takes in

ASSUME NameAssumption == UserNames \subseteq Seq(NamePart)
ASSUME TagAssumption == TagOf \in [Uuid -> NamePart \cup {NoTag}] /\ NoUuid \notin Uuid
ASSUME KeyAssumption == EvenOf \in [SyncPair -> Message] /\ MlatAdsb \in BOOLEAN
ASSUME BoundAssumption == /\ MaxSyncAc \in Nat /\ MinRx \in Nat \ {0}
                          /\ MaxConns \in Nat \ {0} /\ MaxResets \in Nat /\ MaxMsgs \in Nat
                          /\ GenMod \in Nat /\ MaxConns <= GenMod

Conns == 1..MaxConns
Slots == 0..(MaxConns - 1)
Clocks == Conns \X (0..MaxResets)
RxRef == [idx : Slots, gen : 0..(GenMod - 1)]
ReceiverInfo == [user : Seq(NamePart), uuid : Uuid \cup {NoUuid}, uid : 0..MaxConns]
Entry == [rx : Slots, clock : Clocks]
Report == [rx : Slots, clock : Clocks, n : Nat]
PairObs == [a : Slots, b : Slots, ca : Clocks, cb : Clocks]
Fix == [msg : Message, to : SUBSET (0..MaxConns), heardBy : SUBSET Conns]

VARIABLES
    nslots, receivers, gens, alive, free_slots, by_user,  \* the registry
    nconns, conn, ref, heard, clk,                        \* the connections
    syncpoints, groups,                                   \* data in flight
    pairs, stamp_offset, learned, tracking,               \* data kept by slot
    out,                                                  \* fixes the last step emitted
    nmsgs                                                 \* messages so far

registry == <<nslots, receivers, gens, alive, free_slots, by_user>>
feeders == <<nconns, conn, ref, heard, clk>>
learnt == <<pairs, stamp_offset, learned, tracking>>
vars == <<nslots, receivers, gens, alive, free_slots, by_user,
          nconns, conn, ref, heard, clk,
          syncpoints, groups, pairs, stamp_offset, learned, tracking, out, nmsgs>>

Init ==
    /\ nslots = 0
    /\ receivers = [s \in Slots |-> [user |-> <<>>, uuid |-> NoUuid, uid |-> 0]]
    /\ gens = [s \in Slots |-> 0]
    /\ alive = [s \in Slots |-> FALSE]
    /\ free_slots = <<>>
    /\ by_user = [n \in {} |-> 0]
    /\ nconns = 0
    /\ conn = [c \in Conns |-> "none"]
    /\ ref = [c \in Conns |-> [idx |-> 0, gen |-> 0]]
    /\ heard = [c \in Conns |-> FALSE]
    /\ clk = [c \in Conns |-> 0]
    /\ syncpoints = [p \in SyncPair |-> {}]
    /\ groups = [m \in Message |-> {}]
    /\ pairs = {}
    /\ stamp_offset = [s \in Slots |-> {}]
    /\ learned = [s \in Slots |-> {}]
    /\ tracking = {}
    /\ out = {}
    /\ nmsgs = 0

-----------------------------------------------------------------------------
(* What a slot's holder is, and which of its data a removal takes along. *)

\* Mutant: the generation is not compared.
LiveAnyGen(r) == r.idx < nslots /\ alive[r.idx]
Live(r) == r.idx < nslots /\ alive[r.idx] /\ gens[r.idx] = r.gen

\* The clock the holder of slot s measures in now.
ClockOf(s) == <<receivers[s].uid, clk[receivers[s].uid]>>

\* Mutant: a removed slot's name stays filed.
UnnamedNever(S) == by_user

\* by_user without the slots of S that are filed under their own name.
Unnamed(S) ==
    LET kept == {n \in DOMAIN by_user :
                    ~(by_user[n] \in S /\ receivers[by_user[n]].user = n)}
    IN  [n \in kept |-> by_user[n]]

\* Mutant: the groups are left for the sweep to drop.
ForgetSyncPointsOnly(S) ==
    /\ syncpoints' = [p \in SyncPair |-> {r \in syncpoints[p] : r.rx \notin S}]
    /\ UNCHANGED groups

\* forget_pending, for each slot of S.
ForgetPending(S) ==
    /\ syncpoints' = [p \in SyncPair |-> {r \in syncpoints[p] : r.rx \notin S}]
    /\ groups' = [m \in Message |-> {e \in groups[m] : e.rx \notin S}]

\* Mutant: only the models from the slot go, not those into it.
PairsWithoutFrom(S) == {p \in pairs : p.a \notin S}
PairsWithout(S) == {p \in pairs : p.a \notin S /\ p.b \notin S}

\* Mutant: interest of a removed slot stays.
TrackingKept(S) == tracking
TrackingWithout(S) == {t \in tracking : t.rx \notin S}

-----------------------------------------------------------------------------
(* add_receiver *)

\* Connection of slot s has read from its feeder within CONNECTION_LIVE_S.
ConnectionLive(s) == alive[s] /\ heard[receivers[s].uid]

\* Mutant: two handshakes without a uuid pass for one feeder.
SameFeederNone(s, uuid) == receivers[s].uuid = uuid
SameFeeder(s, uuid) == uuid # NoUuid /\ receivers[s].uuid = uuid

\* The name is held by a live connection of another feeder.
Contested(user, uuid) ==
    /\ user \in DOMAIN by_user
    /\ ~SameFeeder(by_user[user], uuid)
    /\ ConnectionLive(by_user[user])

Tag(uuid) == IF uuid = NoUuid THEN NoTag ELSE TagOf[uuid]
Alias(user, uuid) == Append(user, Tag(uuid))

AliasDenied(alias, uuid) ==
    /\ alias \in DOMAIN by_user
    /\ receivers[by_user[alias]].uuid # uuid
    /\ ConnectionLive(by_user[alias])

\* Mutant: a uuid without a single alphanumeric names an alias too.
RefusedOnlyDenied(user, uuid) ==
    Contested(user, uuid) /\ AliasDenied(Alias(user, uuid), uuid)

Refused(user, uuid) ==
    /\ Contested(user, uuid)
    /\ Tag(uuid) = NoTag \/ AliasDenied(Alias(user, uuid), uuid)

NameFor(user, uuid) == IF Contested(user, uuid) THEN Alias(user, uuid) ELSE user

\* The slot the newcomer's name is filed under, removed before it is let in.
Displaced(name) == {s \in Slots : name \in DOMAIN by_user /\ by_user[name] = s /\ alive[s]}

FreshSlot == nslots

\* Mutant: a reused slot keeps its generation.
NextGenKept(idx) == gens[idx]
NextGen(idx) == IF gens[idx] + 1 = GenMod THEN 0 ELSE gens[idx] + 1   \* wrapping_add(1)

AddRefused(c, user, uuid) ==
    /\ Refused(user, uuid)
    /\ conn' = [conn EXCEPT ![c] = "refused"]
    /\ nconns' = c
    /\ out' = {}
    /\ UNCHANGED <<registry, ref, heard, clk, syncpoints, groups, learnt, nmsgs>>

AddAccepted(c, user, uuid) ==
    LET name == NameFor(user, uuid)
        gone == Displaced(name)
        free == IF gone = {} THEN free_slots ELSE Append(free_slots, by_user[name])
        grow == free = <<>>
        idx  == IF grow THEN FreshSlot ELSE free[Len(free)]
        gen  == IF grow THEN 0 ELSE NextGen(idx)
        names == Unnamed(gone)
    IN  /\ ~Refused(user, uuid)
        /\ nslots' = IF grow THEN nslots + 1 ELSE nslots
        /\ free_slots' = IF grow THEN free ELSE SubSeq(free, 1, Len(free) - 1)
        /\ receivers' = [receivers EXCEPT ![idx] = [user |-> name, uuid |-> uuid, uid |-> c]]
        /\ gens' = [gens EXCEPT ![idx] = gen]
        /\ alive' = [s \in Slots |-> s = idx \/ (alive[s] /\ s \notin gone)]
        /\ by_user' = [n \in DOMAIN names \cup {name} |-> IF n = name THEN idx ELSE names[n]]
        /\ nconns' = c
        /\ conn' = [conn EXCEPT ![c] = "open"]
        /\ ref' = [ref EXCEPT ![c] = [idx |-> idx, gen |-> gen]]
        /\ heard' = [heard EXCEPT ![c] = TRUE]
        /\ ForgetPending(gone)
        /\ pairs' = PairsWithout(gone)
        /\ tracking' = TrackingWithout(gone)
        /\ stamp_offset' = [s \in Slots |-> IF s \in gone THEN {} ELSE stamp_offset[s]]
        /\ learned' = [learned EXCEPT ![idx] = {}]
        /\ out' = {}
        /\ UNCHANGED <<clk, nmsgs>>

AddReceiver(c, user, uuid) ==
    /\ c = nconns + 1
    /\ AddRefused(c, user, uuid) \/ AddAccepted(c, user, uuid)

-----------------------------------------------------------------------------
(* The other messages of a connection.  A connection that lost its slot    *)
(* still sends them, with its old RxRef, until it notices.                 *)

RemoveReceiver(c) ==
    LET gone == IF Live(ref[c]) THEN {ref[c].idx} ELSE {}
    IN  /\ conn[c] = "open"
        /\ conn' = [conn EXCEPT ![c] = "closed"]
        /\ alive' = [s \in Slots |-> alive[s] /\ s \notin gone]
        /\ by_user' = Unnamed(gone)
        /\ free_slots' = IF gone = {} THEN free_slots ELSE Append(free_slots, ref[c].idx)
        /\ ForgetPending(gone)
        /\ pairs' = PairsWithout(gone)
        /\ tracking' = TrackingWithout(gone)
        /\ stamp_offset' = [s \in Slots |-> IF s \in gone THEN {} ELSE stamp_offset[s]]
        /\ out' = {}
        /\ UNCHANGED <<nslots, receivers, gens, nconns, ref, heard, clk, learned, nmsgs>>

\* The feeder's clock starts over and it says so: what it sends from here on
\* is in the new clock.
ClockReset(c) ==
    LET reset == IF Live(ref[c]) THEN {ref[c].idx} ELSE {}
    IN  /\ conn[c] = "open"
        /\ clk[c] < MaxResets
        /\ clk' = [clk EXCEPT ![c] = @ + 1]
        /\ pairs' = PairsWithout(reset)
        /\ ForgetPending(reset)
        /\ out' = {}
        /\ UNCHANGED <<registry, nconns, conn, ref, heard, stamp_offset, learned, tracking, nmsgs>>

\* The bookkeeping both message handlers do first (rx_log, ac_log).
Touch(c, rx) ==
    /\ nmsgs < MaxMsgs
    /\ nmsgs' = nmsgs + 1
    /\ learned' = [learned EXCEPT ![rx] = @ \cup {c}]
    /\ tracking' = tracking \cup {[rx |-> rx, uid |-> c]}

EntryOf(c, rx) == [rx |-> rx, clock |-> <<c, clk[c]>>]

\* groups keeps one entry per receiver and clock: solve_cluster uses one
\* observation per receiver, however often a group holds it.
Grouped(m, e) == [groups EXCEPT ![m] = @ \cup {e}]

\* on_mlat: a DF17 frame is grouped under --mlat-adsb only.
OnMlat(c, m) ==
    /\ conn[c] = "open"
    /\ Live(ref[c])
    /\ m \in {EvenOf[p] : p \in SyncPair} => MlatAdsb
    /\ Touch(c, ref[c].idx)
    /\ groups' = Grouped(m, EntryOf(c, ref[c].idx))
    /\ out' = {}
    /\ UNCHANGED <<registry, feeders, syncpoints, pairs, stamp_offset>>

\* The n-th report of this receiver on the sync point.
ReportOf(c, rx, p) ==
    [rx |-> rx, clock |-> <<c, clk[c]>>,
     n |-> Cardinality({r \in syncpoints[p] : r.rx = rx}) + 1]

\* The observations a new report gives the pair models, in both directions.
Trained(new, reports) ==
    LET others == {r \in reports : r.rx # new.rx /\ alive[r.rx]}
    IN  {[a |-> new.rx, b |-> r.rx, ca |-> new.clock, cb |-> r.clock] : r \in others}
        \cup {[a |-> r.rx, b |-> new.rx, ca |-> r.clock, cb |-> new.clock] : r \in others}

\* on_sync of a pair whose positions do not decode: only the bookkeeping.
OnSyncUndecoded(c, p) ==
    /\ conn[c] = "open"
    /\ Live(ref[c])
    /\ Touch(c, ref[c].idx)
    /\ out' = {}
    /\ UNCHANGED <<registry, feeders, syncpoints, groups, pairs, stamp_offset>>

OnSync(c, p) ==
    LET rx == ref[c].idx
        report == ReportOf(c, rx, p)
        full == Cardinality(syncpoints[p]) >= MaxSyncAc
    IN  /\ conn[c] = "open"
        /\ Live(ref[c])
        /\ Touch(c, rx)
        /\ groups' = IF MlatAdsb THEN Grouped(EvenOf[p], EntryOf(c, rx)) ELSE groups
        /\ syncpoints' = IF full THEN syncpoints
                         ELSE [syncpoints EXCEPT ![p] = @ \cup {report}]
        /\ pairs' = IF full THEN pairs ELSE pairs \cup Trained(report, syncpoints[p])
        /\ out' = {}
        /\ UNCHANGED <<registry, feeders, stamp_offset>>

-----------------------------------------------------------------------------
(* sweep, solve_group, solve_cluster, recipients, expire_at *)

Members(g) == {e.rx : e \in g}

\* How many other members convert into r's clock directly.
Score(r, members, usable) == Cardinality({o \in members \ {r} : <<o, r>> \in usable})

LocalRefs(members, usable) ==
    {r \in members : \A o \in members : Score(o, members, usable) <= Score(r, members, usable)}

\* An arrival at x converts into r's clock, directly or through one member.
Converts(x, r, members, usable) ==
    \/ x = r
    \/ <<x, r>> \in usable
    \/ \E h \in members \ {x, r} : <<x, h>> \in usable /\ <<h, r>> \in usable

\* What solving group g can come to: the reference receiver, the receivers
\* used or, in quarantine, scored (the numerics, the quarantine and the cluster
\* span choose among those that convert), the members in range of the solved
\* position and whether it passes the publication gates.  The clusters of one
\* group share the reference; one solution stands for what they do to the state.
Solutions(g, usable) ==
    LET members == Members(g)
    IN  {sol \in [ref : LocalRefs(members, usable), used : SUBSET members,
                  inRange : SUBSET members, fix : BOOLEAN] :
            /\ Cardinality(sol.used) >= MinRx
            /\ \A x \in sol.used : alive[x] /\ Converts(x, sol.ref, members, usable)}

\* Connection uids of the live members in range of the fix.
Recipients(inRange) == {receivers[x].uid : x \in {y \in inRange : alive[y]}}

\* The row of a solution that passes the gates.
FixOf(m, sol) ==
    [msg |-> m, to |-> Recipients(sol.inRange), heardBy |-> {e.clock[1] : e \in groups[m]}]

OffsetAfter(s, refs, snap) ==
    IF s \notin refs THEN stamp_offset[s]
    ELSE IF snap THEN {ClockOf(s)}            \* none yet, or a faster path: snap down
    ELSE stamp_offset[s] \cup {ClockOf(s)}    \* rise slowly from the old offset

\* expire_at, for the interest it does not find too old; without an expiry pass
\* that is all of it, and none is of a dead slot (KeptFromHolder).
Interest(kept) == {t \in kept : alive[t.rx]}

\* One sweep: old sync points go, stale interest goes (every EXPIRE_EVERY_S; state_json
\* does the same), every ready group leaves groups and is solved.
Sweep(expired, kept, ready, solved, usable, snap) ==
    \E sols \in [solved -> UNION {Solutions(groups[m], usable) : m \in solved}] :
        LET refs == {sols[m].ref : m \in solved}
            used == UNION {sols[m].used : m \in solved}
            df17 == {EvenOf[p] : p \in SyncPair}
            fixed == {m \in solved \ df17 : sols[m].fix}
        IN  /\ \A m \in solved : sols[m] \in Solutions(groups[m], usable)
            /\ syncpoints' = [p \in SyncPair |-> IF p \in expired THEN {} ELSE syncpoints[p]]
            /\ tracking' = Interest(kept)
            /\ groups' = [m \in Message |-> IF m \in ready THEN {} ELSE groups[m]]
            /\ stamp_offset' = [s \in Slots |-> OffsetAfter(s, refs, snap)]
            /\ learned' = [s \in Slots |->
                              IF s \in used THEN learned[s] \cup {receivers[s].uid} ELSE learned[s]]
            /\ out' = {FixOf(m, sols[m]) : m \in fixed}
            /\ UNCHANGED <<registry, feeders, pairs, nmsgs>>

Waiting == {m \in Message : groups[m] # {}}

\* The pair models that solving these groups may consult.
PairKeys(solved) ==
    LET members == UNION {Members(groups[m]) : m \in solved}
    IN  {<<p.a, p.b>> : p \in {q \in pairs : {q.a, q.b} \subseteq members}}

SweepAny ==
    \E expired \in SUBSET SyncPair, kept \in SUBSET tracking,
       ready \in SUBSET Waiting, snap \in BOOLEAN :
     \E solved \in SUBSET ready :
      \E usable \in SUBSET PairKeys(solved) :
        Sweep(expired, kept, ready, solved, usable, snap)

-----------------------------------------------------------------------------
(* last_read, written by the connection while the shard runs; only that of a  *)
(* slot's holder is ever looked at.                                          *)

FeederRead(c) ==
    /\ conn[c] = "open" /\ Live(ref[c]) /\ ~heard[c]
    /\ heard' = [heard EXCEPT ![c] = TRUE]
    /\ out' = {}
    /\ UNCHANGED <<registry, nconns, conn, ref, clk, syncpoints, groups, learnt, nmsgs>>

FeederQuiet(c) ==
    /\ conn[c] = "open" /\ Live(ref[c]) /\ heard[c]
    /\ heard' = [heard EXCEPT ![c] = FALSE]
    /\ out' = {}
    /\ UNCHANGED <<registry, nconns, conn, ref, clk, syncpoints, groups, learnt, nmsgs>>

-----------------------------------------------------------------------------
Next ==
    \/ \E c \in Conns, user \in UserNames, uuid \in Uuid \cup {NoUuid} : AddReceiver(c, user, uuid)
    \/ \E c \in Conns : RemoveReceiver(c)
    \/ \E c \in Conns : ClockReset(c)
    \/ \E c \in Conns, m \in Message : OnMlat(c, m)
    \/ \E c \in Conns, p \in SyncPair : OnSyncUndecoded(c, p)
    \/ \E c \in Conns, p \in SyncPair : OnSync(c, p)
    \/ SweepAny
    \/ \E c \in Conns : FeederRead(c)
    \/ \E c \in Conns : FeederQuiet(c)

Spec == Init /\ [][Next]_vars

-----------------------------------------------------------------------------
(* Properties *)

Admitted(c) == conn[c] \in {"open", "closed"}

PartialNames == \A n \in DOMAIN by_user : n \in Seq(NamePart) /\ by_user[n] \in Slots

\* Every variable of the shard keeps to the type state.rs declares for it.
TypeOK ==
    /\ nslots \in 0..MaxConns
    /\ receivers \in [Slots -> ReceiverInfo]
    /\ gens \in [Slots -> 0..(GenMod - 1)]
    /\ alive \in [Slots -> BOOLEAN]
    /\ free_slots \in Seq(Slots)
    /\ PartialNames
    /\ nconns \in 0..MaxConns
    /\ conn \in [Conns -> {"none", "open", "refused", "closed"}]
    /\ ref \in [Conns -> RxRef]
    /\ heard \in [Conns -> BOOLEAN]
    /\ clk \in [Conns -> 0..MaxResets]
    /\ syncpoints \in [SyncPair -> SUBSET Report]
    /\ groups \in [Message -> SUBSET Entry]
    /\ pairs \subseteq PairObs
    /\ stamp_offset \in [Slots -> SUBSET Clocks]
    /\ learned \in [Slots -> SUBSET Conns]
    /\ tracking \subseteq [rx : Slots, uid : Conns]
    /\ out \subseteq Fix
    /\ nmsgs \in 0..MaxMsgs

NamesAreLive ==
    \A n \in DOMAIN by_user :
        by_user[n] < nslots /\ alive[by_user[n]] /\ receivers[by_user[n]].user = n
LiveAreNamed ==
    \A s \in Slots : alive[s] =>
        s < nslots /\ receivers[s].user \in DOMAIN by_user /\ by_user[receivers[s].user] = s
FreeAreDead ==
    \A i \in 1..Len(free_slots) : free_slots[i] < nslots /\ ~alive[free_slots[i]]
FreeOnce ==
    \A i, j \in 1..Len(free_slots) : free_slots[i] = free_slots[j] => i = j
DeadAreFree ==
    \A s \in Slots : s < nslots /\ ~alive[s] => \E i \in 1..Len(free_slots) : free_slots[i] = s

\* Through every order of joins, replacements, aliases and late removals the
\* registry stays whole: by_user names exactly the live slots, each by its
\* holder's name, and free_slots holds exactly the dead ones, once each (a slot
\* freed twice would be handed to two receivers).
RegistryConsistent ==
    NamesAreLive /\ LiveAreNamed /\ FreeAreDead /\ FreeOnce /\ DeadAreFree

\* An RxRef that passes the liveness check belongs to the connection holding
\* the slot: a connection that lost its slot can never act on its successor's.
LiveRefHolds ==
    \A c \in Conns : Admitted(c) /\ Live(ref[c]) => receivers[ref[c].idx].uid = c

\* A timestamp in flight or in a pair model is in the clock its slot's holder
\* measures in now, and the slot is alive: a clock reset or a reconnect that
\* takes the slot straight back never pairs old times with a new clock.
Current(s, clock) == alive[s] /\ clock = ClockOf(s)
ReportsCurrent == \A p \in SyncPair : \A r \in syncpoints[p] : Current(r.rx, r.clock)
EntriesCurrent == \A m \in Message : \A e \in groups[m] : Current(e.rx, e.clock)
PairsCurrent == \A p \in pairs : Current(p.a, p.ca) /\ Current(p.b, p.cb)
TimesInCurrentClock == ReportsCurrent /\ EntriesCurrent /\ PairsCurrent

\* What is filed under a live slot (bias, sync counters, message log, interest)
\* was contributed by its holder: nobody inherits a predecessor's quarantine,
\* outlier share or aircraft list.
KeptFromHolder ==
    /\ \A s \in Slots : alive[s] => learned[s] \subseteq {receivers[s].uid}
    /\ \A t \in tracking : alive[t.rx] /\ t.uid = receivers[t.rx].uid

\* A fix goes only to connections that reported the transmission it was solved
\* from, however slots were reused between the report and the solve.
RecipientsHeard == \A f \in out : f.to \subseteq f.heardBy

\* A connection that is alive and heard loses its slot only by closing, or to a
\* newcomer carrying its own uuid: never to a second feeder of the same name,
\* nor to a late message of a replaced connection.
Holds(c) == conn[c] = "open" /\ Live(ref[c])
KeptOrReplaced(c) ==
    Holds(c) /\ heard[c] /\ ~Live(ref[c])' =>
        \/ conn'[c] = "closed"
        \/ /\ nconns' # nconns
           /\ receivers'[ref[c].idx].uid = nconns'
           /\ receivers[ref[c].idx].uuid # NoUuid
           /\ receivers'[ref[c].idx].uuid = receivers[ref[c].idx].uuid
LiveHolderKept == [][\A c \in Conns : KeptOrReplaced(c)]_vars

\* Seen from outside, the registry keeps the Lease: a connection is refused only
\* when another holds a slot, loses its slot at most once and for good, and one
\* connection's coming or going changes no more than one other's standing.
LeaseMap ==
    [c \in Conns |->
        CASE conn[c] = "open" -> IF Live(ref[c]) THEN "held" ELSE "lost"
          [] conn[c] = "closed" -> "over"
          [] OTHER -> conn[c]]
Leases == INSTANCE Lease WITH lease <- LeaseMap
LeaseKept == Leases!Spec

\* What the README says of a reconnect, for feeders that all ask for one name:
\* the previous connection is replaced, so no feeder holds two slots.
OneSlotPerFeeder ==
    \A s, t \in Slots :
        alive[s] /\ alive[t] /\ receivers[s].uuid # NoUuid
        /\ receivers[s].uuid = receivers[t].uuid => s = t

\* The offset that dates results relates the output clock to the clock the
\* reference receiver measures in now.
OffsetInReferenceClock == \A s \in Slots : \A k \in stamp_offset[s] : k = ClockOf(s)
===============================================================================
