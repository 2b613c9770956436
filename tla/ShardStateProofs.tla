--------------------------- MODULE ShardStateProofs ---------------------------
(***************************************************************************)
(* Proofs about ShardState, for every set of names, uuids and frames and   *)
(* every bound.  None of the invariants the runs check is inductive by     *)
(* itself: they rest on each other and on what ties a connection's RxRef   *)
(* to the slot it was issued for (Handles).  IInv is their conjunction.    *)
(***************************************************************************)
EXTENDS ShardState, FiniteSetTheorems, SequenceTheorems, TLAPS

\* Sync point reporters are counted, so they are finitely many.
FiniteReports == \A p \in SyncPair : IsFiniteSet(syncpoints[p])

\* Slots and generations stay below the number of connections.
SlotsCounted == nslots <= nconns /\ \A s \in Slots : s < nslots => gens[s] < nconns

\* An issued RxRef names an existing slot, is never ahead of its generation,
\* and while it matches the generation the slot is its connection's.
RefsIssued ==
    \A c \in Conns : Admitted(c) =>
        /\ c <= nconns
        /\ ref[c].idx < nslots
        /\ ref[c].gen <= gens[ref[c].idx]
        /\ ref[c].gen = gens[ref[c].idx] => receivers[ref[c].idx].uid = c

\* The holder of a live slot is a connection whose RxRef is that slot now.
HoldersKnown ==
    \A s \in Slots : alive[s] =>
        /\ receivers[s].uid \in Conns
        /\ receivers[s].uid <= nconns
        /\ ref[receivers[s].uid] = [idx |-> s, gen |-> gens[s]]
        /\ conn[receivers[s].uid] = "open"

Handles == SlotsCounted /\ RefsIssued /\ HoldersKnown

\* The inductive invariant.
IInv ==
    /\ TypeOK
    /\ FiniteReports
    /\ RegistryConsistent
    /\ Handles
    /\ TimesInCurrentClock
    /\ KeptFromHolder
    /\ RecipientsHeard

-----------------------------------------------------------------------------

\* The empty shard satisfies the invariant.
LEMMA InitIInv == Init => IInv
<1> SUFFICES ASSUME Init PROVE IInv
  OBVIOUS
<1> USE BoundAssumption
<1>1. TypeOK
  <2>1. <<>> \in Seq(NamePart) /\ <<>> \in Seq(Slots)
    OBVIOUS
  <2>2. 0 \in Slots /\ 0 \in 0..(GenMod - 1) /\ 0 \in 0..MaxConns
    BY DEF Slots
  <2> QED
    BY <2>1, <2>2 DEF Init, TypeOK, PartialNames, ReceiverInfo, RxRef, Conns
<1>2. FiniteReports
  BY FS_EmptySet DEF Init, FiniteReports
<1>3. RegistryConsistent
  BY DEF Init, RegistryConsistent, NamesAreLive, LiveAreNamed, FreeAreDead, FreeOnce,
         DeadAreFree, Slots
<1>4. Handles
  BY DEF Init, Handles, SlotsCounted, RefsIssued, HoldersKnown, Admitted, Slots
<1>5. TimesInCurrentClock /\ KeptFromHolder /\ RecipientsHeard
  BY DEF Init, TimesInCurrentClock, ReportsCurrent, EntriesCurrent, PairsCurrent,
         KeptFromHolder, RecipientsHeard
<1> QED
  BY <1>1, <1>2, <1>3, <1>4, <1>5 DEF IInv

-----------------------------------------------------------------------------

\* A refused newcomer leaves the shard as it was.
LEMMA AddRefusedIInv ==
  ASSUME IInv, NEW c \in Conns, NEW user \in UserNames, NEW uuid \in Uuid \cup {NoUuid},
         c = nconns + 1, AddRefused(c, user, uuid)
  PROVE  IInv'
<1> USE BoundAssumption
<1>1. TypeOK'
  BY DEF IInv, TypeOK, AddRefused, registry, learnt, PartialNames, Conns
<1>2. FiniteReports' /\ RegistryConsistent' /\ RecipientsHeard'
  BY DEF IInv, AddRefused, registry, learnt, FiniteReports, RegistryConsistent, NamesAreLive,
         LiveAreNamed, FreeAreDead, FreeOnce, DeadAreFree, RecipientsHeard
<1>3. Handles'
  <2>1. SlotsCounted'
    BY DEF IInv, Handles, SlotsCounted, AddRefused, registry, TypeOK, Slots, Conns
  <2>2. RefsIssued'
    BY DEF IInv, Handles, RefsIssued, AddRefused, registry, TypeOK, Conns, Admitted
  <2>3. HoldersKnown'
    BY DEF IInv, Handles, HoldersKnown, AddRefused, registry, TypeOK, Conns
  <2> QED
    BY <2>1, <2>2, <2>3 DEF Handles
<1>4. TimesInCurrentClock' /\ KeptFromHolder'
  BY DEF IInv, TimesInCurrentClock, ReportsCurrent, EntriesCurrent, PairsCurrent, Current,
         ClockOf, KeptFromHolder, AddRefused, registry, learnt
<1> QED
  BY <1>1, <1>2, <1>3, <1>4 DEF IInv


\* Popping a non-empty stack.
LEMMA Pop ==
  ASSUME NEW S, NEW q \in Seq(S), q # <<>>
  PROVE  /\ Len(q) \in 1..Len(q) /\ Len(q) \in Nat
         /\ q[Len(q)] \in S
         /\ SubSeq(q, 1, Len(q) - 1) \in Seq(S)
         /\ Len(SubSeq(q, 1, Len(q) - 1)) = Len(q) - 1
         /\ \A i \in 1..(Len(q) - 1) : SubSeq(q, 1, Len(q) - 1)[i] = q[i]
<1>1. Len(q) \in Nat \ {0}
  BY EmptySeq
<1>2. \A i \in 1..Len(q) : q[i] \in S
  BY ElementOfSeq
<1> DEFINE n == Len(q) - 1
<1>3. n \in Nat /\ \A i \in 1..n : q[i] \in S
  BY <1>1, <1>2
<1> HIDE DEF n
<1>4. /\ SubSeq(q, 1, n) \in Seq(S)
      /\ Len(SubSeq(q, 1, n)) = IF 1 <= n THEN n - 1 + 1 ELSE 0
      /\ \A i \in 1 .. n - 1 + 1 : SubSeq(q, 1, n)[i] = q[1 + i - 1]
  BY <1>3, SubSeqProperties
<1>5. Len(SubSeq(q, 1, n)) = n /\ \A i \in 1..n : SubSeq(q, 1, n)[i] = q[i]
  BY <1>3, <1>4
<1> QED
  BY <1>1, <1>2, <1>4, <1>5 DEF n

\* Popping what was just pushed gives the stack back.
LEMMA PushPop ==
  ASSUME NEW S, NEW q \in Seq(S), NEW x \in S
  PROVE  LET r == Append(q, x)
         IN  r # <<>> /\ r[Len(r)] = x /\ SubSeq(r, 1, Len(r) - 1) = q
<1> DEFINE r == Append(q, x)
           t == SubSeq(r, 1, Len(r) - 1)
<1>1. /\ r \in Seq(S) /\ Len(r) = Len(q) + 1 /\ r[Len(r)] = x
      /\ \A i \in 1..Len(q) : r[i] = q[i]
      /\ Len(q) \in Nat
  BY AppendProperties, LenProperties
<1>2. r # <<>>
  BY <1>1, EmptySeq
<1>3. t \in Seq(S) /\ Len(t) = Len(r) - 1 /\ \A i \in 1..(Len(r) - 1) : t[i] = r[i]
  BY <1>1, <1>2, Pop
<1> HIDE DEF r, t
<1>4. Len(t) = Len(q) /\ \A i \in 1..Len(t) : t[i] = q[i]
  BY <1>1, <1>3
<1>5. t = q
  BY <1>3, <1>4, SeqEqual
<1> QED
  BY <1>1, <1>2, <1>5 DEF r, t

\* What an admission does to the slots, in each of its three cases: the slot of
\* the displaced holder is taken straight back, a dead slot is reused, or a new
\* one is pushed.  Either way the slot was dead or is the displaced one, ...
Chosen(c, name, gone, idx, gen) ==
    /\ idx \in Slots /\ gen \in 0..(GenMod - 1)
    /\ gone \subseteq {idx}
    /\ alive[idx] => gone = {idx}
    /\ name \in DOMAIN by_user => gone = {idx} /\ by_user[name] = idx
    /\ gone # {} => name \in DOMAIN by_user
    /\ nslots' \in 0..MaxConns /\ nslots <= nslots' /\ nslots' <= c
    /\ idx < nslots'
    /\ \A s \in Slots : s < nslots' /\ s # idx => s < nslots
    /\ gen < c
    /\ idx < nslots => gens[idx] < gen
    /\ free_slots' \in Seq(Slots)
    /\ \A i \in 1..Len(free_slots') :
          i \in 1..Len(free_slots) /\ free_slots'[i] = free_slots[i] /\ free_slots[i] # idx
    /\ \A i \in 1..Len(free_slots) : free_slots[i] # idx => i \in 1..Len(free_slots')

\* ... and it alone changes hands, under the one name by_user gains.
Filed(c, uuid, name, gone, idx, gen) ==
    /\ receivers' = [receivers EXCEPT ![idx] = [user |-> name, uuid |-> uuid, uid |-> c]]
    /\ gens' = [gens EXCEPT ![idx] = gen]
    /\ ref' = [ref EXCEPT ![c] = [idx |-> idx, gen |-> gen]]
    /\ alive' = [s \in Slots |-> s = idx \/ (alive[s] /\ s \notin gone)]
    /\ by_user' = [n \in DOMAIN by_user \cup {name} |-> IF n = name THEN idx ELSE by_user[n]]
    /\ learned' = [learned EXCEPT ![idx] = {}]

\* Every admission files the newcomer under a chosen slot.
LEMMA Admission ==
  ASSUME IInv, NEW c \in Conns, NEW user \in UserNames, NEW uuid \in Uuid \cup {NoUuid},
         c = nconns + 1, AddAccepted(c, user, uuid)
  PROVE  LET name == NameFor(user, uuid)
             gone == Displaced(name)
         IN  /\ name \in Seq(NamePart)
             /\ \E idx, gen : Chosen(c, name, gone, idx, gen) /\ Filed(c, uuid, name, gone, idx, gen)
<1> DEFINE name == NameFor(user, uuid)
           gone == Displaced(name)
           free == IF gone = {} THEN free_slots ELSE Append(free_slots, by_user[name])
           grow == free = <<>>
           idx  == IF grow THEN FreshSlot ELSE free[Len(free)]
           gen  == IF grow THEN 0 ELSE NextGen(idx)
           names == Unnamed(gone)
<1> USE BoundAssumption
<1>0. TypeOK /\ RegistryConsistent /\ Handles
  BY DEF IInv
<1>1. name \in Seq(NamePart)
  <2>1. user \in Seq(NamePart)
    BY NameAssumption
  <2>2. CASE Contested(user, uuid)
    <3>1. ~Refused(user, uuid)
      BY DEF AddAccepted
    <3>2. Tag(uuid) \in NamePart
      BY <2>2, <3>1, TagAssumption DEF Refused, Tag
    <3> QED
      BY <2>1, <2>2, <3>2 DEF NameFor, Alias
  <2>3. CASE ~Contested(user, uuid)
    BY <2>1, <2>3 DEF NameFor
  <2> QED
    BY <2>2, <2>3
<1>2. /\ name \in DOMAIN by_user => gone = {by_user[name]} /\ by_user[name] \in Slots
      /\ name \notin DOMAIN by_user => gone = {}
  BY <1>0 DEF Displaced, RegistryConsistent, NamesAreLive, TypeOK, PartialNames
<1>3. /\ nslots' = IF grow THEN nslots + 1 ELSE nslots
      /\ free_slots' = IF grow THEN free ELSE SubSeq(free, 1, Len(free) - 1)
      /\ receivers' = [receivers EXCEPT ![idx] = [user |-> name, uuid |-> uuid, uid |-> c]]
      /\ gens' = [gens EXCEPT ![idx] = gen]
      /\ ref' = [ref EXCEPT ![c] = [idx |-> idx, gen |-> gen]]
      /\ alive' = [s \in Slots |-> s = idx \/ (alive[s] /\ s \notin gone)]
      /\ by_user' = [n \in DOMAIN names \cup {name} |-> IF n = name THEN idx ELSE names[n]]
      /\ learned' = [learned EXCEPT ![idx] = {}]
  BY DEF AddAccepted
<1>4. by_user' = [n \in DOMAIN by_user \cup {name} |-> IF n = name THEN idx ELSE by_user[n]]
  <2>1. \A n \in DOMAIN by_user : by_user[n] \in gone => n = name
    BY <1>0, <1>2 DEF RegistryConsistent, NamesAreLive
  <2>2. /\ DOMAIN names \subseteq DOMAIN by_user
        /\ \A n \in DOMAIN by_user : n # name => n \in DOMAIN names
        /\ \A n \in DOMAIN names : names[n] = by_user[n]
    BY <2>1 DEF Unnamed
  <2>3. DOMAIN names \cup {name} = DOMAIN by_user \cup {name}
    BY <2>2
  <2> HIDE DEF idx, names, name, gone
  <2> QED
    BY <1>3, <2>2, <2>3
<1>5. Filed(c, uuid, name, gone, idx, gen)
  BY <1>3, <1>4 DEF Filed
<1>6. /\ nconns \in Nat /\ nconns + 1 <= MaxConns /\ nslots \in Nat /\ nslots <= nconns
      /\ free_slots \in Seq(Slots) /\ Slots \subseteq Nat
      /\ \A s \in Slots : s < nslots => gens[s] \in Nat /\ gens[s] < nconns
  BY <1>0 DEF TypeOK, Handles, SlotsCounted, Conns, Slots
<1>7. \A s \in Slots : s < nslots =>
        NextGen(s) = gens[s] + 1 /\ NextGen(s) \in 0..(GenMod - 1) /\ NextGen(s) < c
  BY <1>6 DEF NextGen
<1>8. Chosen(c, name, gone, idx, gen)
  <2>1. CASE name \in DOMAIN by_user
    <3>1. /\ gone = {by_user[name]} /\ by_user[name] \in Slots
          /\ by_user[name] < nslots /\ alive[by_user[name]]
      BY <1>0, <1>2, <2>1 DEF RegistryConsistent, NamesAreLive
    <3>2. /\ free = Append(free_slots, by_user[name]) /\ free # <<>>
          /\ free[Len(free)] = by_user[name]
          /\ SubSeq(free, 1, Len(free) - 1) = free_slots
      <4>1. free = Append(free_slots, by_user[name])
        BY <3>1
      <4> HIDE DEF name, free, gone
      <4> QED
        BY <1>6, <3>1, <4>1, PushPop
    <3>3. idx = by_user[name] /\ nslots' = nslots /\ free_slots' = free_slots /\ gen = NextGen(idx)
      BY <1>3, <3>2
    <3>4. \A i \in 1..Len(free_slots) : free_slots[i] # idx
      BY <1>0, <3>1, <3>3 DEF RegistryConsistent, FreeAreDead
    <3> HIDE DEF idx, gen, free, grow, gone, name, names
    <3>5. /\ idx \in Slots /\ idx < nslots /\ gens[idx] < gen /\ gen < c
          /\ gen \in 0..(GenMod - 1) /\ nslots \in 0..MaxConns /\ nslots <= c
      <4>1. idx \in Slots /\ idx < nslots
        BY <3>1, <3>3, Zenon
      <4>2. gen = gens[idx] + 1 /\ gen \in 0..(GenMod - 1) /\ gen < c /\ gens[idx] \in Nat
        BY <1>6, <1>7, <3>3, <4>1
      <4> QED
        BY <1>6, <4>1, <4>2
    <3>6. /\ gone \subseteq {idx} /\ gone = {idx} /\ by_user[name] = idx
      BY <3>1, <3>3, Zenon
    <3>7. /\ nslots' \in 0..MaxConns /\ nslots <= nslots' /\ nslots' <= c /\ idx < nslots'
          /\ \A s \in Slots : s < nslots' /\ s # idx => s < nslots
      BY <1>6, <3>3, <3>5
    <3>8. /\ free_slots' \in Seq(Slots)
          /\ \A i \in 1..Len(free_slots') :
                i \in 1..Len(free_slots) /\ free_slots'[i] = free_slots[i] /\ free_slots[i] # idx
          /\ \A i \in 1..Len(free_slots) : free_slots[i] # idx => i \in 1..Len(free_slots')
      BY <1>6, <3>3, <3>4
    <3> QED
      BY <2>1, <3>5, <3>6, <3>7, <3>8, Zenon DEF Chosen
  <2>2. CASE name \notin DOMAIN by_user /\ free_slots # <<>>
    <3>1. gone = {} /\ free = free_slots /\ ~grow
      BY <1>2, <2>2
    <3>2. /\ idx = free_slots[Len(free_slots)] /\ gen = NextGen(idx) /\ nslots' = nslots
          /\ free_slots' = SubSeq(free_slots, 1, Len(free_slots) - 1)
      BY <1>3, <3>1
    <3>3. Len(free_slots) \in 1..Len(free_slots) /\ Len(free_slots) \in Nat
      BY <1>6, <2>2, Pop
    <3>4. idx \in Slots /\ idx < nslots /\ ~alive[idx]
      BY <1>0, <1>6, <2>2, <3>2, <3>3, Pop DEF RegistryConsistent, FreeAreDead
    <3>5. /\ free_slots' \in Seq(Slots)
          /\ Len(free_slots') = Len(free_slots) - 1
          /\ \A i \in 1..Len(free_slots') : free_slots'[i] = free_slots[i]
      BY <1>6, <2>2, <3>2, Pop
    <3>6. \A i \in 1..Len(free_slots) : free_slots[i] = idx => i = Len(free_slots)
      BY <1>0, <3>2, <3>3 DEF RegistryConsistent, FreeOnce
    <3>7. /\ \A i \in 1..Len(free_slots') :
                i \in 1..Len(free_slots) /\ free_slots'[i] = free_slots[i] /\ free_slots[i] # idx
          /\ \A i \in 1..Len(free_slots) : free_slots[i] # idx => i \in 1..Len(free_slots')
      <4> HIDE DEF idx
      <4> QED
        BY <1>6, <3>2, <3>3, <3>5, <3>6
    <3> HIDE DEF idx, gen, free, grow, gone, name, names
    <3>8. /\ gens[idx] < gen /\ gen < c /\ gen \in 0..(GenMod - 1)
          /\ nslots \in 0..MaxConns /\ nslots <= c
      BY <1>6, <1>7, <3>2, <3>4
    <3>9. /\ nslots' \in 0..MaxConns /\ nslots <= nslots' /\ nslots' <= c /\ idx < nslots'
          /\ \A s \in Slots : s < nslots' /\ s # idx => s < nslots
      BY <1>6, <3>2, <3>4, <3>8
    <3>10. gone \subseteq {idx} /\ ~(gone # {})
      BY <3>1
    <3> QED
      BY <2>2, <3>4, <3>5, <3>7, <3>8, <3>9, <3>10, Zenon DEF Chosen
  <2>3. CASE name \notin DOMAIN by_user /\ free_slots = <<>>
    <3>1. gone = {} /\ free = <<>> /\ grow
      BY <1>2, <2>3
    <3>2. idx = nslots /\ gen = 0 /\ nslots' = nslots + 1 /\ free_slots' = <<>>
      BY <1>3, <3>1 DEF FreshSlot
    <3>3. nslots \in Slots /\ ~alive[nslots]
      BY <1>0, <1>6 DEF Slots, RegistryConsistent, LiveAreNamed
    <3> HIDE DEF idx, gen, free, grow, gone, name, names
    <3>4. nslots + 1 \in 0..MaxConns /\ 0 \in 0..(GenMod - 1) /\ 0 < c /\ nslots + 1 <= c
      BY <1>6
    <3>5. \A s \in Slots : s < nslots + 1 /\ s # nslots => s < nslots
      BY <1>6
    <3> QED
      BY <1>6, <2>3, <3>1, <3>2, <3>3, <3>4, <3>5 DEF Chosen
  <2> QED
    BY <2>1, <2>2, <2>3
<1> HIDE DEF idx, gen, free, grow, names
<1> QED
  BY <1>1, <1>5, <1>8

-----------------------------------------------------------------------------
(* What removals and clock resets have in common: they drop every time      *)
(* that involves the slots of S and keep the others as they are.            *)

\* Times that survive the slots of S are current if the other live slots keep
\* their holder and their clock.
LEMMA SurvivorsCurrent ==
  ASSUME TypeOK, TimesInCurrentClock, NEW S \in SUBSET Slots,
         ForgetPending(S), pairs' = PairsWithout(S),
         \A s \in Slots : alive[s] /\ s \notin S => alive'[s] /\ ClockOf(s)' = ClockOf(s)
  PROVE  TimesInCurrentClock'
<1>1. ReportsCurrent'
  <2> SUFFICES ASSUME NEW p \in SyncPair, NEW r \in syncpoints'[p]
               PROVE  Current(r.rx, r.clock)'
    BY DEF ReportsCurrent
  <2>1. r \in syncpoints[p] /\ r.rx \notin S
    BY DEF ForgetPending
  <2>2. r.rx \in Slots /\ Current(r.rx, r.clock)
    BY <2>1 DEF TypeOK, Report, TimesInCurrentClock, ReportsCurrent
  <2> QED
    BY <2>1, <2>2 DEF Current
<1>2. EntriesCurrent'
  <2> SUFFICES ASSUME NEW m \in Message, NEW e \in groups'[m]
               PROVE  Current(e.rx, e.clock)'
    BY DEF EntriesCurrent
  <2>1. e \in groups[m] /\ e.rx \notin S
    BY DEF ForgetPending
  <2>2. e.rx \in Slots /\ Current(e.rx, e.clock)
    BY <2>1 DEF TypeOK, Entry, TimesInCurrentClock, EntriesCurrent
  <2> QED
    BY <2>1, <2>2 DEF Current
<1>3. PairsCurrent'
  <2> SUFFICES ASSUME NEW p \in pairs'
               PROVE  Current(p.a, p.ca)' /\ Current(p.b, p.cb)'
    BY DEF PairsCurrent
  <2>1. p \in pairs /\ p.a \notin S /\ p.b \notin S
    BY DEF PairsWithout
  <2>2. p.a \in Slots /\ p.b \in Slots /\ Current(p.a, p.ca) /\ Current(p.b, p.cb)
    BY <2>1 DEF TypeOK, PairObs, TimesInCurrentClock, PairsCurrent
  <2> QED
    BY <2>1, <2>2 DEF Current
<1> QED
  BY <1>1, <1>2, <1>3 DEF TimesInCurrentClock

\* Dropping times keeps their types, and finitely many of them.
LEMMA SurvivorsTyped ==
  ASSUME TypeOK, FiniteReports, NEW S, ForgetPending(S), pairs' = PairsWithout(S)
  PROVE  /\ syncpoints' \in [SyncPair -> SUBSET Report]
         /\ groups' \in [Message -> SUBSET Entry]
         /\ pairs' \subseteq PairObs
         /\ FiniteReports'
<1>1. \A p \in SyncPair : syncpoints'[p] \subseteq syncpoints[p]
  BY DEF ForgetPending
<1>2. FiniteReports'
  BY <1>1, FS_Subset DEF FiniteReports
<1> QED
  BY <1>2 DEF TypeOK, ForgetPending, PairsWithout

-----------------------------------------------------------------------------

\* An admitted newcomer keeps the invariant.
LEMMA AddAcceptedIInv ==
  ASSUME IInv, NEW c \in Conns, NEW user \in UserNames, NEW uuid \in Uuid \cup {NoUuid},
         c = nconns + 1, AddAccepted(c, user, uuid)
  PROVE  IInv'
<1> DEFINE name == NameFor(user, uuid)
           gone == Displaced(name)
<1> USE BoundAssumption
<1>0. /\ name \in Seq(NamePart)
      /\ \E idx, gen : Chosen(c, name, gone, idx, gen) /\ Filed(c, uuid, name, gone, idx, gen)
  BY Admission
<1> PICK idx, gen : Chosen(c, name, gone, idx, gen) /\ Filed(c, uuid, name, gone, idx, gen)
  BY <1>0
<1>1. /\ TypeOK /\ FiniteReports /\ RegistryConsistent /\ Handles /\ TimesInCurrentClock
      /\ KeptFromHolder
  BY DEF IInv
<1>2. /\ nconns' = c /\ out' = {} /\ nmsgs' = nmsgs /\ clk' = clk
      /\ conn' = [conn EXCEPT ![c] = "open"]
      /\ heard' = [heard EXCEPT ![c] = TRUE]
      /\ ForgetPending(gone)
      /\ pairs' = PairsWithout(gone)
      /\ tracking' = TrackingWithout(gone)
      /\ stamp_offset' = [s \in Slots |-> IF s \in gone THEN {} ELSE stamp_offset[s]]
  BY DEF AddAccepted
<1> HIDE DEF name, gone
<1>3. idx \in Slots /\ gen \in 0..(GenMod - 1) /\ gone \subseteq {idx}
      /\ (alive[idx] => gone = {idx}) /\ nconns \in Nat /\ nslots \in Nat /\ c \in Nat
      /\ Slots \subseteq Nat
  BY <1>1, SMTT(30) DEF Chosen, TypeOK, Slots, Conns
<1>4. TypeOK'
  <2>1. /\ nslots' \in 0..MaxConns /\ free_slots' \in Seq(Slots) /\ nconns' \in 0..MaxConns
        /\ nmsgs' \in 0..MaxMsgs /\ out' \subseteq Fix
        /\ clk' \in [Conns -> 0..MaxResets]
    BY <1>1, <1>2 DEF TypeOK, Chosen, Conns
  <2>2. /\ receivers' \in [Slots -> ReceiverInfo]
        /\ gens' \in [Slots -> 0..(GenMod - 1)]
        /\ alive' \in [Slots -> BOOLEAN]
        /\ learned' \in [Slots -> SUBSET Conns]
    BY <1>0, <1>1, <1>3 DEF TypeOK, Filed, ReceiverInfo, Conns
  <2>3. PartialNames'
    BY <1>0, <1>1, <1>3 DEF TypeOK, PartialNames, Filed
  <2>4. /\ conn' \in [Conns -> {"none", "open", "refused", "closed"}]
        /\ ref' \in [Conns -> RxRef]
        /\ heard' \in [Conns -> BOOLEAN]
    BY <1>1, <1>2, <1>3 DEF TypeOK, Filed, RxRef
  <2>5. /\ syncpoints' \in [SyncPair -> SUBSET Report]
        /\ groups' \in [Message -> SUBSET Entry]
        /\ pairs' \subseteq PairObs
    BY <1>1, <1>2, SurvivorsTyped
  <2>6. /\ tracking' \subseteq [rx : Slots, uid : Conns]
        /\ stamp_offset' \in [Slots -> SUBSET Clocks]
    BY <1>1, <1>2 DEF TypeOK, TrackingWithout
  <2> QED
    BY <2>1, <2>2, <2>3, <2>4, <2>5, <2>6 DEF TypeOK
<1>5. FiniteReports'
  BY <1>1, <1>2, SurvivorsTyped
<1>6. RegistryConsistent'
  <2>1. NamesAreLive'
    <3> SUFFICES ASSUME NEW n \in DOMAIN by_user'
                 PROVE  by_user'[n] < nslots' /\ alive'[by_user'[n]]
                        /\ receivers'[by_user'[n]].user = n
      BY DEF NamesAreLive
    <3>1. CASE n = name
      <4>1. by_user'[n] = idx
        BY <3>1 DEF Filed
      <4>2. alive'[idx] /\ receivers'[idx].user = name
        BY <1>1, <1>3 DEF Filed, TypeOK
      <4> QED
        BY <3>1, <4>1, <4>2 DEF Chosen
    <3>2. CASE n # name
      <4>1. n \in DOMAIN by_user /\ by_user'[n] = by_user[n]
        BY <3>2 DEF Filed
      <4>2. by_user[n] \in Slots /\ by_user[n] < nslots /\ alive[by_user[n]]
            /\ receivers[by_user[n]].user = n
        BY <1>1, <4>1 DEF TypeOK, PartialNames, RegistryConsistent, NamesAreLive
      <4>3. by_user[n] # idx
        <5> SUFFICES ASSUME by_user[n] = idx PROVE FALSE
          OBVIOUS
        <5>1. gone = {idx} /\ name \in DOMAIN by_user /\ by_user[name] = idx
          BY <4>2 DEF Chosen
        <5>2. receivers[idx].user = name
          BY <1>1, <5>1 DEF RegistryConsistent, NamesAreLive
        <5> QED
          BY <3>2, <4>2, <5>2
      <4>4. alive'[by_user[n]] /\ receivers'[by_user[n]] = receivers[by_user[n]]
        BY <1>1, <1>3, <4>2, <4>3 DEF Filed, TypeOK
      <4>5. by_user[n] < nslots'
        BY <1>3, <4>2 DEF Chosen
      <4> QED
        BY <4>1, <4>2, <4>4, <4>5
    <3> QED
      BY <3>1, <3>2
  <2>2. LiveAreNamed'
    <3> SUFFICES ASSUME NEW s \in Slots, alive'[s]
                 PROVE  s < nslots' /\ receivers'[s].user \in DOMAIN by_user'
                        /\ by_user'[receivers'[s].user] = s
      BY DEF LiveAreNamed
    <3>1. CASE s = idx
      BY <1>1, <1>3, <3>1 DEF Filed, Chosen, TypeOK
    <3>2. CASE s # idx
      <4>1. alive[s] /\ s < nslots /\ receivers'[s] = receivers[s]
            /\ receivers[s].user \in DOMAIN by_user /\ by_user[receivers[s].user] = s
        BY <1>1, <1>3, <3>2 DEF Filed, TypeOK, RegistryConsistent, LiveAreNamed
      <4>2. receivers[s].user # name
        BY <3>2, <4>1 DEF Chosen
      <4> QED
        BY <1>3, <4>1, <4>2 DEF Filed, Chosen
    <3> QED
      BY <3>1, <3>2
  <2>3. FreeAreDead'
    <3> SUFFICES ASSUME NEW i \in 1..Len(free_slots')
                 PROVE  free_slots'[i] < nslots' /\ ~alive'[free_slots'[i]]
      BY DEF FreeAreDead
    <3>1. i \in 1..Len(free_slots) /\ free_slots'[i] = free_slots[i] /\ free_slots[i] # idx
      BY DEF Chosen
    <3>2. free_slots[i] \in Slots /\ free_slots[i] < nslots /\ ~alive[free_slots[i]]
      BY <1>1, <3>1, ElementOfSeq DEF TypeOK, RegistryConsistent, FreeAreDead
    <3>3. ~alive'[free_slots[i]]
      <4>1. \A s \in Slots : alive'[s] <=> (s = idx \/ (alive[s] /\ s \notin gone))
        BY DEF Filed
      <4> QED
        BY <3>1, <3>2, <4>1
    <3>4. free_slots[i] < nslots'
      <4>1. nslots' \in 0..MaxConns /\ nslots <= nslots'
        BY Zenon DEF Chosen
      <4>2. nslots \in 0..MaxConns
        BY <1>1 DEF TypeOK
      <4>3. free_slots[i] \in 0..(MaxConns - 1)
        BY <3>2, Zenon DEF Slots
      <4>4. free_slots[i] < nslots
        BY <3>2
      <4> HIDE DEF name, gone
      <4> QED
        BY <4>1, <4>2, <4>3, <4>4, BoundAssumption
    <3> QED
      BY <3>1, <3>3, <3>4
  <2>4. FreeOnce'
    BY <1>1 DEF RegistryConsistent, FreeOnce, Chosen
  <2>5. DeadAreFree'
    <3> SUFFICES ASSUME NEW s \in Slots, s < nslots', ~alive'[s]
                 PROVE  \E i \in 1..Len(free_slots') : free_slots'[i] = s
      BY DEF DeadAreFree
    <3>1. s # idx /\ s < nslots /\ ~alive[s]
      BY <1>3 DEF Filed, Chosen
    <3>2. PICK i \in 1..Len(free_slots) : free_slots[i] = s
      BY <1>1, <3>1 DEF RegistryConsistent, DeadAreFree
    <3>3. i \in 1..Len(free_slots') /\ free_slots'[i] = s
      BY <3>1, <3>2 DEF Chosen
    <3> QED
      BY <3>3
  <2> QED
    BY <2>1, <2>2, <2>3, <2>4, <2>5 DEF RegistryConsistent
<1>7. Handles'
  <2>1. SlotsCounted'
    <3>1. \A s \in Slots : s < nslots' => gens'[s] < c
      <4> SUFFICES ASSUME NEW s \in Slots, s < nslots' PROVE gens'[s] < c
        OBVIOUS
      <4>1. CASE s = idx
        BY <1>1, <1>3, <4>1 DEF Filed, Chosen, TypeOK
      <4>2. CASE s # idx
        <5>1. s < nslots /\ gens'[s] = gens[s] /\ gens[s] < nconns /\ gens[s] \in Nat
          BY <1>1, <1>3, <4>2 DEF Filed, Chosen, TypeOK, Handles, SlotsCounted
        <5> QED
          BY <1>3, <5>1
      <4> QED
        BY <4>1, <4>2
    <3> QED
      BY <1>2, <3>1 DEF SlotsCounted, Chosen
  <2>2. RefsIssued'
    <3> SUFFICES ASSUME NEW d \in Conns, Admitted(d)'
                 PROVE  /\ d <= nconns'
                        /\ ref'[d].idx < nslots'
                        /\ ref'[d].gen <= gens'[ref'[d].idx]
                        /\ ref'[d].gen = gens'[ref'[d].idx] => receivers'[ref'[d].idx].uid = d
      BY DEF RefsIssued
    <3>1. CASE d = c
      <4>1. ref'[d] = [idx |-> idx, gen |-> gen] /\ gens'[idx] = gen /\ receivers'[idx].uid = c
        BY <1>1, <1>3, <3>1 DEF Filed, TypeOK
      <4> QED
        BY <1>2, <1>3, <3>1, <4>1 DEF Chosen
    <3>2. CASE d # c
      <4>1. Admitted(d) /\ ref'[d] = ref[d] /\ ref[d].idx \in Slots /\ ref[d].gen \in Nat
        BY <1>1, <1>2, <3>2 DEF Admitted, Filed, TypeOK, RxRef
      <4>2. /\ d <= nconns /\ ref[d].idx < nslots /\ ref[d].gen <= gens[ref[d].idx]
            /\ ref[d].gen = gens[ref[d].idx] => receivers[ref[d].idx].uid = d
        BY <1>1, <4>1 DEF Handles, RefsIssued
      <4>3. d <= nconns' /\ ref[d].idx < nslots'
        BY <1>2, <1>3, <4>1, <4>2 DEF Chosen, Conns
      <4>4. CASE ref[d].idx = idx
        <5>1. gens'[idx] = gen /\ gens[idx] < gen /\ gens[idx] \in Nat
          BY <1>1, <1>3, <4>2, <4>4 DEF Filed, Chosen, TypeOK
        <5> QED
          BY <1>3, <4>1, <4>2, <4>3, <4>4, <5>1
      <4>5. CASE ref[d].idx # idx
        <5>1. gens'[ref[d].idx] = gens[ref[d].idx] /\ receivers'[ref[d].idx] = receivers[ref[d].idx]
          BY <1>1, <1>3, <4>1, <4>5 DEF Filed, TypeOK
        <5> QED
          BY <4>1, <4>2, <4>3, <5>1
      <4> QED
        BY <4>4, <4>5
    <3> QED
      BY <3>1, <3>2
  <2>3. HoldersKnown'
    <3> SUFFICES ASSUME NEW s \in Slots, alive'[s]
                 PROVE  /\ receivers'[s].uid \in Conns
                        /\ receivers'[s].uid <= nconns'
                        /\ ref'[receivers'[s].uid] = [idx |-> s, gen |-> gens'[s]]
                        /\ conn'[receivers'[s].uid] = "open"
      BY DEF HoldersKnown
    <3>1. CASE s = idx
      <4>1. receivers'[s].uid = c /\ ref'[c] = [idx |-> idx, gen |-> gen] /\ gens'[idx] = gen
            /\ conn'[c] = "open"
        BY <1>1, <1>2, <1>3, <3>1 DEF Filed, TypeOK
      <4> QED
        BY <1>2, <1>3, <3>1, <4>1
    <3>2. CASE s # idx
      <4>1. alive[s] /\ receivers'[s] = receivers[s] /\ gens'[s] = gens[s]
        BY <1>1, <1>3, <3>2 DEF Filed, TypeOK
      <4>2. /\ receivers[s].uid \in Conns /\ receivers[s].uid <= nconns
            /\ ref[receivers[s].uid] = [idx |-> s, gen |-> gens[s]]
            /\ conn[receivers[s].uid] = "open"
        BY <1>1, <4>1 DEF Handles, HoldersKnown
      <4>3. receivers[s].uid # c /\ receivers[s].uid <= c
        BY <1>3, <4>2 DEF Conns
      <4>4. ref'[receivers[s].uid] = ref[receivers[s].uid]
            /\ conn'[receivers[s].uid] = conn[receivers[s].uid]
        BY <1>1, <1>2, <4>2, <4>3 DEF Filed, TypeOK
      <4> QED
        BY <1>2, <4>1, <4>2, <4>3, <4>4
    <3> QED
      BY <3>1, <3>2
  <2> QED
    BY <2>1, <2>2, <2>3 DEF Handles
<1>8. \A s \in Slots : alive[s] /\ s \notin gone =>
         s # idx /\ alive'[s] /\ receivers'[s] = receivers[s] /\ ClockOf(s)' = ClockOf(s)
  BY <1>1, <1>2, <1>3 DEF Filed, ClockOf, TypeOK
<1>9. TimesInCurrentClock'
  <2>1. gone \in SUBSET Slots
    BY <1>3
  <2> QED
    BY <1>1, <1>2, <1>8, <2>1, SurvivorsCurrent
<1>10. KeptFromHolder'
  <2>1. ASSUME NEW s \in Slots, alive'[s] PROVE learned'[s] \subseteq {receivers'[s].uid}
    <3>1. CASE s = idx
      BY <1>1, <1>3, <3>1 DEF Filed, TypeOK
    <3>2. CASE s # idx
      BY <1>1, <1>3, <2>1, <3>2 DEF Filed, TypeOK, KeptFromHolder
    <3> QED
      BY <3>1, <3>2
  <2>2. ASSUME NEW t \in tracking' PROVE alive'[t.rx] /\ t.uid = receivers'[t.rx].uid
    <3>1. t \in tracking /\ t.rx \notin gone
      BY <1>2, <2>2 DEF TrackingWithout
    <3>2. t.rx \in Slots /\ alive[t.rx] /\ t.uid = receivers[t.rx].uid
      BY <1>1, <3>1 DEF TypeOK, KeptFromHolder
    <3> QED
      BY <1>8, <3>1, <3>2
  <2> QED
    BY <2>1, <2>2 DEF KeptFromHolder
<1>11. RecipientsHeard'
  BY <1>2 DEF RecipientsHeard
<1> QED
  BY <1>4, <1>5, <1>6, <1>7, <1>9, <1>10, <1>11 DEF IInv

\* A live RxRef is its connection's slot, and no other live slot is held by it.
LEMMA LiveRef ==
  ASSUME TypeOK, Handles, NEW c \in Conns, conn[c] = "open"
  PROVE  /\ ref[c].idx \in Slots
         /\ Live(ref[c]) => alive[ref[c].idx] /\ receivers[ref[c].idx].uid = c
         /\ \A s \in Slots : alive[s] /\ receivers[s].uid = c => Live(ref[c]) /\ ref[c].idx = s
<1>1. ref[c].idx \in Slots /\ Admitted(c)
  BY DEF TypeOK, RxRef, Admitted
<1>2. Live(ref[c]) => alive[ref[c].idx] /\ receivers[ref[c].idx].uid = c
  BY <1>1 DEF Live, Handles, RefsIssued
<1>3. ASSUME NEW s \in Slots, alive[s], receivers[s].uid = c
      PROVE  Live(ref[c]) /\ ref[c].idx = s
  <2>1. ref[c] = [idx |-> s, gen |-> gens[s]]
    BY <1>3 DEF Handles, HoldersKnown
  <2>2. ref[c].idx < nslots
    BY <1>1 DEF Handles, RefsIssued
  <2> QED
    BY <1>3, <2>1, <2>2 DEF Live
<1> QED
  BY <1>1, <1>2, <1>3

\* A removal keeps the invariant, by a current holder or by a late one.
LEMMA RemoveReceiverIInv ==
  ASSUME IInv, NEW c \in Conns, RemoveReceiver(c)
  PROVE  IInv'
<1> DEFINE gone == IF Live(ref[c]) THEN {ref[c].idx} ELSE {}
<1> USE BoundAssumption
<1>1. /\ TypeOK /\ FiniteReports /\ RegistryConsistent /\ Handles /\ TimesInCurrentClock
      /\ KeptFromHolder /\ conn[c] = "open"
  BY DEF IInv, RemoveReceiver
<1>2. /\ conn' = [conn EXCEPT ![c] = "closed"]
      /\ alive' = [s \in Slots |-> alive[s] /\ s \notin gone]
      /\ by_user' = Unnamed(gone)
      /\ free_slots' = IF gone = {} THEN free_slots ELSE Append(free_slots, ref[c].idx)
      /\ ForgetPending(gone) /\ pairs' = PairsWithout(gone) /\ tracking' = TrackingWithout(gone)
      /\ stamp_offset' = [s \in Slots |-> IF s \in gone THEN {} ELSE stamp_offset[s]]
      /\ out' = {}
      /\ UNCHANGED <<nslots, receivers, gens, nconns, ref, heard, clk, learned, nmsgs>>
  BY DEF RemoveReceiver
<1>3. /\ ref[c].idx \in Slots
      /\ Live(ref[c]) => alive[ref[c].idx] /\ receivers[ref[c].idx].uid = c
      /\ \A s \in Slots : alive[s] /\ receivers[s].uid = c => Live(ref[c]) /\ ref[c].idx = s
  BY <1>1, LiveRef
<1>4. /\ gone \in SUBSET Slots
      /\ gone = {} \/ (gone = {ref[c].idx} /\ alive[ref[c].idx] /\ ref[c].idx < nslots)
      /\ \A s \in Slots : alive[s] /\ receivers[s].uid = c => s \in gone
  BY <1>3 DEF Live
<1> HIDE DEF gone
<1>5. \A s \in Slots : alive'[s] <=> alive[s] /\ s \notin gone
  BY <1>2
<1>6. /\ \A n \in DOMAIN by_user' : n \in DOMAIN by_user /\ by_user'[n] = by_user[n]
                                     /\ by_user[n] \notin gone
      /\ \A n \in DOMAIN by_user : by_user[n] \notin gone => n \in DOMAIN by_user'
  BY <1>1, <1>2 DEF Unnamed, RegistryConsistent, NamesAreLive
<1>7. TypeOK' /\ FiniteReports'
  <2>1. /\ syncpoints' \in [SyncPair -> SUBSET Report] /\ groups' \in [Message -> SUBSET Entry]
        /\ pairs' \subseteq PairObs /\ FiniteReports'
    BY <1>1, <1>2, SurvivorsTyped
  <2>2. free_slots' \in Seq(Slots)
    BY <1>1, <1>2, <1>3, AppendProperties DEF TypeOK
  <2>3. PartialNames'
    BY <1>1, <1>6 DEF TypeOK, PartialNames
  <2> QED
    BY <1>1, <1>2, <2>1, <2>2, <2>3 DEF TypeOK, TrackingWithout
<1>8. RegistryConsistent'
  <2>1. NamesAreLive'
    BY <1>1, <1>2, <1>5, <1>6 DEF RegistryConsistent, NamesAreLive, TypeOK, PartialNames
  <2>2. LiveAreNamed'
    BY <1>1, <1>2, <1>5, <1>6 DEF RegistryConsistent, LiveAreNamed
  <2>3. CASE gone = {}
    BY <1>1, <1>2, <1>5, <2>1, <2>2, <2>3
       DEF RegistryConsistent, FreeAreDead, FreeOnce, DeadAreFree, TypeOK
  <2>4. CASE gone = {ref[c].idx} /\ alive[ref[c].idx] /\ ref[c].idx < nslots
    <3> DEFINE x == ref[c].idx
    <3>1. /\ free_slots \in Seq(Slots) /\ x \in Slots /\ alive[x] /\ x < nslots
          /\ free_slots' = Append(free_slots, x) /\ ~alive'[x]
      BY <1>1, <1>2, <1>3, <1>5, <2>4 DEF TypeOK
    <3> HIDE DEF x
    <3>2. /\ Len(free_slots) \in Nat /\ Len(free_slots') = Len(free_slots) + 1
          /\ free_slots'[Len(free_slots) + 1] = x
          /\ \A i \in 1..Len(free_slots) : free_slots'[i] = free_slots[i] /\ free_slots[i] \in Slots
      BY <3>1, AppendProperties, LenProperties, ElementOfSeq
    <3>3. \A i \in 1..Len(free_slots') : i \in 1..Len(free_slots) \/ i = Len(free_slots) + 1
      BY <3>2
    <3>4. \A i \in 1..Len(free_slots) :
              free_slots[i] < nslots /\ ~alive[free_slots[i]] /\ free_slots[i] # x
      BY <1>1, <3>1 DEF RegistryConsistent, FreeAreDead
    <3>5. FreeAreDead'
      BY <1>2, <1>5, <3>1, <3>2, <3>3, <3>4 DEF FreeAreDead
    <3>6. FreeOnce'
      <4> SUFFICES ASSUME NEW i \in 1..Len(free_slots'), NEW j \in 1..Len(free_slots'),
                          free_slots'[i] = free_slots'[j]
                   PROVE  i = j
        BY DEF FreeOnce
      <4> QED
        BY <1>1, <3>2, <3>3, <3>4 DEF RegistryConsistent, FreeOnce
    <3>7. DeadAreFree'
      <4> SUFFICES ASSUME NEW s \in Slots, s < nslots', ~alive'[s]
                   PROVE  \E i \in 1..Len(free_slots') : free_slots'[i] = s
        BY DEF DeadAreFree
      <4>1. CASE s = x
        BY <3>2, <4>1
      <4>2. CASE s # x
        <5>1. ~alive[s] /\ s < nslots
          BY <1>2, <1>5, <2>4, <4>2 DEF x
        <5>2. PICK i \in 1..Len(free_slots) : free_slots[i] = s
          BY <1>1, <5>1 DEF RegistryConsistent, DeadAreFree
        <5>3. i \in 1..Len(free_slots') /\ free_slots'[i] = s
          BY <3>2, <5>2
        <5> QED
          BY <5>3
      <4> QED
        BY <4>1, <4>2
    <3> QED
      BY <2>1, <2>2, <3>5, <3>6, <3>7 DEF RegistryConsistent
  <2> QED
    BY <1>4, <2>3, <2>4
<1>9. Handles'
  <2>1. SlotsCounted'
    BY <1>1, <1>2 DEF Handles, SlotsCounted
  <2>2. RefsIssued'
    BY <1>1, <1>2 DEF Handles, RefsIssued, Admitted, TypeOK
  <2>3. HoldersKnown'
    <3> SUFFICES ASSUME NEW s \in Slots, alive'[s]
                 PROVE  /\ receivers'[s].uid \in Conns
                        /\ receivers'[s].uid <= nconns'
                        /\ ref'[receivers'[s].uid] = [idx |-> s, gen |-> gens'[s]]
                        /\ conn'[receivers'[s].uid] = "open"
      BY DEF HoldersKnown
    <3>1. alive[s] /\ receivers[s].uid # c
      BY <1>4, <1>5
    <3> QED
      BY <1>1, <1>2, <3>1 DEF Handles, HoldersKnown, TypeOK
  <2> QED
    BY <2>1, <2>2, <2>3 DEF Handles
<1>10. TimesInCurrentClock'
  <2>1. \A s \in Slots : alive[s] /\ s \notin gone => alive'[s] /\ ClockOf(s)' = ClockOf(s)
    BY <1>2, <1>5 DEF ClockOf
  <2> QED
    BY <1>1, <1>2, <1>4, <2>1, SurvivorsCurrent
<1>11. KeptFromHolder' /\ RecipientsHeard'
  BY <1>1, <1>2, <1>5 DEF KeptFromHolder, RecipientsHeard, TrackingWithout, TypeOK
<1> QED
  BY <1>7, <1>8, <1>9, <1>10, <1>11 DEF IInv

\* A clock reset keeps the invariant.
LEMMA ClockResetIInv ==
  ASSUME IInv, NEW c \in Conns, ClockReset(c)
  PROVE  IInv'
<1> DEFINE reset == IF Live(ref[c]) THEN {ref[c].idx} ELSE {}
<1> USE BoundAssumption
<1>1. /\ TypeOK /\ FiniteReports /\ RegistryConsistent /\ Handles /\ TimesInCurrentClock
      /\ KeptFromHolder /\ conn[c] = "open"
  BY DEF IInv, ClockReset
<1>2. /\ clk[c] < MaxResets /\ clk' = [clk EXCEPT ![c] = @ + 1]
      /\ pairs' = PairsWithout(reset) /\ ForgetPending(reset) /\ out' = {}
      /\ UNCHANGED <<nslots, receivers, gens, alive, free_slots, by_user, nconns, conn, ref, heard,
                     stamp_offset, learned, tracking, nmsgs>>
  BY DEF ClockReset, registry
<1>3. /\ reset \in SUBSET Slots
      /\ \A s \in Slots : alive[s] /\ receivers[s].uid = c => s \in reset
  BY <1>1, LiveRef
<1> HIDE DEF reset
<1>4. TypeOK' /\ FiniteReports'
  <2>1. /\ syncpoints' \in [SyncPair -> SUBSET Report] /\ groups' \in [Message -> SUBSET Entry]
        /\ pairs' \subseteq PairObs /\ FiniteReports'
    BY <1>1, <1>2, SurvivorsTyped
  <2>2. clk' \in [Conns -> 0..MaxResets]
    BY <1>1, <1>2 DEF TypeOK
  <2>3. PartialNames'
    BY <1>1, <1>2 DEF TypeOK, PartialNames
  <2> QED
    BY <1>1, <1>2, <2>1, <2>2, <2>3 DEF TypeOK
<1>5. RegistryConsistent' /\ KeptFromHolder' /\ RecipientsHeard'
  BY <1>1, <1>2 DEF RegistryConsistent, NamesAreLive, LiveAreNamed, FreeAreDead, FreeOnce,
                    DeadAreFree, KeptFromHolder, RecipientsHeard
<1>6. Handles'
  BY <1>1, <1>2 DEF Handles, SlotsCounted, RefsIssued, HoldersKnown, Admitted
<1>7. TimesInCurrentClock'
  <2>1. ASSUME NEW s \in Slots, alive[s], s \notin reset
        PROVE  alive'[s] /\ ClockOf(s)' = ClockOf(s)
    <3>1. receivers[s].uid # c /\ receivers[s].uid \in Conns
      BY <1>1, <1>3, <2>1 DEF Handles, HoldersKnown
    <3> QED
      BY <1>1, <1>2, <2>1, <3>1 DEF ClockOf, TypeOK
  <2> QED
    BY <1>1, <1>2, <1>3, <2>1, SurvivorsCurrent
<1> QED
  BY <1>4, <1>5, <1>6, <1>7 DEF IInv

-----------------------------------------------------------------------------

\* What a message by a live RxRef is: its slot is alive, held by the connection,
\* and its entry is in the clock the slot measures in.
LEMMA MessageCurrent ==
  ASSUME TypeOK, Handles, NEW c \in Conns, conn[c] = "open", Live(ref[c])
  PROVE  /\ ref[c].idx \in Slots
         /\ receivers[ref[c].idx].uid = c
         /\ <<c, clk[c]>> \in Clocks
         /\ Current(ref[c].idx, <<c, clk[c]>>)
<1>1. ref[c].idx \in Slots /\ alive[ref[c].idx] /\ receivers[ref[c].idx].uid = c
  BY LiveRef
<1> QED
  BY <1>1 DEF Current, ClockOf, TypeOK, Clocks

\* The bookkeeping of a message keeps its part of the invariant.
LEMMA TouchKept ==
  ASSUME IInv, NEW c \in Conns, conn[c] = "open", Live(ref[c]), Touch(c, ref[c].idx),
         UNCHANGED <<registry, feeders, stamp_offset>>, out' = {}
  PROVE  /\ nmsgs' \in 0..MaxMsgs
         /\ learned' \in [Slots -> SUBSET Conns]
         /\ tracking' \subseteq [rx : Slots, uid : Conns]
         /\ PartialNames'
         /\ RegistryConsistent' /\ Handles' /\ KeptFromHolder' /\ RecipientsHeard'
<1>0. TypeOK /\ Handles /\ RegistryConsistent /\ KeptFromHolder
  BY DEF IInv
<1>1. ref[c].idx \in Slots /\ receivers[ref[c].idx].uid = c /\ alive[ref[c].idx]
  BY <1>0, MessageCurrent DEF Current
<1> DEFINE x == ref[c].idx
<1> HIDE DEF x
<1>2. /\ nmsgs < MaxMsgs /\ nmsgs' = nmsgs + 1
      /\ learned' = [learned EXCEPT ![x] = @ \cup {c}]
      /\ tracking' = tracking \cup {[rx |-> x, uid |-> c]}
      /\ x \in Slots /\ receivers[x].uid = c /\ alive[x]
  BY <1>1 DEF Touch, x
<1>3. /\ nmsgs' \in 0..MaxMsgs
      /\ learned' \in [Slots -> SUBSET Conns]
      /\ tracking' \subseteq [rx : Slots, uid : Conns]
  BY <1>0, <1>2, BoundAssumption DEF TypeOK
<1>4. PartialNames' /\ RegistryConsistent' /\ Handles' /\ RecipientsHeard'
  BY <1>0 DEF registry, feeders, TypeOK, PartialNames, RegistryConsistent, NamesAreLive,
              LiveAreNamed, FreeAreDead, FreeOnce, DeadAreFree, Handles, SlotsCounted, RefsIssued,
              HoldersKnown, Admitted, RecipientsHeard
<1>5. KeptFromHolder'
  <2>1. ASSUME NEW s \in Slots, alive'[s] PROVE learned'[s] \subseteq {receivers'[s].uid}
    <3>1. alive[s] /\ receivers' = receivers /\ learned[s] \subseteq {receivers[s].uid}
      BY <1>0, <2>1 DEF registry, KeptFromHolder
    <3> QED
      BY <1>0, <1>2, <3>1 DEF TypeOK
  <2>2. ASSUME NEW t \in tracking' PROVE alive'[t.rx] /\ t.uid = receivers'[t.rx].uid
    BY <1>0, <1>2, <2>2 DEF registry, KeptFromHolder
  <2> QED
    BY <2>1, <2>2 DEF KeptFromHolder
<1> QED
  BY <1>3, <1>4, <1>5

\* An mlat message keeps the invariant.
LEMMA OnMlatIInv ==
  ASSUME IInv, NEW c \in Conns, NEW m \in Message, OnMlat(c, m)
  PROVE  IInv'
<1> DEFINE e == EntryOf(c, ref[c].idx)
<1>0. /\ TypeOK /\ FiniteReports /\ Handles /\ TimesInCurrentClock
      /\ conn[c] = "open" /\ Live(ref[c]) /\ Touch(c, ref[c].idx) /\ out' = {}
      /\ groups' = Grouped(m, e)
      /\ UNCHANGED <<registry, feeders, syncpoints, pairs, stamp_offset>>
  BY DEF IInv, OnMlat
<1>1. /\ nmsgs' \in 0..MaxMsgs
      /\ learned' \in [Slots -> SUBSET Conns]
      /\ tracking' \subseteq [rx : Slots, uid : Conns]
      /\ PartialNames'
      /\ RegistryConsistent' /\ Handles' /\ KeptFromHolder' /\ RecipientsHeard'
  BY <1>0, TouchKept
<1>2. e \in Entry /\ Current(e.rx, e.clock)
  BY <1>0, MessageCurrent DEF EntryOf, Entry
<1> HIDE DEF e
<1>3. groups' \in [Message -> SUBSET Entry]
  BY <1>0, <1>2 DEF Grouped, TypeOK
<1>4. TypeOK' /\ FiniteReports'
  BY <1>0, <1>1, <1>3 DEF TypeOK, FiniteReports, registry, feeders
<1>5. \A s, k : Current(s, k)' <=> Current(s, k)
  BY <1>0 DEF Current, ClockOf, registry, feeders
<1>6. TimesInCurrentClock'
  <2>1. ReportsCurrent' /\ PairsCurrent'
    BY <1>0, <1>5 DEF TimesInCurrentClock, ReportsCurrent, PairsCurrent
  <2>2. \A n \in Message : \A f \in groups'[n] : f \in groups[n] \/ f = e
    BY <1>0 DEF Grouped, TypeOK
  <2>3. EntriesCurrent'
    BY <1>0, <1>2, <1>5, <2>2 DEF TimesInCurrentClock, EntriesCurrent
  <2> QED
    BY <2>1, <2>3 DEF TimesInCurrentClock
<1> QED
  BY <1>1, <1>4, <1>6 DEF IInv

\* A sync message whose positions do not decode keeps the invariant.
LEMMA OnSyncUndecodedIInv ==
  ASSUME IInv, NEW c \in Conns, NEW p \in SyncPair, OnSyncUndecoded(c, p)
  PROVE  IInv'
<1>0. /\ TypeOK /\ FiniteReports /\ Handles /\ TimesInCurrentClock
      /\ conn[c] = "open" /\ Live(ref[c]) /\ Touch(c, ref[c].idx) /\ out' = {}
      /\ UNCHANGED <<registry, feeders, syncpoints, groups, pairs, stamp_offset>>
  BY DEF IInv, OnSyncUndecoded
<1>1. /\ nmsgs' \in 0..MaxMsgs
      /\ learned' \in [Slots -> SUBSET Conns]
      /\ tracking' \subseteq [rx : Slots, uid : Conns]
      /\ PartialNames'
      /\ RegistryConsistent' /\ Handles' /\ KeptFromHolder' /\ RecipientsHeard'
  BY <1>0, TouchKept
<1>2. TypeOK' /\ FiniteReports'
  BY <1>0, <1>1 DEF TypeOK, FiniteReports, registry, feeders
<1>3. TimesInCurrentClock'
  BY <1>0 DEF TimesInCurrentClock, ReportsCurrent, EntriesCurrent, PairsCurrent, Current, ClockOf,
              registry, feeders
<1> QED
  BY <1>1, <1>2, <1>3 DEF IInv

\* A sync message keeps the invariant: its report and what it trains are in
\* clocks that hold now, because the reports it is paired with are.
LEMMA OnSyncIInv ==
  ASSUME IInv, NEW c \in Conns, NEW p \in SyncPair, OnSync(c, p)
  PROVE  IInv'
<1> DEFINE x == ref[c].idx
           e == EntryOf(c, x)
           report == ReportOf(c, x, p)
           trained == Trained(report, syncpoints[p])
<1>0. /\ TypeOK /\ FiniteReports /\ Handles /\ TimesInCurrentClock
      /\ conn[c] = "open" /\ Live(ref[c]) /\ Touch(c, ref[c].idx) /\ out' = {}
      /\ groups' = Grouped(EvenOf[p], e) \/ groups' = groups
      /\ \/ syncpoints' = syncpoints /\ pairs' = pairs
         \/ /\ syncpoints' = [syncpoints EXCEPT ![p] = @ \cup {report}]
            /\ pairs' = pairs \cup trained
      /\ UNCHANGED <<registry, feeders, stamp_offset>>
  BY DEF IInv, OnSync
<1>1. /\ nmsgs' \in 0..MaxMsgs
      /\ learned' \in [Slots -> SUBSET Conns]
      /\ tracking' \subseteq [rx : Slots, uid : Conns]
      /\ PartialNames'
      /\ RegistryConsistent' /\ Handles' /\ KeptFromHolder' /\ RecipientsHeard'
  BY <1>0, TouchKept
<1>2. e \in Entry /\ Current(e.rx, e.clock)
  BY <1>0, MessageCurrent DEF EntryOf, Entry
<1>3. report \in Report /\ Current(report.rx, report.clock)
  <2> DEFINE own == {r \in syncpoints[p] : r.rx = x}
  <2>1. IsFiniteSet(own)
    BY <1>0, FS_Subset DEF FiniteReports
  <2>2. Cardinality(own) + 1 \in Nat
    BY <2>1, FS_CardinalityType
  <2>3. x \in Slots /\ <<c, clk[c]>> \in Clocks /\ Current(x, <<c, clk[c]>>)
    BY <1>0, MessageCurrent
  <2>4. report = [rx |-> x, clock |-> <<c, clk[c]>>, n |-> Cardinality(own) + 1]
    BY DEF ReportOf
  <2> HIDE DEF own, x, report
  <2> QED
    BY <2>2, <2>3, <2>4 DEF Report
<1>4. \A q \in trained : q \in PairObs /\ Current(q.a, q.ca) /\ Current(q.b, q.cb)
  <2>1. \A r \in syncpoints[p] : r \in Report /\ Current(r.rx, r.clock)
    BY <1>0 DEF TypeOK, TimesInCurrentClock, ReportsCurrent
  <2> HIDE DEF report
  <2> QED
    BY <1>3, <2>1 DEF Trained, Report, PairObs
<1> HIDE DEF e, report, trained
<1>5. groups' \in [Message -> SUBSET Entry]
      /\ \A n \in Message : \A f \in groups'[n] : f \in groups[n] \/ f = e
  <2>1. EvenOf[p] \in Message /\ groups \in [Message -> SUBSET Entry]
    BY <1>0, KeyAssumption DEF TypeOK
  <2>2. CASE groups' = Grouped(EvenOf[p], e)
    BY <1>2, <2>1, <2>2 DEF Grouped
  <2>3. CASE groups' = groups
    BY <2>1, <2>3
  <2> QED
    BY <1>0, <2>2, <2>3
<1>6. /\ syncpoints' \in [SyncPair -> SUBSET Report]
      /\ \A q \in SyncPair : \A r \in syncpoints'[q] : r \in syncpoints[q] \/ r = report
  BY <1>0, <1>3 DEF TypeOK
<1>7. FiniteReports'
  <2>1. \A q \in SyncPair : syncpoints'[q] \subseteq syncpoints[q] \cup {report}
    BY <1>6
  <2>2. \A q \in SyncPair : IsFiniteSet(syncpoints[q] \cup {report})
    BY <1>0, FS_AddElement DEF FiniteReports
  <2> QED
    BY <2>1, <2>2, FS_Subset DEF FiniteReports
<1>8. pairs' \subseteq PairObs
  BY <1>0, <1>4 DEF TypeOK
<1>9. TypeOK'
  BY <1>0, <1>1, <1>5, <1>6, <1>8 DEF TypeOK, registry, feeders
<1>10. \A s, k : Current(s, k)' <=> Current(s, k)
  BY <1>0 DEF Current, ClockOf, registry, feeders
<1>11. TimesInCurrentClock'
  <2>1. ReportsCurrent'
    BY <1>0, <1>3, <1>6, <1>10 DEF TimesInCurrentClock, ReportsCurrent
  <2>2. EntriesCurrent'
    BY <1>0, <1>2, <1>5, <1>10 DEF TimesInCurrentClock, EntriesCurrent
  <2>3. PairsCurrent'
    BY <1>0, <1>4, <1>10 DEF TimesInCurrentClock, PairsCurrent
  <2> QED
    BY <2>1, <2>2, <2>3 DEF TimesInCurrentClock
<1> QED
  BY <1>1, <1>7, <1>9, <1>11 DEF IInv

\* A sweep keeps the invariant; a fix it emits is addressed to holders of slots
\* whose entries, being current, were reported by those very holders.
LEMMA SweepIInv ==
  ASSUME IInv, SweepAny
  PROVE  IInv'
<1>0. /\ TypeOK /\ FiniteReports /\ RegistryConsistent /\ Handles /\ TimesInCurrentClock
      /\ KeptFromHolder
  BY DEF IInv
<1>1. PICK expired \in SUBSET SyncPair, kept \in SUBSET tracking, ready \in SUBSET Waiting,
           snap \in BOOLEAN :
       \E solved \in SUBSET ready : \E usable \in SUBSET PairKeys(solved) :
           Sweep(expired, kept, ready, solved, usable, snap)
  BY DEF SweepAny
<1>2. PICK solved \in SUBSET ready : \E usable \in SUBSET PairKeys(solved) :
           Sweep(expired, kept, ready, solved, usable, snap)
  BY <1>1
<1>3. PICK usable \in SUBSET PairKeys(solved) :
           Sweep(expired, kept, ready, solved, usable, snap)
  BY <1>2
<1>4. PICK sols \in [solved -> UNION {Solutions(groups[m], usable) : m \in solved}] :
        LET refs == {sols[m].ref : m \in solved}
            used == UNION {sols[m].used : m \in solved}
            df17 == {EvenOf[p] : p \in SyncPair}
            fixed == {m \in solved \ df17 : sols[m].fix}
        IN  /\ \A m \in solved : sols[m] \in Solutions(groups[m], usable)
            /\ syncpoints' = [p \in SyncPair |-> IF p \in expired THEN {} ELSE syncpoints[p]]
            /\ tracking' = {t \in kept : alive[t.rx]}
            /\ groups' = [m \in Message |-> IF m \in ready THEN {} ELSE groups[m]]
            /\ stamp_offset' = [s \in Slots |-> OffsetAfter(s, refs, snap)]
            /\ learned' = [s \in Slots |->
                              IF s \in used THEN learned[s] \cup {receivers[s].uid} ELSE learned[s]]
            /\ out' = {[msg |-> m,
                        to |-> Recipients(sols[m].inRange),
                        heardBy |-> {e.clock[1] : e \in groups[m]}] : m \in fixed}
            /\ UNCHANGED <<registry, feeders, pairs, nmsgs>>
  BY <1>3 DEF Sweep, Interest, FixOf
<1> DEFINE refs == {sols[m].ref : m \in solved}
           used == UNION {sols[m].used : m \in solved}
<1>5. \A m \in solved : m \in Message /\ sols[m].used \subseteq Members(groups[m])
                        /\ sols[m].inRange \subseteq Members(groups[m])
                        /\ sols[m].ref \in Members(groups[m])
                        /\ \A x \in sols[m].used : alive[x]
  BY <1>4 DEF Waiting, Solutions, LocalRefs
<1>6. \A m \in Message : \A x \in Members(groups[m]) :
         x \in Slots /\ alive[x] /\ ClockOf(x) \in Clocks /\ receivers[x].uid \in Conns
         /\ \E e \in groups[m] : e.clock[1] = receivers[x].uid
  <2> SUFFICES ASSUME NEW m \in Message, NEW e \in groups[m]
               PROVE  e.rx \in Slots /\ alive[e.rx] /\ ClockOf(e.rx) \in Clocks
                      /\ receivers[e.rx].uid \in Conns /\ e.clock[1] = receivers[e.rx].uid
    BY DEF Members
  <2>1. e \in Entry /\ Current(e.rx, e.clock)
    BY <1>0 DEF TypeOK, TimesInCurrentClock, EntriesCurrent
  <2> QED
    BY <2>1 DEF Entry, Current, ClockOf, Clocks
<1>7. refs \subseteq {s \in Slots : ClockOf(s) \in Clocks}
      /\ used \subseteq {s \in Slots : receivers[s].uid \in Conns}
  BY <1>5, <1>6
<1>8. RecipientsHeard' /\ out' \subseteq Fix
  <2>1. ASSUME NEW f \in out' PROVE f \in Fix /\ f.to \subseteq f.heardBy
    <3>1. PICK m \in solved : f = [msg |-> m, to |-> Recipients(sols[m].inRange),
                                   heardBy |-> {e.clock[1] : e \in groups[m]}]
      BY <1>4, <2>1
    <3>2. m \in Message /\ Recipients(sols[m].inRange) \subseteq {e.clock[1] : e \in groups[m]}
      BY <1>5, <1>6 DEF Recipients
    <3>3. \A e \in groups[m] : e.clock[1] \in Conns
      BY <1>0, <3>2 DEF TypeOK, Entry, Clocks
    <3>4. Conns \subseteq 0..MaxConns
      BY BoundAssumption DEF Conns
    <3> QED
      BY <3>1, <3>2, <3>3, <3>4, ZenonT(30) DEF Fix
  <2> QED
    BY <2>1 DEF RecipientsHeard
<1>9. TypeOK' /\ FiniteReports'
  <2>1. /\ syncpoints' \in [SyncPair -> SUBSET Report] /\ FiniteReports'
    BY <1>0, <1>4, FS_EmptySet DEF TypeOK, FiniteReports
  <2>2. groups' \in [Message -> SUBSET Entry] /\ tracking' \subseteq [rx : Slots, uid : Conns]
    BY <1>0, <1>1, <1>4 DEF TypeOK
  <2>3. stamp_offset' \in [Slots -> SUBSET Clocks]
    BY <1>0, <1>4, <1>7 DEF TypeOK, OffsetAfter
  <2>4. learned' \in [Slots -> SUBSET Conns]
    BY <1>0, <1>4, <1>7 DEF TypeOK
  <2>5. PartialNames'
    BY <1>0, <1>4 DEF TypeOK, PartialNames, registry
  <2> QED
    BY <1>0, <1>4, <1>8, <2>1, <2>2, <2>3, <2>4, <2>5 DEF TypeOK, registry, feeders
<1>10. RegistryConsistent' /\ Handles'
  BY <1>0, <1>4 DEF registry, feeders, RegistryConsistent, NamesAreLive, LiveAreNamed, FreeAreDead,
       FreeOnce, DeadAreFree, Handles, SlotsCounted, RefsIssued, HoldersKnown, Admitted
<1>11. TimesInCurrentClock'
  <2>1. \A s, k : Current(s, k)' <=> Current(s, k)
    BY <1>4 DEF Current, ClockOf, registry, feeders
  <2>2. /\ \A p \in SyncPair : syncpoints'[p] \subseteq syncpoints[p]
        /\ \A m \in Message : groups'[m] \subseteq groups[m]
        /\ pairs' = pairs
    BY <1>4
  <2> QED
    BY <1>0, <2>1, <2>2 DEF TimesInCurrentClock, ReportsCurrent, EntriesCurrent, PairsCurrent
<1>12. KeptFromHolder'
  <2>1. \A s \in Slots : alive'[s] => learned'[s] \subseteq {receivers'[s].uid}
    BY <1>0, <1>4 DEF KeptFromHolder, registry
  <2>2. \A t \in tracking' : alive'[t.rx] /\ t.uid = receivers'[t.rx].uid
    BY <1>0, <1>1, <1>4 DEF KeptFromHolder, registry
  <2> QED
    BY <2>1, <2>2 DEF KeptFromHolder
<1> QED
  BY <1>8, <1>9, <1>10, <1>11, <1>12 DEF IInv

-----------------------------------------------------------------------------

\* last_read is not part of what the invariant is about.
LEMMA HeardIInv ==
  ASSUME IInv, NEW c \in Conns, FeederRead(c) \/ FeederQuiet(c)
  PROVE  IInv'
<1>1. /\ heard' \in [Conns -> BOOLEAN] /\ out' = {}
      /\ UNCHANGED <<registry, nconns, conn, ref, clk, syncpoints, groups, learnt, nmsgs>>
  BY DEF IInv, TypeOK, FeederRead, FeederQuiet
<1>2. TypeOK' /\ FiniteReports'
  BY <1>1 DEF IInv, TypeOK, PartialNames, FiniteReports, registry, learnt
<1>3. RegistryConsistent' /\ RecipientsHeard'
  BY <1>1 DEF IInv, registry, RegistryConsistent, NamesAreLive, LiveAreNamed, FreeAreDead,
              FreeOnce, DeadAreFree, RecipientsHeard
<1>4. Handles'
  BY <1>1 DEF IInv, registry, Handles, SlotsCounted, RefsIssued, HoldersKnown, Admitted
<1>5. TimesInCurrentClock' /\ KeptFromHolder'
  BY <1>1 DEF IInv, TimesInCurrentClock, ReportsCurrent, EntriesCurrent, PairsCurrent, Current,
              ClockOf, KeptFromHolder, registry, learnt
<1> QED
  BY <1>2, <1>3, <1>4, <1>5 DEF IInv

\* The invariant is inductive.
LEMMA NextIInv == IInv /\ [Next]_vars => IInv'
<1> SUFFICES ASSUME IInv, [Next]_vars PROVE IInv'
  OBVIOUS
<1>1. ASSUME NEW c \in Conns, NEW user \in UserNames, NEW uuid \in Uuid \cup {NoUuid},
             AddReceiver(c, user, uuid)
      PROVE  IInv'
  BY <1>1, AddRefusedIInv, AddAcceptedIInv DEF AddReceiver
<1>2. ASSUME NEW c \in Conns, RemoveReceiver(c) PROVE IInv'
  BY <1>2, RemoveReceiverIInv
<1>3. ASSUME NEW c \in Conns, ClockReset(c) PROVE IInv'
  BY <1>3, ClockResetIInv
<1>4. ASSUME NEW c \in Conns, NEW m \in Message, OnMlat(c, m) PROVE IInv'
  BY <1>4, OnMlatIInv
<1>5. ASSUME NEW c \in Conns, NEW p \in SyncPair, OnSyncUndecoded(c, p) PROVE IInv'
  BY <1>5, OnSyncUndecodedIInv
<1>6. ASSUME NEW c \in Conns, NEW p \in SyncPair, OnSync(c, p) PROVE IInv'
  BY <1>6, OnSyncIInv
<1>7. CASE SweepAny
  BY <1>7, SweepIInv
<1>8. ASSUME NEW c \in Conns, FeederRead(c) \/ FeederQuiet(c) PROVE IInv'
  BY <1>8, HeardIInv
<1>9. CASE UNCHANGED vars
  <2>1. TypeOK' /\ FiniteReports'
    BY <1>9 DEF vars, IInv, TypeOK, PartialNames, FiniteReports
  <2>2. RegistryConsistent' /\ RecipientsHeard'
    BY <1>9 DEF vars, IInv, RegistryConsistent, NamesAreLive, LiveAreNamed, FreeAreDead, FreeOnce,
                DeadAreFree, RecipientsHeard
  <2>3. Handles'
    BY <1>9 DEF vars, IInv, Handles, SlotsCounted, RefsIssued, HoldersKnown, Admitted
  <2>4. TimesInCurrentClock' /\ KeptFromHolder'
    BY <1>9 DEF vars, IInv, TimesInCurrentClock, ReportsCurrent, EntriesCurrent, PairsCurrent,
                Current, ClockOf, KeptFromHolder
  <2> QED
    BY <2>1, <2>2, <2>3, <2>4 DEF IInv
<1> QED
  BY <1>1, <1>2, <1>3, <1>4, <1>5, <1>6, <1>7, <1>8, <1>9, Zenon DEF Next

\* The invariant holds in every reachable state.
THEOREM Invariant == Spec => []IInv
<1> QED
  BY InitIInv, NextIInv, PTL DEF Spec

\* Every variable of the shard keeps to its type, slot indices included: no
\* handler indexes a per-slot vector out of bounds.
THEOREM TypeCorrect == Spec => []TypeOK
<1>1. IInv => TypeOK
  BY DEF IInv
<1> QED
  BY Invariant, <1>1, PTL

\* by_user, alive and free_slots agree after any sequence of joins,
\* replacements, aliases and late removals.
THEOREM RegistryWhole == Spec => []RegistryConsistent
<1>1. IInv => RegistryConsistent
  BY DEF IInv
<1> QED
  BY Invariant, <1>1, PTL

\* live(RxRef) is sound: it passes only the connection that holds the slot.
THEOREM HandlesSound == Spec => []LiveRefHolds
<1>1. IInv => LiveRefHolds
  BY DEF IInv, Handles, RefsIssued, LiveRefHolds, Live
<1> QED
  BY Invariant, <1>1, PTL

\* No time in flight and no pair model ever mixes two clocks of a slot.
THEOREM ClocksNeverMixed == Spec => []TimesInCurrentClock
<1>1. IInv => TimesInCurrentClock
  BY DEF IInv
<1> QED
  BY Invariant, <1>1, PTL

\* What is filed by slot comes from the slot's present holder.
THEOREM NothingInherited == Spec => []KeptFromHolder
<1>1. IInv => KeptFromHolder
  BY DEF IInv
<1> QED
  BY Invariant, <1>1, PTL

\* A fix reaches only connections that reported its transmission.
THEOREM RecipientsSound == Spec => []RecipientsHeard
<1>1. IInv => RecipientsHeard
  BY DEF IInv
<1> QED
  BY Invariant, <1>1, PTL

-----------------------------------------------------------------------------
(* Who can take a live connection's slot. *)

\* A step that leaves the slots and the RxRefs alone takes nobody's slot.
LEMMA SameSlotsKept ==
  ASSUME NEW c \in Conns, UNCHANGED <<nslots, alive, gens, ref>>
  PROVE  KeptOrReplaced(c)
  BY DEF KeptOrReplaced, Holds, Live

\* A removal takes only the slot of the connection that closes.
LEMMA RemovalKeepsOthers ==
  ASSUME IInv, NEW c \in Conns, NEW d \in Conns, RemoveReceiver(d)
  PROVE  KeptOrReplaced(c)
<1> SUFFICES ASSUME Holds(c), ~Live(ref[c])'
             PROVE  conn'[c] = "closed"
  BY DEF KeptOrReplaced
<1>0. TypeOK /\ Handles
  BY DEF IInv
<1>1. conn' = [conn EXCEPT ![d] = "closed"] /\ conn[d] = "open"
      /\ UNCHANGED <<nslots, gens, ref>>
  BY DEF RemoveReceiver
<1>2. CASE c = d
  BY <1>0, <1>1, <1>2 DEF TypeOK
<1>3. CASE c # d
  <2>1. ref[c].idx \in Slots /\ alive[ref[c].idx] /\ receivers[ref[c].idx].uid = c
    BY <1>0, LiveRef DEF Holds
  <2>2. Live(ref[d]) => ref[d].idx # ref[c].idx
    BY <1>0, <1>1, <1>3, <2>1, LiveRef
  <2>3. alive' = [s \in Slots |-> alive[s] /\ ~(Live(ref[d]) /\ s = ref[d].idx)]
    BY DEF RemoveReceiver
  <2>4. alive'[ref[c].idx]
    BY <2>1, <2>2, <2>3
  <2> QED
    BY <1>1, <2>4 DEF Holds, Live
<1> QED
  BY <1>2, <1>3

\* A newcomer takes a live, heard slot only under the uuid of its holder: if the
\* name is contested the alias it takes is its own, otherwise the holder is.
LEMMA AdmissionKeepsOthers ==
  ASSUME IInv, NEW c \in Conns, NEW d \in Conns, NEW user \in UserNames,
         NEW uuid \in Uuid \cup {NoUuid}, d = nconns + 1, AddAccepted(d, user, uuid)
  PROVE  KeptOrReplaced(c)
<1> SUFFICES ASSUME Holds(c), heard[c], ~Live(ref[c])'
             PROVE  /\ nconns' # nconns
                    /\ receivers'[ref[c].idx].uid = nconns'
                    /\ receivers[ref[c].idx].uuid # NoUuid
                    /\ receivers'[ref[c].idx].uuid = receivers[ref[c].idx].uuid
  BY DEF KeptOrReplaced
<1> DEFINE name == NameFor(user, uuid)
           gone == Displaced(name)
<1>0. TypeOK /\ Handles
  BY DEF IInv
<1>1. PICK idx, gen : Chosen(d, name, gone, idx, gen) /\ Filed(d, uuid, name, gone, idx, gen)
  BY Admission
<1>2. ref[c].idx \in Slots /\ alive[ref[c].idx] /\ receivers[ref[c].idx].uid = c
  BY <1>0, LiveRef DEF Holds
<1>3. nconns' = d /\ nconns' # nconns
  <2>1. nconns' = d
    BY DEF AddAccepted
  <2> QED
    BY <1>0, <2>1 DEF TypeOK
<1>4. ref'[c] = ref[c]
  <2>1. c <= nconns
    BY <1>0 DEF Handles, RefsIssued, Holds, Admitted
  <2>2. c # d
    BY <1>0, <2>1 DEF TypeOK, Conns
  <2> QED
    BY <1>0, <1>1, <2>2 DEF Filed, TypeOK
<1>5. ref[c].idx = idx
  <2> SUFFICES ASSUME ref[c].idx # idx PROVE FALSE
    OBVIOUS
  <2> HIDE DEF name, gone
  <2>1. gone \subseteq {idx} /\ nslots' \in 0..MaxConns /\ nslots <= nslots'
    BY <1>1, Zenon DEF Chosen
  <2>2. alive'[ref[c].idx] /\ gens'[ref[c].idx] = gens[ref[c].idx]
    <3>1. \A s \in Slots : alive'[s] <=> (s = idx \/ (alive[s] /\ s \notin gone))
      BY <1>1 DEF Filed
    <3>2. gens' = [gens EXCEPT ![idx] = gen] /\ gens \in [Slots -> 0..(GenMod - 1)]
      BY <1>0, <1>1 DEF Filed, TypeOK
    <3>3. ref[c].idx \notin gone
      BY <2>1
    <3> QED
      BY <1>2, <3>1, <3>2, <3>3
  <2>3. ref[c].idx < nslots'
    <3>1. ref[c].idx < nslots /\ nslots \in 0..MaxConns /\ ref[c].idx \in 0..(MaxConns - 1)
      BY <1>0, <1>2 DEF Holds, Live, TypeOK, Slots
    <3> QED
      BY <2>1, <3>1, BoundAssumption
  <2> QED
    BY <1>4, <2>2, <2>3 DEF Holds, Live
<1>6. name \in DOMAIN by_user /\ by_user[name] = idx
  BY <1>1, <1>2, <1>5 DEF Chosen
<1>7. receivers'[idx].uid = d /\ receivers'[idx].uuid = uuid
  BY <1>0, <1>1, <1>2, <1>5 DEF Filed, TypeOK
<1>8. ConnectionLive(idx) /\ ~Refused(user, uuid)
  BY <1>2, <1>5 DEF ConnectionLive, AddAccepted
<1>9. receivers[idx].uuid = uuid /\ uuid # NoUuid
  <2>1. CASE Contested(user, uuid)
    <3>1. name = Alias(user, uuid) /\ Tag(uuid) # NoTag /\ ~AliasDenied(Alias(user, uuid), uuid)
      BY <1>8, <2>1 DEF NameFor, Refused
    <3>2. uuid # NoUuid
      BY <3>1 DEF Tag
    <3> HIDE DEF name
    <3> QED
      BY <1>6, <1>8, <3>1, <3>2 DEF AliasDenied
  <2>2. CASE ~Contested(user, uuid)
    <3>1. name = user
      BY <2>2 DEF NameFor
    <3> HIDE DEF name
    <3> QED
      BY <1>6, <1>8, <2>2, <3>1 DEF Contested, SameFeeder
  <2> QED
    BY <2>1, <2>2
<1> QED
  BY <1>3, <1>5, <1>7, <1>9

\* A live, heard connection keeps its slot until it closes or its own feeder
\* comes back: no name collision, alias or late message takes it.
THEOREM HolderKept == Spec => LiveHolderKept
<1>1. IInv /\ [Next]_vars => [\A c \in Conns : KeptOrReplaced(c)]_vars
  <2> SUFFICES ASSUME IInv, Next, NEW c \in Conns PROVE KeptOrReplaced(c)
    BY DEF vars
  <2>1. ASSUME NEW d \in Conns, NEW user \in UserNames, NEW uuid \in Uuid \cup {NoUuid},
               AddReceiver(d, user, uuid)
        PROVE  KeptOrReplaced(c)
    <3>1. CASE AddRefused(d, user, uuid)
      BY <3>1, SameSlotsKept DEF AddRefused, registry
    <3> QED
      BY <2>1, <3>1, AdmissionKeepsOthers DEF AddReceiver
  <2>2. ASSUME NEW d \in Conns, RemoveReceiver(d) PROVE KeptOrReplaced(c)
    BY <2>2, RemovalKeepsOthers
  <2>3. ASSUME NEW d \in Conns, ClockReset(d) PROVE KeptOrReplaced(c)
    BY <2>3, SameSlotsKept DEF ClockReset, registry
  <2>4. ASSUME NEW d \in Conns, NEW m \in Message, OnMlat(d, m) PROVE KeptOrReplaced(c)
    BY <2>4, SameSlotsKept DEF OnMlat, registry, feeders
  <2>5. ASSUME NEW d \in Conns, NEW p \in SyncPair, OnSyncUndecoded(d, p) \/ OnSync(d, p)
        PROVE  KeptOrReplaced(c)
    BY <2>5, SameSlotsKept DEF OnSyncUndecoded, OnSync, registry, feeders
  <2>6. CASE SweepAny
    BY <2>6, SameSlotsKept DEF SweepAny, Sweep, registry, feeders
  <2>7. ASSUME NEW d \in Conns, FeederRead(d) \/ FeederQuiet(d) PROVE KeptOrReplaced(c)
    BY <2>7, SameSlotsKept DEF FeederRead, FeederQuiet, registry
  <2> QED
    BY <2>1, <2>2, <2>3, <2>4, <2>5, <2>6, <2>7, Zenon DEF Next
<1> QED
  BY Invariant, <1>1, PTL DEF Spec, LiveHolderKept

-----------------------------------------------------------------------------
(* ShardState implements Lease. *)

\* What LeaseMap says of each connection.
LEMMA LeaseCases ==
  ASSUME NEW c \in Conns
  PROVE  /\ conn[c] = "open" /\ ~Live(ref[c]) => LeaseMap[c] = "lost"
         /\ conn[c] = "open" /\ Live(ref[c]) => LeaseMap[c] = "held"
         /\ conn[c] = "closed" => LeaseMap[c] = "over"
         /\ conn[c] \in {"none", "refused"} => LeaseMap[c] = conn[c]
  BY DEF LeaseMap

\* A step that keeps the slots, the RxRefs and the connections keeps the leases.
LEMMA SameLeases ==
  ASSUME UNCHANGED <<nslots, alive, gens, ref, conn>>
  PROVE  UNCHANGED LeaseMap
  BY DEF LeaseMap, Live

\* Connections beyond the last one counted have asked for nothing.
Unasked == \A c \in Conns : c > nconns => conn[c] = "none"

\* They stay that way: connections ask in turn.
LEMMA UnaskedKept == TypeOK /\ Unasked /\ [Next]_vars => Unasked'
<1> SUFFICES ASSUME TypeOK, Unasked, [Next]_vars PROVE Unasked'
  OBVIOUS
<1>0. nconns \in 0..MaxConns /\ conn \in [Conns -> {"none", "open", "refused", "closed"}]
  BY DEF TypeOK
<1>1. ASSUME NEW c \in Conns, NEW user \in UserNames, NEW uuid \in Uuid \cup {NoUuid},
             AddReceiver(c, user, uuid)
      PROVE  Unasked'
  <2>1. c = nconns + 1 /\ nconns' = c /\ \E v : conn' = [conn EXCEPT ![c] = v]
    BY <1>1 DEF AddReceiver, AddRefused, AddAccepted
  <2>2. \A d \in Conns : d > nconns' => d # c /\ d > nconns
    BY <1>0, <2>1, BoundAssumption DEF Conns
  <2>3. \A d \in Conns : d # c => conn'[d] = conn[d]
    BY <1>0, <2>1
  <2> QED
    BY <2>2, <2>3 DEF Unasked
<1>2. ASSUME NEW c \in Conns, RemoveReceiver(c) PROVE Unasked'
  <2>1. conn[c] = "open" /\ conn' = [conn EXCEPT ![c] = "closed"] /\ nconns' = nconns
    BY <1>2 DEF RemoveReceiver
  <2> QED
    BY <1>0, <2>1 DEF Unasked
<1>3. CASE UNCHANGED <<conn, nconns>>
  BY <1>3 DEF Unasked
<1>4. ASSUME NEW c \in Conns,
             \/ ClockReset(c) \/ FeederRead(c) \/ FeederQuiet(c)
             \/ \E m \in Message : OnMlat(c, m)
             \/ \E p \in SyncPair : OnSyncUndecoded(c, p) \/ OnSync(c, p)
      PROVE  UNCHANGED <<conn, nconns>>
  BY <1>4 DEF ClockReset, OnMlat, OnSyncUndecoded, OnSync, FeederRead, FeederQuiet, feeders
<1>5. CASE SweepAny
  BY <1>3, <1>5 DEF SweepAny, Sweep, feeders
<1>6. CASE UNCHANGED vars
  BY <1>3, <1>6 DEF vars
<1> QED
  BY <1>1, <1>2, <1>3, <1>4, <1>5, <1>6, Zenon DEF Next

\* A refusal is a refusal of the lease: the contested name has a live holder.
LEMMA RefusedLease ==
  ASSUME IInv, Unasked, NEW c \in Conns, NEW user \in UserNames,
         NEW uuid \in Uuid \cup {NoUuid}, c = nconns + 1, AddRefused(c, user, uuid)
  PROVE  Leases!Refuse(c)
<1> DEFINE h == receivers[by_user[user]].uid
<1>0. TypeOK /\ Handles /\ RegistryConsistent
  BY DEF IInv
<1>1. conn[c] = "none"
  BY <1>0 DEF Unasked, TypeOK
<1>2. user \in DOMAIN by_user /\ by_user[user] \in Slots /\ by_user[user] < nslots
      /\ alive[by_user[user]]
  BY <1>0 DEF AddRefused, Refused, Contested, ConnectionLive, TypeOK, PartialNames,
              RegistryConsistent, NamesAreLive
<1>3. h \in Conns /\ conn[h] = "open" /\ ref[h] = [idx |-> by_user[user], gen |-> gens[by_user[user]]]
  BY <1>0, <1>2 DEF Handles, HoldersKnown
<1>4. Live(ref[h])
  BY <1>2, <1>3 DEF Live
<1>5. LeaseMap[h] = "held" /\ LeaseMap[c] = "none"
  BY <1>1, <1>3, <1>4, LeaseCases
<1>6. Leases!Holders # {}
  BY <1>3, <1>5 DEF Leases!Holders
<1>7. LeaseMap' = [LeaseMap EXCEPT ![c] = "refused"]
  <2>1. conn' = [conn EXCEPT ![c] = "refused"] /\ UNCHANGED <<nslots, alive, gens, ref>>
    BY DEF AddRefused, registry
  <2>2. ASSUME NEW d \in Conns PROVE LeaseMap'[d] = IF d = c THEN "refused" ELSE LeaseMap[d]
    <3>1. conn'[d] = IF d = c THEN "refused" ELSE conn[d]
      BY <1>0, <2>1 DEF TypeOK
    <3> QED
      BY <2>1, <3>1 DEF LeaseMap, Live
  <2>3. LeaseMap = [d \in Conns |-> LeaseMap[d]] /\ LeaseMap' = [d \in Conns |-> LeaseMap'[d]]
    BY DEF LeaseMap
  <2> HIDE DEF h
  <2> QED
    BY <2>2, <2>3
<1> QED
  BY <1>5, <1>6, <1>7 DEF Leases!Refuse

\* An admission grants the lease; its victim is the holder of the slot it takes.
LEMMA AcceptedLease ==
  ASSUME IInv, Unasked, NEW c \in Conns, NEW user \in UserNames,
         NEW uuid \in Uuid \cup {NoUuid}, c = nconns + 1, AddAccepted(c, user, uuid)
  PROVE  \E victims \in SUBSET Leases!Holders : Leases!Grant(c, victims)
<1> DEFINE name == NameFor(user, uuid)
           gone == Displaced(name)
<1>0. TypeOK /\ Handles
  BY DEF IInv
<1>1. PICK idx, gen : Chosen(c, name, gone, idx, gen) /\ Filed(c, uuid, name, gone, idx, gen)
  BY Admission
<1> HIDE DEF name, gone
<1> DEFINE victims == {d \in Conns : conn[d] = "open" /\ Live(ref[d]) /\ ref[d].idx = idx}
<1>2. conn[c] = "none" /\ conn' = [conn EXCEPT ![c] = "open"]
  BY <1>0 DEF Unasked, TypeOK, AddAccepted
<1>3. victims \subseteq Leases!Holders
  BY LeaseCases DEF Leases!Holders
<1>4. \A d, e \in victims : d = e
  <2>1. \A d \in victims : receivers[idx].uid = d
    BY <1>0, LiveRef
  <2> QED
    BY <2>1
<1>5. LeaseMap[c] = "none"
  BY <1>2, LeaseCases
<1>6. /\ idx \in Slots /\ gone \subseteq {idx} /\ nslots \in 0..MaxConns /\ nslots' \in 0..MaxConns
      /\ nslots <= nslots' /\ idx < nslots' /\ (idx < nslots => gens[idx] < gen)
      /\ gen \in 0..(GenMod - 1)
  BY <1>0, <1>1 DEF Chosen, TypeOK
<1>7. /\ \A s \in Slots : alive'[s] <=> (s = idx \/ (alive[s] /\ s \notin gone))
      /\ \A s \in Slots : gens'[s] = IF s = idx THEN gen ELSE gens[s]
      /\ \A d \in Conns : ref'[d] = IF d = c THEN [idx |-> idx, gen |-> gen] ELSE ref[d]
  BY <1>0, <1>1 DEF Filed, TypeOK
<1>8. Live(ref[c])'
  BY <1>6, <1>7 DEF Live
<1>9. ASSUME NEW d \in Conns, d # c, conn[d] = "open"
      PROVE  Live(ref[d])' <=> Live(ref[d]) /\ ref[d].idx # idx
  <2>1. /\ ref[d].idx \in Slots /\ ref[d].idx < nslots /\ ref[d].gen <= gens[ref[d].idx]
        /\ ref[d].gen \in 0..(GenMod - 1) /\ gens[ref[d].idx] \in 0..(GenMod - 1)
    BY <1>0, <1>9 DEF Handles, RefsIssued, Admitted, TypeOK, RxRef
  <2>2. ref'[d] = ref[d]
    BY <1>7, <1>9
  <2>3. CASE ref[d].idx = idx
    <3>1. ref[d].gen # gen
      BY <1>6, <2>1, <2>3
    <3>2. gens'[idx] = gen
      BY <1>6, <1>7
    <3> QED
      BY <2>2, <2>3, <3>1, <3>2 DEF Live
  <2>4. CASE ref[d].idx # idx
    <3>1. ref[d].idx < nslots'
      BY <1>6, <2>1, BoundAssumption DEF Slots
    <3>2. (alive'[ref[d].idx] <=> alive[ref[d].idx]) /\ gens'[ref[d].idx] = gens[ref[d].idx]
      BY <1>6, <1>7, <2>1, <2>4
    <3> QED
      BY <2>1, <2>2, <2>4, <3>1, <3>2 DEF Live
  <2> QED
    BY <2>3, <2>4
<1> HIDE DEF victims
<1>10. ASSUME NEW d \in Conns
       PROVE  LeaseMap'[d] = IF d = c THEN "held" ELSE IF d \in victims THEN "lost" ELSE LeaseMap[d]
  <2>1. CASE d = c
    <3>1. conn'[c] = "open"
      BY <1>0, <1>2 DEF TypeOK
    <3> QED
      BY <1>8, <2>1, <3>1 DEF LeaseMap
  <2>2. CASE d # c /\ conn[d] = "open"
    <3>1. conn'[d] = "open"
      BY <1>0, <1>2, <2>2 DEF TypeOK
    <3>2. d \in victims <=> Live(ref[d]) /\ ref[d].idx = idx
      BY <2>2 DEF victims
    <3> QED
      BY <1>9, <2>2, <3>1, <3>2 DEF LeaseMap
  <2>3. CASE d # c /\ conn[d] # "open"
    <3>1. conn'[d] = conn[d] /\ d \notin victims
      BY <1>0, <1>2, <2>3 DEF TypeOK, victims
    <3> QED
      BY <2>3, <3>1 DEF LeaseMap
  <2> QED
    BY <2>1, <2>2, <2>3
<1>11. LeaseMap' = [d \in Conns |-> LeaseMap'[d]]
  BY DEF LeaseMap
<1>12. Leases!Grant(c, victims)
  BY <1>4, <1>5, <1>10, <1>11 DEF Leases!Grant
<1> QED
  BY <1>3, <1>12

\* A removal ends the lease of the connection that closes, and no other.
LEMMA RemovedLease ==
  ASSUME IInv, NEW c \in Conns, RemoveReceiver(c)
  PROVE  Leases!End(c)
<1>0. TypeOK /\ Handles
  BY DEF IInv
<1>1. /\ conn[c] = "open" /\ conn' = [conn EXCEPT ![c] = "closed"]
      /\ UNCHANGED <<nslots, gens, ref>>
      /\ alive' = [s \in Slots |-> alive[s] /\ ~(Live(ref[c]) /\ s = ref[c].idx)]
  BY DEF RemoveReceiver
<1>2. LeaseMap[c] \in {"held", "lost"}
  BY <1>1 DEF LeaseMap
<1>3. ASSUME NEW d \in Conns PROVE LeaseMap'[d] = IF d = c THEN "over" ELSE LeaseMap[d]
  <2>1. conn'[d] = IF d = c THEN "closed" ELSE conn[d]
    BY <1>0, <1>1 DEF TypeOK
  <2>2. CASE d # c /\ conn[d] = "open"
    <3>1. ref[d].idx \in Slots /\ (Live(ref[d]) => receivers[ref[d].idx].uid = d)
      BY <1>0, <2>2, LiveRef
    <3>2. Live(ref[c]) => receivers[ref[c].idx].uid = c
      BY <1>0, <1>1, LiveRef
    <3>3. Live(ref[d]) => ~(Live(ref[c]) /\ ref[d].idx = ref[c].idx)
      BY <2>2, <3>1, <3>2
    <3>4. Live(ref[d])' <=> Live(ref[d])
      BY <1>1, <3>1, <3>3 DEF Live
    <3> QED
      BY <2>1, <2>2, <3>4 DEF LeaseMap
  <2>3. CASE d # c /\ conn[d] # "open"
    BY <2>1, <2>3 DEF LeaseMap
  <2>4. CASE d = c
    BY <2>1, <2>4 DEF LeaseMap
  <2> QED
    BY <2>2, <2>3, <2>4
<1>4. LeaseMap = [d \in Conns |-> LeaseMap[d]] /\ LeaseMap' = [d \in Conns |-> LeaseMap'[d]]
  BY DEF LeaseMap
<1>5. LeaseMap' = [LeaseMap EXCEPT ![c] = "over"]
  BY <1>3, <1>4
<1> QED
  BY <1>2, <1>5 DEF Leases!End

\* The registry implements the Lease: every step of the shard is one the Lease
\* allows, or changes no lease.
THEOREM ImplementsLease == Spec => LeaseKept
<1>1. Init => Leases!Init /\ Unasked
  BY DEF Init, Leases!Init, LeaseMap, Unasked
<1>2. IInv /\ Unasked /\ [Next]_vars => [Leases!Next]_LeaseMap
  <2> SUFFICES ASSUME IInv, Unasked, [Next]_vars
               PROVE  Leases!Next \/ UNCHANGED LeaseMap
    OBVIOUS
  <2>1. ASSUME NEW c \in Conns, NEW user \in UserNames, NEW uuid \in Uuid \cup {NoUuid},
               AddReceiver(c, user, uuid)
        PROVE  Leases!Next
    BY <2>1, RefusedLease, AcceptedLease DEF AddReceiver, Leases!Next
  <2>2. ASSUME NEW c \in Conns, RemoveReceiver(c) PROVE Leases!Next
    BY <2>2, RemovedLease DEF Leases!Next
  <2>3. ASSUME NEW c \in Conns, ClockReset(c) PROVE UNCHANGED LeaseMap
    BY <2>3, SameLeases DEF ClockReset, registry
  <2>4. ASSUME NEW c \in Conns, NEW m \in Message, OnMlat(c, m) PROVE UNCHANGED LeaseMap
    BY <2>4, SameLeases DEF OnMlat, registry, feeders
  <2>5. ASSUME NEW c \in Conns, NEW p \in SyncPair, OnSyncUndecoded(c, p) \/ OnSync(c, p)
        PROVE  UNCHANGED LeaseMap
    BY <2>5, SameLeases DEF OnSyncUndecoded, OnSync, registry, feeders
  <2>6. CASE SweepAny
    BY <2>6, SameLeases DEF SweepAny, Sweep, registry, feeders
  <2>7. ASSUME NEW c \in Conns, FeederRead(c) \/ FeederQuiet(c) PROVE UNCHANGED LeaseMap
    BY <2>7, SameLeases DEF FeederRead, FeederQuiet, registry
  <2>8. CASE UNCHANGED vars
    BY <2>8, SameLeases DEF vars
  <2> QED
    BY <2>1, <2>2, <2>3, <2>4, <2>5, <2>6, <2>7, <2>8, Zenon DEF Next
<1>3. IInv => TypeOK
  BY DEF IInv
<1> QED
  BY Invariant, UnaskedKept, <1>1, <1>2, <1>3, PTL DEF Spec, LeaseKept, Leases!Spec

===============================================================================
