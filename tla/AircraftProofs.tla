---------------------------- MODULE AircraftProofs ----------------------------
(***************************************************************************)
(* Proofs about Aircraft, for every backoff, window, lag and limit that    *)
(* AircraftAssumption allows.  The properties the run checks rest on what  *)
(* ties a waiting group to the aircraft's last message (GroupsHeard), a    *)
(* fix to the attempt it was (FixesAttempted), a refusal to the speed      *)
(* gate's count (HeldCounted) and the last row to the track (RowOfTrack).  *)
(***************************************************************************)
EXTENDS Aircraft, WellFoundedInduction, SequenceTheorems, TLAPS

\* Nothing on the books is in the future, and time starts late enough that no
\* arrival stamp is before it.
TimesPast ==
    /\ AcExpire <= now
    /\ track.last_time <= now /\ track.last_attempt <= now /\ track.last_gated <= now

\* A group that waits was heard no more than SolveBy ago, and its aircraft no
\* earlier than the lag allows: expiry cannot come between.
GroupsHeard ==
    \A g \in pending \cup ready :
        /\ g.t <= now /\ now <= g.t + SolveBy
        /\ ac.listed /\ g.t <= ac.seen + MaxLag

\* Every two fixes kept are a backoff apart, in order.
FixesOrdered ==
    \A i, j \in 1..Len(ac.fixes) : i < j => ac.fixes[i] + Backoff <= ac.fixes[j]

\* The track's last fix was an attempt.
FixesAttempted == Tracked => track.last_time <= track.last_attempt

\* A good fix is refused by the speed gate alone, which counts it; once the count
\* has dropped the track the gate is open.
HeldCounted == Unsuppressed /\ (Tracked => held <= track.speed_rejects)

\* The last row delivered is of this track, and no later than its last fix; where
\* the track has since moved away, it took its time.
RowOfTrack ==
    out.pos # "none" =>
        /\ Tracked
        /\ out.t <= track.last_time
        /\ out.pos # track.last_pos => out.t + Stale <= track.last_time

\* The inductive invariant.
IInv ==
    /\ TypeOK /\ TimesPast
    /\ GroupsHeard /\ MapsFollowLog
    /\ TrackFixesAgree /\ FixesOrdered /\ FixesRecent /\ FixesAttempted
    /\ HeldCounted /\ RowOfTrack

-----------------------------------------------------------------------------
(* Sequences of fixes *)

\* Every set of numbers that is not empty has a least one.
LEMMA LeastNumber ==
    ASSUME NEW T \in SUBSET Nat, T # {}
    PROVE  \E x \in T : \A y \in T : x <= y
<1> DEFINE less == {ss \in Nat \X Nat : ss[1] < ss[2]}
<1>1. IsWellFoundedOn(less, Nat)
  BY NatLessThanWellFounded, Zenon DEF OpToRel
<1>2. \A x, y \in Nat : <<y, x>> \in less <=> y < x
  OBVIOUS
<1> HIDE DEF less
<1>3. PICK x \in T : \A y \in T : ~(<<y, x>> \in less)
  BY <1>1, WFMin
<1>4. ASSUME NEW y \in T PROVE x <= y
  <2>1. x \in Nat /\ y \in Nat /\ ~(<<y, x>> \in less)
    BY <1>3, <1>4
  <2>2. ~(y < x)
    BY <1>2, <2>1
  <2> QED
    BY <2>1, <2>2
<1> QED
  BY <1>4

\* Trimming drops a front part only, never one of the last two fixes, and beyond
\* those leaves none older than FitWindow at its front.
LEMMA TrimmedFacts ==
    ASSUME now \in Nat, NEW s \in Seq(Nat), s # <<>>
    PROVE  \E k \in 1..Len(s) :
              /\ Trimmed(s) \in Seq(Nat)
              /\ Len(Trimmed(s)) = Len(s) - k + 1
              /\ \A i \in 1..(Len(s) - k + 1) : Trimmed(s)[i] = s[k + i - 1]
              /\ k + 1 >= Len(s) \/ now - s[k] <= FitWindow
              /\ k > 1 => k < Len(s)
<1> DEFINE n == Len(s)
           stays(i) == i + 1 >= n \/ now - s[i] <= FitWindow
           goes(j) == j + 1 < n /\ now - s[j] > FitWindow
           first == CHOOSE i \in 1..n : stays(i) /\ \A j \in 1..(i - 1) : goes(j)
<1>1. n \in Nat \ {0} /\ \A i \in 1..n : s[i] \in Nat
  OBVIOUS
<1>2. \E i \in 1..n : stays(i) /\ \A j \in 1..(i - 1) : goes(j)
  <2> DEFINE T == {i \in 1..n : stays(i)}
  <2>1. n \in T /\ T \in SUBSET Nat
    BY <1>1
  <2>2. PICK i \in T : \A y \in T : i <= y
    BY <2>1, LeastNumber, Zenon
  <2>3. ASSUME NEW j \in 1..(i - 1) PROVE goes(j)
    <3>1. j \in 1..n /\ ~(i <= j) /\ i \in 1..n
      BY <1>1, <2>2, <2>3
    <3>2. ~stays(j)
      BY <2>2, <3>1
    <3> QED
      BY <1>1, <3>1, <3>2, AircraftAssumption
  <2> QED
    BY <2>2, <2>3
<1>3. first \in 1..n /\ stays(first) /\ \A j \in 1..(first - 1) : goes(j)
  <2> HIDE DEF stays, goes
  <2> QED
    BY <1>2
<1>4. Trimmed(s) = SubSeq(s, first, n)
  BY DEF Trimmed
<1> HIDE DEF first
<1>5. /\ SubSeq(s, first, n) \in Seq(Nat)
      /\ Len(SubSeq(s, first, n)) = n - first + 1
      /\ \A i \in 1..(n - first + 1) : SubSeq(s, first, n)[i] = s[first + i - 1]
  BY <1>1, <1>3, SubSeqProperties
<1>6. first > 1 => first < n
  <2> SUFFICES ASSUME first > 1 PROVE first < n
    OBVIOUS
  <2>1. first - 1 \in 1..(first - 1)
    BY <1>1, <1>3
  <2>2. goes(first - 1)
    BY <1>3, <2>1
  <2> QED
    BY <1>1, <1>3, <2>2
<1> QED
  BY <1>3, <1>4, <1>5, <1>6

\* A sequence with a fix at its end.
LEMMA AppendFacts ==
    ASSUME NEW s \in Seq(Nat), NEW e \in Nat
    PROVE  /\ Len(s) \in Nat /\ Append(s, e) \in Seq(Nat) /\ Append(s, e) # <<>>
           /\ Len(Append(s, e)) = Len(s) + 1
           /\ \A i \in 1..Len(s) : Append(s, e)[i] = s[i] /\ s[i] \in Nat
           /\ Append(s, e)[Len(s) + 1] = e
OBVIOUS

\* A fix a backoff after all that are kept joins them.
LEMMA FixAppended ==
    ASSUME now \in Nat, NEW s \in Seq(Nat), NEW t, t = Trimmed(Append(s, now)),
           \A i, j \in 1..Len(s) : i < j => s[i] + Backoff <= s[j],
           \A i \in 1..Len(s) : s[i] + Backoff <= now
    PROVE  /\ t \in Seq(Nat) /\ t # <<>> /\ t[Len(t)] = now
           /\ \A i, j \in 1..Len(t) : i < j => t[i] + Backoff <= t[j]
           /\ \A i \in 1..Len(t) : i + 2 <= Len(t) => t[Len(t)] - t[i] <= FitWindow
           /\ Len(t) >= 1 /\ (Len(s) >= 1 => Len(t) >= 2)
<1> DEFINE u == Append(s, now)
           n == Len(s)
<1>1. /\ n \in Nat /\ u \in Seq(Nat) /\ u # <<>> /\ Len(u) = n + 1
      /\ \A i \in 1..n : u[i] = s[i] /\ u[i] \in Nat
      /\ u[n + 1] = now
  BY AppendFacts
<1> HIDE DEF u
<1>2. \A i, j \in 1..(n + 1) : i < j => u[i] + Backoff <= u[j]
  <2> HIDE DEF n
  <2> SUFFICES ASSUME NEW i \in 1..(n + 1), NEW j \in 1..(n + 1), i < j
               PROVE  u[i] + Backoff <= u[j]
    OBVIOUS
  <2>1. CASE j = n + 1
    BY <1>1, <2>1 DEF n
  <2>2. CASE j \in 1..n
    <3>1. i \in 1..n /\ u[i] = s[i] /\ u[j] = s[j]
      BY <1>1, <2>2
    <3> QED
      BY <2>2, <3>1 DEF n
  <2> QED
    BY <1>1, <2>1, <2>2
<1> HIDE DEF n
<1>a. PICK k \in 1..Len(u) :
          /\ Trimmed(u) \in Seq(Nat)
          /\ Len(Trimmed(u)) = Len(u) - k + 1
          /\ \A i \in 1..(Len(u) - k + 1) : Trimmed(u)[i] = u[k + i - 1]
          /\ k + 1 >= Len(u) \/ now - u[k] <= FitWindow
          /\ k > 1 => k < Len(u)
  BY <1>1, TrimmedFacts
<1>b. t = Trimmed(u)
  BY DEF u
<1>3. /\ k \in 1..(n + 1)
      /\ t \in Seq(Nat)
      /\ Len(t) = n + 1 - k + 1
      /\ \A i \in 1..(n + 1 - k + 1) : t[i] = u[k + i - 1]
      /\ k + 1 >= n + 1 \/ now - u[k] <= FitWindow
      /\ k > 1 => k < n + 1
  BY <1>1, <1>a, <1>b
<1>4. t # <<>> /\ t[Len(t)] = now /\ Len(t) >= 1
  BY <1>1, <1>3
<1>5. n >= 1 => Len(t) >= 2
  BY <1>1, <1>3
<1>6. ASSUME NEW i \in 1..Len(t), NEW j \in 1..Len(t), i < j PROVE t[i] + Backoff <= t[j]
  <2>1. /\ k + i - 1 \in 1..(n + 1) /\ k + j - 1 \in 1..(n + 1) /\ k + i - 1 < k + j - 1
        /\ t[i] = u[k + i - 1] /\ t[j] = u[k + j - 1]
    BY <1>1, <1>3, <1>6, SMTT(30)
  <2> QED
    BY <1>2, <2>1
<1>7. ASSUME NEW i \in 1..Len(t), i + 2 <= Len(t) PROVE t[Len(t)] - t[i] <= FitWindow
  <2>1. /\ t[i] = u[k + i - 1] /\ k + i - 1 \in 1..n /\ k \in 1..n
        /\ now - u[k] <= FitWindow /\ k <= k + i - 1
    BY <1>1, <1>3, <1>7
  <2>2. u[k] \in Nat /\ u[k + i - 1] \in Nat
    BY <1>1, <2>1
  <2>3. u[k] <= u[k + i - 1]
    <3>1. CASE k < k + i - 1
      <4>1. u[k] + Backoff <= u[k + i - 1]
        BY <1>1, <1>2, <2>1, <3>1
      <4> QED
        BY <2>2, <4>1, AircraftAssumption
    <3>2. CASE ~(k < k + i - 1)
      BY <1>1, <2>1, <2>2, <3>2
    <3> QED
      BY <3>1, <3>2
  <2> QED
    BY <1>4, <2>1, <2>2, <2>3, AircraftAssumption
<1> QED
  BY <1>3, <1>4, <1>5, <1>6, <1>7 DEF n

-----------------------------------------------------------------------------
(* Messages, expiry and time *)

AcType == [listed : BOOLEAN, seen : Nat, fixes : Seq(Nat)]
TrackType == [there : BOOLEAN, last_pos : Position \cup {"none"}, last_time : Nat,
              last_attempt : Nat, last_gated : Nat, speed_rejects : 0..(SpeedRejects - 1)]
RowType == [pos : Position \cup {"none"}, t : Nat]

\* TypeOK with its record sets named.
Types ==
    /\ now \in Nat /\ ac \in AcType /\ track \in TrackType /\ out \in RowType
    /\ alts \in BOOLEAN /\ adsb \in BOOLEAN /\ filters \in BOOLEAN
    /\ pending \subseteq Group /\ ready \subseteq Group
    /\ leg \in 0..2 /\ held \in Nat

\* The two type invariants are one.
LEMMA TypesNamed == (TypeOK <=> Types) /\ (TypeOK' <=> Types')
BY Zenon DEF TypeOK, Types, AcType, TrackType, RowType

\* What the types say of the fields.
LEMMA FieldTypes ==
    ASSUME TypeOK
    PROVE  /\ ac.listed \in BOOLEAN /\ ac.seen \in Nat /\ ac.fixes \in Seq(Nat)
           /\ track.there \in BOOLEAN /\ track.last_pos \in Position \cup {"none"}
           /\ track.last_time \in Nat /\ track.last_attempt \in Nat /\ track.last_gated \in Nat
           /\ track.speed_rejects \in Nat /\ track.speed_rejects < SpeedRejects
           /\ out.pos \in Position \cup {"none"} /\ out.t \in Nat
<1>1. ac \in AcType /\ track \in TrackType /\ out \in RowType
  BY TypesNamed DEF Types
<1> QED
  BY <1>1, AircraftAssumption DEF AcType, TrackType, RowType

\* The empty entries have their types.
LEMMA EmptyEntries == NoAc \in AcType /\ NoTrack \in TrackType /\ NoRow \in RowType
<1>1. <<>> \in Seq(Nat) /\ 0 \in Nat /\ 0 \in 0..(SpeedRejects - 1)
  BY AircraftAssumption
<1> QED
  BY <1>1 DEF NoAc, NoTrack, NoRow, AcType, TrackType, RowType

\* What is about the track and its fixes alone survives a step that changes neither,
\* nor the time, nor the ghosts.
LEMMA SameTrack ==
    ASSUME IInv, ac'.fixes = ac.fixes, UNCHANGED <<now, track, ghosts>>
    PROVE  /\ TimesPast' /\ TrackFixesAgree' /\ FixesOrdered' /\ FixesRecent' /\ FixesAttempted'
           /\ HeldCounted' /\ RowOfTrack'
BY DEF IInv, TimesPast, TrackFixesAgree, FixesOrdered, FixesRecent, FixesAttempted,
       HeldCounted, Unsuppressed, RowOfTrack, Tracked, ghosts

\* A message lists its aircraft, and is at most MaxLag old.
LEMMA TouchedFacts ==
    ASSUME TypeOK, TimesPast, NEW lag \in 0..MaxLag
    PROVE  /\ Touched(lag) \in [listed : BOOLEAN, seen : Nat, fixes : Seq(Nat)]
           /\ Touched(lag).listed
           /\ now <= Touched(lag).seen + MaxLag
           /\ Touched(lag).fixes = ac.fixes
<1>1. /\ now \in Nat /\ AcExpire <= now
      /\ ac \in [listed : BOOLEAN, seen : Nat, fixes : Seq(Nat)]
  BY DEF TypeOK, TimesPast
<1>2. now - lag \in Nat /\ now <= (now - lag) + MaxLag
  BY <1>1, AircraftAssumption
<1> QED
  BY <1>1, <1>2 DEF Touched

\* The groups that wait after a message are those that waited and one heard now.
LEMMA GroupedFacts ==
    ASSUME NEW df17 \in BOOLEAN, NEW q \in Grouped(df17)
    PROVE  \A g \in q : g \in pending \/ g = [t |-> now, df17 |-> df17]
BY DEF Grouped

\* Hearing the aircraft, in whichever form, keeps the invariant.
LEMMA HearKeeps ==
    ASSUME IInv, NEW lag \in 0..MaxLag, Hear(lag)
    PROVE  IInv'
<1> USE AircraftAssumption
<1>0. TypeOK /\ TimesPast /\ GroupsHeard /\ MapsFollowLog
  BY DEF IInv
<1> DEFINE GroupNow(g) == \E df17 \in BOOLEAN : g = [t |-> now, df17 |-> df17]
           Effect == /\ ac' = Touched(lag)
                     /\ UNCHANGED <<now, filters, track, ready, ghosts>>
                     /\ ready = {}
                     /\ alts' \in BOOLEAN /\ adsb' \in BOOLEAN
                     /\ \A g \in pending' : g \in pending \/ GroupNow(g)
<1>1. Effect
  <2>1. ASSUME NEW df17 \in BOOLEAN, NEW alt \in BOOLEAN, OnMlat(lag, df17, alt) PROVE Effect
    BY <1>0, <2>1, GroupedFacts DEF OnMlat, TypeOK
  <2>2. CASE OnSyncUndecoded(lag)
    BY <1>0, <2>2 DEF OnSyncUndecoded, TypeOK
  <2>3. ASSUME NEW alt \in BOOLEAN, OnSync(lag, alt) PROVE Effect
    BY <1>0, <2>3, GroupedFacts DEF OnSync, TypeOK
  <2> HIDE DEF Effect
  <2> QED
    BY <2>1, <2>2, <2>3 DEF Hear
<1>2. /\ ac' \in [listed : BOOLEAN, seen : Nat, fixes : Seq(Nat)]
      /\ ac'.listed
      /\ now <= ac'.seen + MaxLag
      /\ ac'.fixes = ac.fixes
  BY <1>0, <1>1, TouchedFacts
<1>3. ASSUME NEW g \in pending' \cup ready'
      PROVE  /\ g \in Group
             /\ g.t <= now /\ now <= g.t + SolveBy /\ g.t <= ac'.seen + MaxLag
  <2>1. CASE g \in pending
    BY <1>0, <1>2, <2>1, SMTT(30) DEF GroupsHeard, TypeOK, Group
  <2>2. CASE GroupNow(g)
    BY <1>0, <1>2, <2>2 DEF TypeOK, Group
  <2> QED
    BY <1>1, <1>3, <2>1, <2>2
<1>4. TypeOK'
  BY <1>0, <1>1, <1>2, <1>3 DEF TypeOK, ghosts
<1>5. GroupsHeard' /\ MapsFollowLog'
  BY <1>1, <1>2, <1>3 DEF GroupsHeard, MapsFollowLog
<1> QED
  BY <1>1, <1>2, <1>4, <1>5, SameTrack DEF IInv

\* An aircraft with a group waiting is live: expiry spares it.
LEMMA WaitingIsLive ==
    ASSUME TypeOK, GroupsHeard, NEW g \in pending \cup ready
    PROVE  Live
<1>1. g \in Group /\ ac.seen \in Nat /\ now \in Nat
  BY DEF TypeOK
<1> QED
  BY <1>1, AircraftAssumption DEF GroupsHeard, Live, Group

\* An expiry pass empties every map at once, and the ghosts with them.
LEMMA ExpireKeeps ==
    ASSUME IInv, UNCHANGED now, pending' \subseteq pending \cup ready,
           ready' \subseteq pending \cup ready,
           ExpireAt \/ UNCHANGED <<kept, ghosts>>
    PROVE  IInv'
<1> USE AircraftAssumption
<1>0. TypeOK /\ TimesPast /\ GroupsHeard /\ MapsFollowLog
  BY DEF IInv
<1>1. CASE UNCHANGED <<kept, ghosts>>
  <2>1. TypeOK' /\ GroupsHeard' /\ MapsFollowLog'
    BY <1>0, <1>1 DEF TypeOK, GroupsHeard, MapsFollowLog, kept, ghosts
  <2> QED
    BY <1>1, <2>1, SameTrack DEF IInv, kept
<1>2. CASE ~UNCHANGED <<kept, ghosts>>
  <2>1. /\ ~Live /\ ac' = NoAc /\ track' = NoTrack
        /\ alts' = FALSE /\ adsb' = FALSE /\ filters' = FALSE
        /\ out' = NoRow /\ leg' = 0 /\ held' = 0
    BY <1>2 DEF ExpireAt
  <2>2. pending' = {} /\ ready' = {}
    BY <1>0, <2>1, WaitingIsLive
  <2>3. ac'.fixes = <<>> /\ Len(ac'.fixes) = 0
    BY <2>1 DEF NoAc
  <2>4. TypeOK'
    <3>1. Types'
      <4>1. now' \in Nat /\ 0 \in Nat /\ 0 \in 0..2
        BY <1>0, TypesNamed DEF Types
      <4> QED
        BY <2>1, <2>2, <4>1, EmptyEntries DEF Types
    <3> QED
      BY <3>1, TypesNamed
  <2>5. TimesPast' /\ GroupsHeard' /\ MapsFollowLog'
    BY <1>0, <2>1, <2>2 DEF TypeOK, TimesPast, GroupsHeard, MapsFollowLog, NoTrack
  <2>6. TrackFixesAgree' /\ FixesOrdered' /\ FixesRecent' /\ FixesAttempted'
    BY <2>1, <2>3 DEF TrackFixesAgree, FixesOrdered, FixesRecent, FixesAttempted, Tracked, NoTrack
  <2>7. HeldCounted' /\ RowOfTrack'
    BY <2>1 DEF HeldCounted, Unsuppressed, RowOfTrack, Tracked, NoTrack, NoRow
  <2> QED
    BY <2>4, <2>5, <2>6, <2>7 DEF IInv
<1> QED
  BY <1>1, <1>2

\* Time passes only while every group is within SolveBy.
LEMMA TickKeeps ==
    ASSUME IInv, Tick
    PROVE  IInv'
<1> USE AircraftAssumption
<1>0. /\ TypeOK /\ TimesPast /\ GroupsHeard
      /\ now' = now + 1 /\ \A g \in pending \cup ready : now < g.t + SolveBy
      /\ UNCHANGED <<kept, pending, ready, ghosts>>
  BY DEF IInv, Tick
<1>1. TypeOK'
  BY <1>0, SMTT(30) DEF TypeOK, kept, ghosts
<1>2. TimesPast'
  BY <1>0 DEF TypeOK, TimesPast, kept
<1>3. GroupsHeard'
  <2> SUFFICES ASSUME NEW g \in pending \cup ready
               PROVE  g.t <= now + 1 /\ now + 1 <= g.t + SolveBy /\ ac.listed
                      /\ g.t <= ac.seen + MaxLag
    BY <1>0 DEF GroupsHeard, kept
  <2>1. g.t \in Nat /\ now \in Nat
    BY <1>0 DEF TypeOK, Group
  <2> QED
    BY <1>0, <2>1 DEF GroupsHeard
<1>4. /\ MapsFollowLog' /\ TrackFixesAgree' /\ FixesOrdered' /\ FixesRecent' /\ FixesAttempted'
      /\ HeldCounted' /\ RowOfTrack'
  BY <1>0 DEF IInv, MapsFollowLog, TrackFixesAgree, FixesOrdered, FixesRecent, FixesAttempted,
              HeldCounted, Unsuppressed, RowOfTrack, Tracked, kept, ghosts
<1> QED
  BY <1>1, <1>2, <1>3, <1>4 DEF IInv

-----------------------------------------------------------------------------
(* Solving a group *)

\* The group being solved keeps its aircraft listed, and solving adds no group.
LEMMA ClusterFacts ==
    ASSUME TypeOK, GroupsHeard, NEW g \in ready, now' = now, pending' = pending,
           ready' \subseteq ready, ac'.listed, ac'.seen = ac.seen
    PROVE  GroupsHeard' /\ pending' \subseteq Group /\ ready' \subseteq Group
BY DEF GroupsHeard, TypeOK

\* The fields of the track with an attempt on it.
LEMMA AttemptedFacts ==
    ASSUME TypeOK, TimesPast, NEW gated \in BOOLEAN, NEW t, t = Attempted(gated)
    PROVE  /\ t \in TrackType /\ t.there
           /\ t.last_pos = track.last_pos /\ t.last_time = track.last_time
           /\ t.speed_rejects = track.speed_rejects
           /\ track.last_attempt <= t.last_attempt
           /\ t.last_attempt <= now /\ t.last_gated <= now
<1>1. track \in TrackType /\ now \in Nat
  BY TypesNamed DEF Types
<1>2. CASE gated
  <2>1. t = [track EXCEPT !.there = TRUE, !.last_gated = now]
    BY <1>2 DEF Attempted
  <2>2. t \in TrackType
    BY <1>1, <2>1 DEF TrackType
  <2>3. t.there
    BY <1>1, <2>1 DEF TrackType
  <2> QED
    BY <1>1, <2>1, <2>2, <2>3 DEF TimesPast, TrackType
<1>3. CASE ~gated
  <2>1. t = [track EXCEPT !.there = TRUE, !.last_attempt = now]
    BY <1>3 DEF Attempted
  <2>2. t \in TrackType
    BY <1>1, <2>1 DEF TrackType
  <2>3. t.there
    BY <1>1, <2>1 DEF TrackType
  <2> QED
    BY <1>1, <2>1, <2>2, <2>3 DEF TimesPast, TrackType
<1> QED
  BY <1>2, <1>3

\* A cluster that is not backed off is at least a backoff after the last fix.
LEMMA BackoffOver ==
    ASSUME IInv, NEW gated \in BOOLEAN, ~BackedOff(gated), Tracked
    PROVE  track.last_time + Backoff <= now
<1>1. /\ track.last_attempt \in Nat /\ track.last_gated \in Nat /\ track.last_time \in Nat
      /\ now \in Nat /\ track.last_time <= track.last_attempt
  BY DEF IInv, TypeOK, FixesAttempted
<1>2. track.last_attempt <= LastAttempt(gated) /\ LastAttempt(gated) \in Nat
  BY <1>1 DEF LastAttempt, Latest
<1> QED
  BY <1>1, <1>2, AircraftAssumption DEF BackedOff

\* What is about the track and its fixes survives an attempt that moves neither the
\* track's position nor its fixes, and refuses no good fix.
LEMMA SameBooks ==
    ASSUME IInv, NEW g \in ready, now' = now, pending' = pending, ready' \subseteq ready,
           UNCHANGED <<ac, alts, adsb, filters, out, leg>>, held' = held,
           track' \in TrackType,
           track'.last_pos = track.last_pos, track'.last_time = track.last_time,
           track'.speed_rejects = track.speed_rejects,
           track.last_attempt <= track'.last_attempt,
           track'.last_attempt <= now, track'.last_gated <= now
    PROVE  IInv'
<1>0. /\ TypeOK /\ TimesPast /\ GroupsHeard /\ MapsFollowLog /\ TrackFixesAgree
      /\ FixesOrdered /\ FixesRecent /\ FixesAttempted /\ HeldCounted /\ RowOfTrack
  BY DEF IInv
<1>1. ac.listed
  BY <1>0 DEF GroupsHeard
<1>2. GroupsHeard' /\ pending' \subseteq Group /\ ready' \subseteq Group
  BY <1>0, <1>1, ClusterFacts
<1>3. TypeOK'
  BY <1>0, <1>2 DEF TypeOK, TrackType
<1>4. TimesPast' /\ MapsFollowLog'
  BY <1>0, <1>1 DEF TimesPast, MapsFollowLog
<1>5. TrackFixesAgree' /\ FixesOrdered' /\ FixesRecent'
  BY <1>0 DEF TrackFixesAgree, FixesOrdered, FixesRecent, Tracked
<1>6. FixesAttempted'
  BY <1>0 DEF FixesAttempted, Tracked, TypeOK, TrackType
<1>7. HeldCounted' /\ RowOfTrack'
  BY <1>0 DEF HeldCounted, Unsuppressed, RowOfTrack, Tracked
<1> QED
  BY <1>2, <1>3, <1>4, <1>5, <1>6, <1>7 DEF IInv

\* Whatever is wrong with a refused fix, it is not a good one.
LEMMA RefusedNotGood ==
    ASSUME IInv, NEW g, NEW sol \in Solution,
           sol.wait = NoFix \/ Throttled(sol) \/ Inconsistent(sol)
    PROVE  ~Good(g, sol)
<1>1. now \in Nat /\ track.last_time \in Nat /\ track.last_time <= now
  BY DEF IInv, TypeOK, TimesPast
<1> QED
  BY <1>1, AircraftAssumption DEF Good, NoFix, Throttled, Elapsed, Inconsistent

\* Held back by the backoff or for want of an altitude, refused, or scored.
LEMMA UnpublishedKeeps ==
    ASSUME IInv, NEW g \in ready, NEW sol \in Solution,
           HeldBack(g, sol) \/ Refuse(g, sol) \/ SelfTruth(g, sol)
    PROVE  IInv'
<1>0. TypeOK /\ TimesPast /\ Gated(sol) \in BOOLEAN
  BY DEF IInv, Gated
<1>1. CASE HeldBack(g, sol)
  <2>1. /\ now' = now /\ pending' = pending /\ ready' \subseteq ready
        /\ UNCHANGED <<ac, alts, adsb, filters, out, leg>> /\ held' = held
        /\ track' = [track EXCEPT !.there = TRUE]
    BY <1>1 DEF HeldBack, Cluster, ghosts
  <2>2. /\ track' \in TrackType
        /\ track'.last_pos = track.last_pos /\ track'.last_time = track.last_time
        /\ track'.speed_rejects = track.speed_rejects
        /\ track.last_attempt <= track'.last_attempt
        /\ track'.last_attempt <= now /\ track'.last_gated <= now
    <3>1. track \in TrackType /\ now \in Nat
      BY <1>0, TypesNamed DEF Types
    <3>2. track' \in TrackType
      BY <2>1, <3>1 DEF TrackType
    <3> QED
      BY <1>0, <2>1, <3>1, <3>2 DEF TimesPast, TrackType
  <2> QED
    BY <2>1, <2>2, SameBooks
<1>2. CASE Refuse(g, sol) \/ SelfTruth(g, sol)
  <2>1. /\ now' = now /\ pending' = pending /\ ready' \subseteq ready
        /\ UNCHANGED <<ac, alts, adsb, filters, out, leg>>
        /\ track' = Attempted(Gated(sol))
    BY <1>2 DEF Refuse, SelfTruth, Plausible, Attempt, Cluster, ghosts
  <2>2. held' = held
    BY <1>2, RefusedNotGood DEF Refuse, Held, SelfTruth, ghosts
  <2> QED
    BY <1>0, <2>1, <2>2, AttemptedFacts, SameBooks
<1> QED
  BY <1>1, <1>2

\* The speed gate refuses, and drops the track with its fixes when it has refused
\* SpeedRejects in a row.
LEMMA RefuseTooFastKeeps ==
    ASSUME IInv, NEW g \in ready, NEW sol \in Solution, RefuseTooFast(g, sol)
    PROVE  IInv'
<1> USE AircraftAssumption
<1>0. /\ TypeOK /\ TimesPast /\ GroupsHeard /\ MapsFollowLog /\ TrackFixesAgree
      /\ FixesOrdered /\ FixesRecent /\ FixesAttempted /\ HeldCounted /\ RowOfTrack
      /\ Gated(sol) \in BOOLEAN
  BY DEF IInv, Gated
<1> DEFINE a == Attempted(Gated(sol))
<1>1. /\ now' = now /\ pending' = pending /\ ready' \subseteq ready
      /\ UNCHANGED <<alts, adsb, filters>>
      /\ track' = SpeedRefused(a)
      /\ ac' = [ac EXCEPT !.fixes = FixesAfter(track')]
      /\ held' = Held(g, sol)
      /\ out' = IF track'.last_pos = "none" THEN NoRow ELSE out
      /\ leg' = IF track'.last_pos = "none" THEN 0 ELSE leg
      /\ Tracked
  BY DEF RefuseTooFast, Plausible, Attempt, Cluster, TooFast
<1>2. /\ a \in TrackType /\ a.there
      /\ a.last_pos = track.last_pos /\ a.last_time = track.last_time
      /\ a.speed_rejects = track.speed_rejects
      /\ track.last_attempt <= a.last_attempt
      /\ a.last_attempt <= now /\ a.last_gated <= now
  BY <1>0, AttemptedFacts
<1> HIDE DEF a
<1>3. /\ track' \in TrackType
      /\ track'.last_time = track.last_time
      /\ track.last_attempt <= track'.last_attempt
      /\ track'.last_attempt <= now /\ track'.last_gated <= now
      /\ \/ track'.last_pos = track.last_pos /\ track'.speed_rejects = track.speed_rejects + 1
         \/ track'.last_pos = "none" /\ track.speed_rejects + 1 = SpeedRejects
  <2>1. CASE a.speed_rejects + 1 >= SpeedRejects
    <3>1. track' = [a EXCEPT !.last_pos = "none", !.speed_rejects = 0]
      BY <1>1, <2>1 DEF SpeedRefused
    <3>2. a \in TrackType /\ 0 \in 0..(SpeedRejects - 1)
      BY <1>2
    <3>3. track' \in TrackType
      BY <3>1, <3>2 DEF TrackType
    <3> QED
      BY <1>2, <2>1, <3>1, <3>3 DEF TrackType
  <2>2. CASE ~(a.speed_rejects + 1 >= SpeedRejects)
    <3>1. track' = [a EXCEPT !.speed_rejects = @ + 1]
      BY <1>1, <2>2 DEF SpeedRefused
    <3>2. a.speed_rejects + 1 \in 0..(SpeedRejects - 1)
      BY <1>2, <2>2 DEF TrackType
    <3>3. track' \in TrackType
      BY <1>2, <3>1, <3>2 DEF TrackType
    <3> QED
      BY <1>2, <3>1, <3>3 DEF TrackType
  <2> QED
    BY <2>1, <2>2
<1>4. /\ ac'.listed /\ ac'.seen = ac.seen /\ ac' \in AcType
      /\ ac'.fixes = IF track'.last_pos = "none" THEN <<>> ELSE ac.fixes
  <2>1. ac \in AcType /\ ac.listed
    BY <1>0, TypesNamed DEF Types, GroupsHeard
  <2>2. FixesAfter(track') = <<>> \/ FixesAfter(track') = ac.fixes
    BY DEF FixesAfter
  <2>3. FixesAfter(track') \in Seq(Nat)
    <3>1. <<>> \in Seq(Nat)
      OBVIOUS
    <3>2. ac.fixes \in Seq(Nat)
      BY <1>0, FieldTypes
    <3> QED
      BY <2>2, <3>1, <3>2, Zenon
  <2>4. ac' \in AcType /\ ac'.seen = ac.seen /\ ac'.fixes = FixesAfter(track')
    BY <1>1, <2>1, <2>3 DEF AcType
  <2>5. ac'.listed
    BY <1>1, <2>1, <2>3 DEF AcType
  <2> QED
    BY <2>4, <2>5 DEF FixesAfter
<1>5. held' \in Nat /\ held' <= held + 1 /\ held \in Nat /\ track.speed_rejects \in Nat
  <2>1. held \in Nat /\ (held' = held \/ held' = held + 1)
    BY <1>0, <1>1, TypesNamed DEF Held, Types
  <2> QED
    BY <1>0, <2>1, FieldTypes
<1>6. GroupsHeard' /\ pending' \subseteq Group /\ ready' \subseteq Group
  BY <1>0, <1>1, <1>4, ClusterFacts
<1>7. TypeOK'
  <2>1. Types'
    BY <1>0, <1>1, <1>3, <1>4, <1>5, <1>6, EmptyEntries, TypesNamed DEF Types
  <2> QED
    BY <2>1, TypesNamed
<1>8. TimesPast' /\ MapsFollowLog'
  BY <1>0, <1>1, <1>3, <1>4 DEF TimesPast, MapsFollowLog
<1>9. TrackFixesAgree' /\ FixesOrdered' /\ FixesRecent'
  <2>1. CASE track'.last_pos = "none"
    <3>1. ac'.fixes = <<>> /\ Len(ac'.fixes) = 0 /\ leg' = 0
      BY <1>1, <1>4, <2>1
    <3> QED
      BY <2>1, <3>1 DEF TrackFixesAgree, FixesOrdered, FixesRecent, Tracked
  <2>2. CASE track'.last_pos # "none"
    <3>1. ac'.fixes = ac.fixes /\ leg' = leg /\ track'.last_pos = track.last_pos
      BY <1>1, <1>3, <1>4, <2>2
    <3> QED
      BY <1>0, <1>3, <3>1 DEF TrackFixesAgree, FixesOrdered, FixesRecent, Tracked
  <2> QED
    BY <2>1, <2>2
<1>10. FixesAttempted'
  <2>1. track.last_time \in Nat /\ track.last_attempt \in Nat /\ track'.last_attempt \in Nat
    BY <1>0, <1>3, FieldTypes DEF TrackType
  <2> QED
    BY <1>0, <1>1, <1>3, <2>1 DEF FixesAttempted, Tracked
<1>11. HeldCounted'
  <2>1. track.speed_rejects < SpeedRejects /\ held <= track.speed_rejects
    BY <1>0, <1>1, FieldTypes DEF HeldCounted
  <2> QED
    BY <1>3, <1>5, <2>1 DEF HeldCounted, Unsuppressed, Tracked
<1>12. RowOfTrack'
  BY <1>0, <1>1, <1>3 DEF RowOfTrack, Tracked, NoRow
<1> QED
  BY <1>6, <1>7, <1>8, <1>9, <1>10, <1>11, <1>12 DEF IInv

\* A fix passes every gate and is published: the track, its fixes, the count of the
\* speed gate and, when the output channel had room, the last row move together.
LEMMA PublishKeeps ==
    ASSUME IInv, NEW g \in ready, NEW sol \in Solution, NEW delivered \in BOOLEAN,
           Publish(g, sol, delivered)
    PROVE  /\ IInv'
           /\ out.pos # "none" /\ out'.pos # "none" /\ out'.pos # out.pos
                => out'.t >= out.t + Stale
<1> USE AircraftAssumption
<1>0. /\ TypeOK /\ TimesPast /\ GroupsHeard /\ MapsFollowLog /\ TrackFixesAgree
      /\ FixesOrdered /\ FixesRecent /\ FixesAttempted /\ HeldCounted /\ RowOfTrack
      /\ Gated(sol) \in BOOLEAN /\ sol.pos \in Position /\ sol.pos # "none"
      /\ now \in Nat /\ track \in TrackType /\ ac \in AcType /\ out \in RowType
  BY TypesNamed DEF IInv, Gated, Solution, Position, Types
<1> DEFINE a == Attempted(Gated(sol))
<1>1. /\ now' = now /\ pending' = pending /\ ready' \subseteq ready
      /\ track' = [a EXCEPT !.last_pos = sol.pos, !.last_time = now, !.last_attempt = now,
                            !.speed_rejects = 0]
      /\ ac' = [ac EXCEPT !.listed = TRUE, !.fixes = Trimmed(Append(ac.fixes, now))]
      /\ filters' \in BOOLEAN
      /\ out' = IF delivered THEN [pos |-> sol.pos, t |-> now] ELSE out
      /\ leg' = IF leg = 2 THEN 2 ELSE leg + 1
      /\ held' = 0
      /\ UNCHANGED <<alts, adsb>>
      /\ ~BackedOff(Gated(sol)) /\ ~TooFast(sol)
  BY DEF Publish, Plausible, Attempt, Cluster, Published
<1>2. a \in TrackType /\ a.last_gated <= now /\ 0 \in 0..(SpeedRejects - 1)
  BY <1>0, AttemptedFacts
<1> HIDE DEF a
<1>3. /\ track' \in TrackType
      /\ track'.last_pos = sol.pos /\ track'.last_time = now /\ track'.last_attempt = now
      /\ track'.speed_rejects = 0 /\ track'.last_gated <= now
  <2>1. track' \in TrackType
    BY <1>0, <1>1, <1>2 DEF TrackType
  <2> QED
    BY <1>0, <1>1, <1>2, <2>1 DEF TrackType
<1>4. Tracked => track.last_time + Backoff <= now
  BY <1>0, <1>1, BackoffOver
<1> DEFINE s == ac.fixes
           t == Trimmed(Append(s, now))
<1>5. /\ s \in Seq(Nat) /\ Len(s) \in Nat /\ \A i \in 1..Len(s) : s[i] \in Nat
      /\ \A i, j \in 1..Len(s) : i < j => s[i] + Backoff <= s[j]
  <2>1. s \in Seq(Nat)
    BY <1>0, FieldTypes
  <2> QED
    BY <1>0, <2>1 DEF FixesOrdered
<1>6. ASSUME NEW i \in 1..Len(s) PROVE s[i] + Backoff <= now
  <2>1. s # <<>> /\ Len(s) \in 1..Len(s)
    BY <1>5, <1>6
  <2>2. Tracked /\ s[Len(s)] = track.last_time
    BY <1>0, <2>1 DEF TrackFixesAgree
  <2>3. s[Len(s)] + Backoff <= now
    BY <1>4, <2>2
  <2>4. CASE i = Len(s)
    BY <2>3, <2>4
  <2>5. CASE i < Len(s)
    <3>1. s[i] + Backoff <= s[Len(s)] /\ s[Len(s)] \in Nat /\ s[i] \in Nat
      BY <1>5, <1>6, <2>1, <2>5
    <3> QED
      BY <1>0, <2>3, <3>1
  <2> QED
    BY <1>5, <1>6, <2>4, <2>5
<1>7. /\ t \in Seq(Nat) /\ t # <<>> /\ t[Len(t)] = now
      /\ \A i, j \in 1..Len(t) : i < j => t[i] + Backoff <= t[j]
      /\ \A i \in 1..Len(t) : i + 2 <= Len(t) => t[Len(t)] - t[i] <= FitWindow
      /\ Len(t) >= 1 /\ (Len(s) >= 1 => Len(t) >= 2)
  <2> HIDE DEF s
  <2> QED
    BY <1>0, <1>5, <1>6, FixAppended
<1> HIDE DEF t
<1>8. /\ ac' \in AcType /\ ac'.listed /\ ac'.seen = ac.seen /\ ac'.fixes = t
  <2>1. ac' = [ac EXCEPT !.listed = TRUE, !.fixes = t]
    BY <1>1 DEF t
  <2>2. ac' \in AcType
    BY <1>0, <1>7, <2>1 DEF AcType
  <2>3. ac'.listed
    BY <1>0, <1>7, <2>1 DEF AcType
  <2> QED
    BY <1>0, <1>7, <2>1, <2>2, <2>3 DEF AcType
<1>9. GroupsHeard' /\ pending' \subseteq Group /\ ready' \subseteq Group
  BY <1>0, <1>1, <1>8, ClusterFacts
<1>10. leg \in 0..2 /\ leg' \in 0..2 /\ leg <= Len(s) /\ leg' <= Len(t)
  <2>1. leg \in 0..2 /\ Len(t) \in Nat /\ Len(s) \in Nat
    BY <1>0, <1>5, <1>7, TypesNamed DEF Types
  <2>2. leg <= Len(s)
    BY <1>0, <2>1 DEF FixesRecent
  <2> QED
    BY <1>1, <1>7, <2>1, <2>2, SMTT(30)
<1>11. /\ out' \in RowType
       /\ out'.pos = (IF delivered THEN sol.pos ELSE out.pos)
       /\ out'.t = (IF delivered THEN now ELSE out.t)
  BY <1>0, <1>1 DEF RowType
<1>12. TypeOK'
  <2>1. Types'
    BY <1>0, <1>1, <1>3, <1>8, <1>9, <1>10, <1>11, TypesNamed DEF Types
  <2> QED
    BY <2>1, TypesNamed
<1>13. TimesPast' /\ MapsFollowLog' /\ FixesAttempted'
  BY <1>0, <1>1, <1>3, <1>8 DEF TimesPast, MapsFollowLog, FixesAttempted
<1>14. TrackFixesAgree' /\ FixesOrdered'
  BY <1>0, <1>3, <1>7, <1>8 DEF TrackFixesAgree, FixesOrdered, Tracked
<1>15. FixesRecent'
  <2>1. ASSUME NEW i \in 1..(Len(t) - 1) PROVE t[i] + Backoff <= t[i + 1]
    <3>1. i \in 1..Len(t) /\ i + 1 \in 1..Len(t) /\ i < i + 1
      BY <1>7
    <3> QED
      BY <1>7, <3>1
  <2>2. Len(t) >= leg'
    BY <1>7, <1>10
  <2> QED
    BY <1>7, <1>8, <2>1, <2>2 DEF FixesRecent
<1>16. HeldCounted'
  BY <1>1, <1>3 DEF HeldCounted, Unsuppressed
\* The track moves only where the aircraft can have flown, or after Stale.
<1>17. out.pos # "none" => /\ out.t \in Nat /\ out.t <= now
                           /\ out.pos # sol.pos => out.t + Stale <= now
  <2> SUFFICES ASSUME out.pos # "none"
               PROVE  /\ out.t \in Nat /\ out.t <= now
                      /\ out.pos # sol.pos => out.t + Stale <= now
    OBVIOUS
  <2>1. /\ Tracked /\ out.t <= track.last_time
        /\ out.pos # track.last_pos => out.t + Stale <= track.last_time
        /\ out.t \in Nat /\ track.last_time \in Nat
        /\ track.last_time + Backoff <= now
    BY <1>0, <1>4, FieldTypes DEF RowOfTrack
  <2>2. track.last_pos # sol.pos => track.last_time + Stale <= now
    BY <1>0, <1>1, <2>1 DEF TooFast, Elapsed
  <2> QED
    BY <1>0, <2>1, <2>2
<1>18. RowOfTrack'
  BY <1>0, <1>3, <1>11, <1>17 DEF RowOfTrack, Tracked
<1>19. out.pos # "none" /\ out'.pos # "none" /\ out'.pos # out.pos => out'.t >= out.t + Stale
  BY <1>0, <1>11, <1>17
<1> QED
  BY <1>9, <1>12, <1>13, <1>14, <1>15, <1>16, <1>18, <1>19 DEF IInv

-----------------------------------------------------------------------------

\* Every step of a shard keeps the invariant.
LEMMA NextKeeps == IInv /\ [Next]_vars => IInv'
<1> SUFFICES ASSUME IInv, [Next]_vars PROVE IInv'
  OBVIOUS
<1>0. TypeOK /\ GroupsHeard
  BY DEF IInv
<1>1. ASSUME NEW groups \in SUBSET pending, Sweep(groups) PROVE IInv'
  BY <1>1, ExpireKeeps DEF Sweep
<1>2. CASE StateJson
  BY <1>2, ExpireKeeps DEF StateJson
<1>3. ASSUME NEW g \in ready, TooFew(g) PROVE IInv'
  BY <1>3, ExpireKeeps DEF TooFew
<1>4. ASSUME NEW g \in ready, NEW sol \in Solution, SolveCluster(g, sol) PROVE IInv'
  BY <1>4, UnpublishedKeeps, RefuseTooFastKeeps, PublishKeeps DEF SolveCluster
<1>5. CASE UNCHANGED vars
  BY <1>5, ExpireKeeps DEF vars, kept, ghosts
<1> QED
  BY <1>1, <1>2, <1>3, <1>4, <1>5, HearKeeps, TickKeeps DEF Next

\* The books on an aircraft satisfy the invariant from the first message on.
THEOREM AircraftInvariant == Spec => []IInv
<1>1. Init => IInv
  <2> SUFFICES ASSUME Init PROVE IInv
    OBVIOUS
  <2> USE AircraftAssumption
  <2>1. ac.fixes = <<>> /\ Len(ac.fixes) = 0 /\ track.last_pos = "none" /\ out.pos = "none"
    BY DEF Init, NoAc, NoTrack, NoRow
  <2>2. TypeOK
    <3>0. AcExpire \in Nat /\ 0 \in Nat /\ 0 \in 0..2
      OBVIOUS
    <3>1. Types
      BY <3>0, EmptyEntries, Zenon DEF Init, Types
    <3> QED
      BY <3>1, TypesNamed
  <2>3. TimesPast /\ GroupsHeard /\ MapsFollowLog
    BY DEF Init, TimesPast, GroupsHeard, MapsFollowLog, NoTrack
  <2>4. TrackFixesAgree /\ FixesOrdered /\ FixesRecent /\ FixesAttempted
    BY <2>1 DEF Init, TrackFixesAgree, FixesOrdered, FixesRecent, FixesAttempted, Tracked
  <2>5. HeldCounted /\ RowOfTrack
    BY <2>1 DEF Init, HeldCounted, Unsuppressed, RowOfTrack, Tracked
  <2> QED
    BY <2>2, <2>3, <2>4, <2>5 DEF IInv
<1> QED
  BY <1>1, NextKeeps, PTL DEF Spec

\* Every variable keeps to its type; the speed gate's count stays under its limit.
THEOREM AircraftTypeCorrect == Spec => []TypeOK
<1>1. IInv => TypeOK
  BY DEF IInv
<1> QED
  BY <1>1, AircraftInvariant, PTL

\* No map of the shard holds an aircraft that ac_log does not list: a group is solved
\* so soon after it was heard that expire_at cannot run between, so sweep and
\* solve_cluster never enter an aircraft that is gone.
THEOREM MapsNeverOutlive == Spec => []MapsFollowLog
<1>1. IInv => MapsFollowLog
  BY DEF IInv
<1> QED
  BY <1>1, AircraftInvariant, PTL

\* The last fix of ac_log and the track's are the same fix in every state between
\* two clusters, and the speed gate drops both or neither.
THEOREM TrackAndFixesAgree == Spec => []TrackFixesAgree
<1>1. IInv => TrackFixesAgree
  BY DEF IInv
<1> QED
  BY <1>1, AircraftInvariant, PTL

\* The fixes solve_cluster keeps for the export and the four-receiver gate are in
\* order, a backoff apart, and trimmed to the window but for the last two.
THEOREM KeptFixesRecent == Spec => []FixesRecent
<1>1. IInv => FixesRecent
  BY DEF IInv
<1> QED
  BY <1>1, AircraftInvariant, PTL

\* One bad fix that was published holds up at most SpeedRejects good ones.
THEOREM GoodStreamNotSuppressed == Spec => []Unsuppressed
<1>1. IInv => Unsuppressed
  BY DEF IInv, HeldCounted
<1> QED
  BY <1>1, AircraftInvariant, PTL

\* Two rows of one track, delivered one after the other, are never apart by more than
\* the aircraft can fly in the time between them, though emit lost rows meanwhile:
\* the speed gate measures from the last fix, delivered or not, and that fix had
\* itself passed the gate.
THEOREM RowsContinuous == Spec => Continuity
<1> DEFINE Flown == out.pos # "none" /\ out'.pos # "none" /\ out'.pos # out.pos
                      => out'.t >= out.t + Stale
<1>1. IInv /\ [Next]_vars => [Flown]_vars
  <2> SUFFICES ASSUME IInv, Next PROVE Flown
    OBVIOUS
  <2>1. ASSUME NEW g \in ready, NEW sol \in Solution, NEW delivered \in BOOLEAN,
               Publish(g, sol, delivered)
        PROVE  Flown
    BY <2>1, PublishKeeps
  <2>2. CASE out' = out \/ out' = NoRow
    BY <2>2 DEF NoRow
  <2>3. ASSUME NEW g \in ready, NEW sol \in Solution, SolveCluster(g, sol) PROVE Flown
    BY <2>1, <2>2, <2>3
       DEF SolveCluster, HeldBack, Refuse, RefuseTooFast, SelfTruth, ghosts
  <2>4. ASSUME NEW lag \in 0..MaxLag, Hear(lag) PROVE out' = out
    BY <2>4 DEF Hear, OnMlat, OnSync, OnSyncUndecoded, ghosts
  <2>5. ASSUME NEW groups, Sweep(groups) \/ StateJson PROVE out' = out \/ out' = NoRow
    BY <2>5 DEF Sweep, StateJson, ExpireAt, ghosts
  <2>6. ASSUME NEW g, TooFew(g) \/ Tick PROVE out' = out
    BY <2>6 DEF TooFew, Tick, ghosts
  <2> HIDE DEF Flown
  <2> QED
    BY <2>2, <2>3, <2>4, <2>5, <2>6 DEF Next
<1> QED
  BY <1>1, AircraftInvariant, PTL DEF Spec, Continuity
===============================================================================
