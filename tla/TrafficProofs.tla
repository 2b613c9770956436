---------------------------- MODULE TrafficProofs ----------------------------
(***************************************************************************)
(* Proofs about Traffic, for every fleet, cap, clock and channel length.   *)
(* The three properties need three strengthenings of their own: the sets   *)
(* that are counted are finite; a stop that still binds is remembered; and *)
(* what the feeder will send once it has read the channel is what the      *)
(* connection asked for.  IInv is their conjunction.                       *)
(***************************************************************************)
EXTENDS Traffic, FiniteSetTheorems, SequenceTheorems, TLAPS

Line == [kind : {"start", "stop"}, ac : Aircraft \cup Junk]

Typed ==
    /\ now \in Nat
    /\ suppressed \in [DOMAIN suppressed -> Nat]
    /\ \A a \in DOMAIN suppressed : suppressed[a] <= now
    /\ stopped_at \in [DOMAIN stopped_at -> Nat]
    /\ lines \in Seq(Line)

Finite == IsFiniteSet(requested) /\ IsFiniteSet(DOMAIN sync)

\* A stop younger than Suppress is still in suppressed, under its own time.
StopsRemembered ==
    \A a \in DOMAIN stopped_at :
        now - stopped_at[a] < Suppress
            => a \in DOMAIN suppressed /\ suppressed[a] = stopped_at[a]

\* What the feeder sends once it has read every line of the channel: the last line
\* about the aircraft decides, or without one what it was told before.
Silent(a, from) == \A j \in from..Len(lines) : lines[j].ac # a
WillSend(a) ==
    \/ a \in told /\ Silent(a, 1)
    \/ \E i \in 1..Len(lines) : lines[i] = [kind |-> "start", ac |-> a] /\ Silent(a, i + 1)

ChannelAgrees ==
    ~dropped => /\ \A a \in requested : WillSend(a)
                /\ \A a \in DOMAIN suppressed : ~WillSend(a)

\* The inductive invariant.
IInv == Typed /\ Finite /\ Bounded /\ StopsRemembered /\ ChannelAgrees

-----------------------------------------------------------------------------
(* The helpers *)

\* One element more is at most one more to count.
LEMMA AddOne ==
    ASSUME NEW S, IsFiniteSet(S), NEW x
    PROVE  /\ IsFiniteSet(S \cup {x})
           /\ Cardinality(S) \in Nat
           /\ x \notin S => Cardinality(S \cup {x}) = Cardinality(S) + 1
           /\ x \in S => Cardinality(S \cup {x}) = Cardinality(S)
BY FS_AddElement, FS_CardinalityType

\* has_room leaves a part of the sync set.
LEMMA SweptSmaller ==
    ASSUME Finite, Bounded
    PROVE  /\ DOMAIN Swept \subseteq DOMAIN sync
           /\ IsFiniteSet(DOMAIN Swept)
           /\ Cardinality(DOMAIN Swept) \in Nat
           /\ SyncCap > 0 => Cardinality(DOMAIN Swept) <= SyncCap
<1>1. DOMAIN Swept \subseteq DOMAIN sync
  BY DEF Swept, Younger, Only
<1>2. /\ IsFiniteSet(DOMAIN Swept)
      /\ Cardinality(DOMAIN Swept) <= Cardinality(DOMAIN sync)
  BY <1>1, FS_Subset DEF Finite
<1>3. Cardinality(DOMAIN Swept) \in Nat /\ Cardinality(DOMAIN sync) \in Nat
  BY <1>2, FS_CardinalityType DEF Finite
<1> QED
  BY <1>1, <1>2, <1>3, TrafficAssumption DEF Bounded

-----------------------------------------------------------------------------
(* The channel *)

\* A line about one aircraft has the last word about it and none about the others.
LEMMA AppendedLine ==
    ASSUME lines \in Seq(Line), NEW kind \in {"start", "stop"}, NEW a \in Aircraft \cup Junk,
           lines' = Append(lines, [kind |-> kind, ac |-> a]), told' = told, NEW b
    PROVE  WillSend(b)' <=> IF b = a THEN kind = "start" ELSE WillSend(b)
<1> DEFINE new == [kind |-> kind, ac |-> a]
           n == Len(lines)
<1>1. /\ n \in Nat /\ Len(lines') = n + 1
      /\ \A i \in 1..n : lines'[i] = lines[i]
      /\ lines'[n + 1] = new
      /\ new.ac = a /\ new.kind = kind
  OBVIOUS
<1>2. CASE b = a
  <2>1. ASSUME NEW i \in 1..(n + 1) PROVE Silent(b, i)' <=> FALSE
    BY <1>1, <1>2 DEF Silent
  <2>2. Silent(b, n + 2)'
    BY <1>1 DEF Silent
  <2>3. WillSend(b)' <=> lines'[n + 1] = [kind |-> "start", ac |-> b]
    <3>1. ~Silent(b, 1)' /\ \A i \in 1..n : ~Silent(b, i + 1)'
      BY <1>1, <2>1
    <3>2. 1..Len(lines') = 1..n \cup {n + 1} /\ (n + 1) + 1 = n + 2
      BY <1>1
    <3>3. ASSUME WillSend(b)' PROVE lines'[n + 1] = [kind |-> "start", ac |-> b]
      <4>1. PICK i \in 1..Len(lines') :
                lines'[i] = [kind |-> "start", ac |-> b] /\ Silent(b, i + 1)'
        BY <3>1, <3>3 DEF WillSend
      <4> QED
        BY <3>1, <3>2, <4>1
    <3>4. ASSUME lines'[n + 1] = [kind |-> "start", ac |-> b] PROVE WillSend(b)'
      <4>1. n + 1 \in 1..Len(lines') /\ Silent(b, (n + 1) + 1)'
        BY <2>2, <3>2
      <4> QED
        BY <3>4, <4>1 DEF WillSend, Silent
    <3> QED
      BY <3>3, <3>4
  <2> QED
    BY <1>1, <1>2, <2>3
<1>3. CASE b # a
  <2>1. ASSUME NEW i \in 1..(n + 1) PROVE Silent(b, i)' <=> Silent(b, i)
    BY <1>1, <1>3 DEF Silent
  <2>2. lines'[n + 1] # [kind |-> "start", ac |-> b]
    BY <1>1, <1>3
  <2> QED
    BY <1>1, <1>3, <2>1, <2>2 DEF WillSend
<1> QED
  BY <1>2, <1>3

\* Reading a line changes nothing of what the feeder will end up sending.
LEMMA DeliveredLine ==
    ASSUME lines \in Seq(Line), Deliver, NEW b
    PROVE  WillSend(b)' <=> WillSend(b)
<1> DEFINE n == Len(lines)
<1>1. /\ n \in Nat \ {0} /\ Len(lines') = n - 1
      /\ \A i \in 1..(n - 1) : lines'[i] = lines[i + 1]
      /\ lines[1] \in Line /\ Head(lines) = lines[1]
  BY DEF Deliver
<1>2. ASSUME NEW i \in 1..n PROVE Silent(b, i)' <=> Silent(b, i + 1)
  <2>1. ASSUME Silent(b, i)' PROVE Silent(b, i + 1)
    <3> SUFFICES ASSUME NEW j \in (i + 1)..n PROVE lines[j].ac # b
      BY DEF Silent
    <3>1. j - 1 \in i..(n - 1) /\ j - 1 \in 1..(n - 1) /\ (j - 1) + 1 = j
      BY <1>1, <1>2
    <3>2. lines'[j - 1].ac # b
      BY <1>1, <2>1, <3>1 DEF Silent
    <3> QED
      BY <1>1, <3>1, <3>2
  <2>2. ASSUME Silent(b, i + 1) PROVE Silent(b, i)'
    BY <1>1, <1>2, <2>2 DEF Silent
  <2> QED
    BY <2>1, <2>2
<1>3. Silent(b, 1) <=> lines[1].ac # b /\ Silent(b, 2)
  BY <1>1 DEF Silent
<1> DEFINE start == [kind |-> "start", ac |-> b]
<1>4. (\E i \in 1..Len(lines') : lines'[i] = start /\ Silent(b, i + 1)')
      <=> (\E i \in 2..n : lines[i] = start /\ Silent(b, i + 1))
  <2>1. ASSUME NEW i \in 1..(n - 1), lines'[i] = start, Silent(b, i + 1)'
        PROVE  i + 1 \in 2..n /\ lines[i + 1] = start /\ Silent(b, (i + 1) + 1)
    BY <1>1, <1>2, <2>1
  <2>2. ASSUME NEW i \in 2..n, lines[i] = start, Silent(b, i + 1)
        PROVE  i - 1 \in 1..(n - 1) /\ lines'[i - 1] = start /\ Silent(b, (i - 1) + 1)'
    BY <1>1, <1>2, <2>2
  <2> QED
    BY <1>1, <2>1, <2>2
<1>5. lines[1] = start <=> lines[1].ac = b /\ lines[1].kind = "start"
  BY <1>1 DEF Line
<1>6. b \in told' <=> IF lines[1].ac = b THEN lines[1].kind = "start" ELSE b \in told
  BY <1>1 DEF Deliver
<1>7. Silent(b, 1)' <=> Silent(b, 2)
  BY <1>1, <1>2
<1>8. WillSend(b) <=> \/ b \in told /\ Silent(b, 1)
                      \/ lines[1] = start /\ Silent(b, 2)
                      \/ \E i \in 2..n : lines[i] = start /\ Silent(b, i + 1)
  BY <1>1 DEF WillSend
<1>9. WillSend(b)' <=> \/ b \in told' /\ Silent(b, 1)'
                       \/ \E i \in 1..Len(lines') : lines'[i] = start /\ Silent(b, i + 1)'
  BY DEF WillSend
<1> QED
  BY <1>3, <1>4, <1>5, <1>6, <1>7, <1>8, <1>9

-----------------------------------------------------------------------------
(* One lemma for each action *)

\* What a TrySend leaves in the channel.
LEMMA TrySendKeeps ==
    ASSUME Typed, NEW kind \in {"start", "stop"}, NEW a \in Aircraft \cup Junk,
           TrySend(kind, a), told' = told
    PROVE  /\ lines' \in Seq(Line)
           /\ ~dropped' => /\ ~dropped
                           /\ \A b : WillSend(b)' <=> IF b = a THEN kind = "start" ELSE WillSend(b)
<1>1. CASE Len(lines) < LineCap
  <2>1. lines' = Append(lines, [kind |-> kind, ac |-> a]) /\ dropped' = dropped
    BY <1>1 DEF TrySend
  <2>2. [kind |-> kind, ac |-> a] \in Line
    BY DEF Line
  <2> QED
    BY <2>1, <2>2, AppendedLine DEF Typed
<1>2. CASE ~(Len(lines) < LineCap)
  BY <1>2 DEF TrySend, Typed
<1> QED
  BY <1>1, <1>2

\* Nothing about the channel has changed.
LEMMA SameChannel ==
    ASSUME lines' = lines, told' = told, NEW b
    PROVE  WillSend(b)' <=> WillSend(b)
BY DEF WillSend, Silent

\* An offer is ignored, denied, or enters one aircraft that no stop binds.
LEMMA OfferedKeeps ==
    ASSUME IInv, NEW a \in Aircraft \cup Junk, Offered(a)
    PROVE  IInv'
<1> USE TrafficAssumption
<1>0. /\ Typed /\ Finite /\ Bounded /\ StopsRemembered /\ ChannelAgrees
      /\ now' = now /\ told' = told /\ stopped_at' = stopped_at
  BY DEF IInv, Offered
<1>1. sync' = sync \/ sync' = Swept
  BY DEF Offered
<1>2. IsFiniteSet(DOMAIN sync') /\ (SyncCap > 0 => Cardinality(DOMAIN sync') <= SyncCap)
  BY <1>0, <1>1, SweptSmaller DEF Finite, Bounded
<1>3. CASE UNCHANGED <<requested, suppressed, lines, dropped>>
  <2>1. Typed' /\ Finite' /\ Bounded' /\ StopsRemembered'
    BY <1>0, <1>2, <1>3 DEF Typed, Finite, Bounded, StopsRemembered
  <2>2. ChannelAgrees'
    BY <1>0, <1>3, SameChannel DEF ChannelAgrees
  <2> QED
    BY <2>1, <2>2 DEF IInv
<1>4. CASE ~UNCHANGED <<requested, suppressed, lines, dropped>>
  <2>1. /\ a \in Aircraft /\ ~AtLimit(a)
        /\ a \in DOMAIN suppressed => ~TooSoon(a)
        /\ suppressed' = Only(suppressed, DOMAIN suppressed \ {a})
        /\ requested' = requested \cup {a}
        /\ IF a \in requested THEN UNCHANGED <<lines, dropped>> ELSE TrySend("start", a)
    BY <1>4 DEF Offered
  <2>2. /\ DOMAIN suppressed' = DOMAIN suppressed \ {a}
        /\ \A x \in DOMAIN suppressed' : suppressed'[x] = suppressed[x]
        /\ suppressed' \in [DOMAIN suppressed' -> Nat]
    BY <1>0, <2>1 DEF Typed, Only
  <2>3. lines' \in Seq(Line)
    BY <1>0, <2>1, TrySendKeeps DEF Typed
  <2>4. Typed'
    BY <1>0, <2>2, <2>3 DEF Typed
  <2>5. IsFiniteSet(requested') /\ Cardinality(requested') <= MaxRequested
    <3>1. /\ IsFiniteSet(requested \cup {a})
          /\ Cardinality(requested) \in Nat
          /\ Cardinality(requested \cup {a}) =
                IF a \in requested THEN Cardinality(requested) ELSE Cardinality(requested) + 1
      BY <1>0, AddOne DEF Finite
    <3> QED
      BY <1>0, <2>1, <3>1 DEF Bounded, AtLimit
  <2>6. Finite' /\ Bounded'
    <3>1. \A x, y \in DOMAIN suppressed' : x # y => suppressed'[x] - suppressed'[y] < Keep
      BY <1>0, <2>2 DEF Bounded
    <3>2. requested' \subseteq Aircraft
      BY <1>0, <2>1 DEF Bounded
    <3> QED
      BY <1>2, <2>5, <3>1, <3>2 DEF Finite, Bounded
  <2>7. StopsRemembered'
    BY <1>0, <2>1, <2>2 DEF StopsRemembered, TooSoon
  <2>8. ChannelAgrees'
    <3>1. CASE a \in requested
      BY <1>0, <2>1, <2>2, <3>1, SameChannel DEF ChannelAgrees
    <3>2. CASE a \notin requested
      BY <1>0, <2>1, <2>2, <3>2, TrySendKeeps DEF ChannelAgrees
    <3> QED
      BY <3>1, <3>2
  <2> QED
    BY <2>4, <2>6, <2>7, <2>8 DEF IInv
<1> QED
  BY <1>3, <1>4

\* A sync pair finds room, or its aircraft is stopped and the stop remembered.
LEMMA SyncPairKeeps ==
    ASSUME IInv, NEW a \in Aircraft \cup Junk, SyncPair(a)
    PROVE  IInv'
<1> USE TrafficAssumption
<1>0. /\ Typed /\ Finite /\ Bounded /\ StopsRemembered /\ ChannelAgrees
      /\ now' = now /\ told' = told
  BY DEF IInv, SyncPair
<1> DEFINE room == SyncCap = 0 \/ a \in DOMAIN sync \/ Room(Swept)
<1>2. IsFiniteSet(DOMAIN sync') /\ (SyncCap > 0 => Cardinality(DOMAIN sync') <= SyncCap)
  <2>1. CASE SyncCap = 0 \/ a \in DOMAIN sync
    <3>1. DOMAIN sync' = DOMAIN sync
      BY <2>1 DEF SyncPair
    <3> QED
      BY <1>0, <3>1 DEF Finite, Bounded
  <2>2. CASE SyncCap # 0 /\ a \notin DOMAIN sync /\ Room(Swept)
    <3>1. DOMAIN sync' = DOMAIN Swept \cup {a}
      BY <2>2 DEF SyncPair, With
    <3> DEFINE S == DOMAIN Swept
    <3>2. IsFiniteSet(S) /\ Cardinality(S) \in Nat
      BY <1>0, SweptSmaller
    <3>3. Cardinality(S) < SyncCap
      BY <2>2 DEF Room
    <3>4. DOMAIN sync' = S \cup {a}
      BY <3>1
    <3> HIDE DEF S
    <3> DEFINE c == Cardinality(S)
               d == Cardinality(S \cup {a})
    <3>5. IsFiniteSet(S \cup {a}) /\ d <= c + 1
      <4>1. IsFiniteSet(S \cup {a}) /\ (d = c + 1 \/ d = c)
        BY <3>2, AddOne, Zenon
      <4> HIDE DEF c, d
      <4> QED
        BY <3>2, <4>1 DEF c
    <3>6. Cardinality(S \cup {a}) \in Nat
      BY <3>5, FS_CardinalityType
    <3> QED
      BY <3>2, <3>3, <3>4, <3>5, <3>6
  <2>3. CASE SyncCap # 0 /\ a \notin DOMAIN sync /\ ~Room(Swept)
    <3>1. sync' = Swept
      BY <2>3 DEF SyncPair
    <3> QED
      BY <1>0, <3>1, SweptSmaller
  <2> QED
    BY <2>1, <2>2, <2>3
<1>3. CASE room
  <2>1. UNCHANGED <<requested, suppressed, lines, dropped, stopped_at>>
    BY <1>3 DEF SyncPair
  <2>2. Typed' /\ Finite' /\ Bounded' /\ StopsRemembered'
    BY <1>0, <1>2, <2>1 DEF Typed, Finite, Bounded, StopsRemembered
  <2>3. ChannelAgrees'
    BY <1>0, <2>1, SameChannel DEF ChannelAgrees
  <2> QED
    BY <2>2, <2>3 DEF IInv
<1>4. CASE ~room
  <2>1. /\ requested' = requested \ {a}
        /\ suppressed' = With(Remembered, a, now)
        /\ TrySend("stop", a)
        /\ stopped_at' = With(stopped_at, a, now)
    BY <1>4 DEF SyncPair, TellStop
  <2> DEFINE young == {x \in DOMAIN suppressed : now - suppressed[x] < Keep}
  <2>2. /\ DOMAIN Remembered = young
        /\ \A x \in young : Remembered[x] = suppressed[x]
        /\ Remembered \in [DOMAIN Remembered -> Nat]
    BY <1>0 DEF Remembered, Younger, Only, Typed
  <2>3. /\ DOMAIN suppressed' = young \cup {a}
        /\ suppressed'[a] = now
        /\ \A x \in young : x # a => suppressed'[x] = suppressed[x]
        /\ suppressed' \in [DOMAIN suppressed' -> Nat]
    <3> HIDE DEF young
    <3> QED
      BY <1>0, <2>1, <2>2 DEF Typed, With
  <2>4. /\ DOMAIN stopped_at' = DOMAIN stopped_at \cup {a}
        /\ stopped_at'[a] = now
        /\ \A x \in DOMAIN stopped_at : x # a => stopped_at'[x] = stopped_at[x]
        /\ stopped_at' \in [DOMAIN stopped_at' -> Nat]
    BY <1>0, <2>1 DEF Typed, With
  <2>5. lines' \in Seq(Line)
    BY <1>0, <2>1, TrySendKeeps
  <2>6. Typed'
    BY <1>0, <2>3, <2>4, <2>5 DEF Typed
  <2>7. /\ IsFiniteSet(requested')
        /\ Cardinality(requested') <= MaxRequested
        /\ requested' \subseteq Aircraft
    <3>1. IsFiniteSet(requested') /\ Cardinality(requested') <= Cardinality(requested)
      BY <1>0, <2>1, FS_Subset DEF Finite
    <3>2. Cardinality(requested') \in Nat /\ Cardinality(requested) \in Nat
      BY <1>0, <3>1, FS_CardinalityType DEF Finite
    <3> QED
      BY <1>0, <2>1, <3>1, <3>2 DEF Bounded
  <2>8. Finite' /\ Bounded'
    <3>1. ASSUME NEW x \in young \cup {a}, NEW y \in young \cup {a}, x # y
          PROVE  suppressed'[x] - suppressed'[y] < Keep
      <4>1. CASE x # a /\ y # a
        BY <1>0, <2>3, <3>1, <4>1 DEF Bounded
      <4>2. CASE x = a
        BY <1>0, <2>3, <3>1, <4>2 DEF Typed
      <4>3. CASE y = a
        <5>1. now - suppressed[x] < Keep /\ suppressed[x] <= now /\ suppressed[x] \in Nat
          BY <1>0, <3>1, <4>3 DEF Typed
        <5>2. suppressed'[x] = suppressed[x] /\ suppressed'[y] = now
          BY <2>3, <3>1, <4>3
        <5> QED
          BY <1>0, <5>1, <5>2 DEF Typed
      <4> QED
        BY <4>1, <4>2, <4>3
    <3>2. \A x, y \in DOMAIN suppressed' : x # y => suppressed'[x] - suppressed'[y] < Keep
      BY <2>3, <3>1, Zenon
    <3> QED
      BY <1>2, <2>7, <3>2 DEF Finite, Bounded
  <2>9. StopsRemembered'
    <3> SUFFICES ASSUME NEW x \in DOMAIN stopped_at', now - stopped_at'[x] < Suppress
                 PROVE  x \in DOMAIN suppressed' /\ suppressed'[x] = stopped_at'[x]
      BY <1>0 DEF StopsRemembered
    <3>1. CASE x = a
      BY <2>3, <2>4, <3>1
    <3>2. CASE x # a
      <4>1. /\ x \in DOMAIN suppressed /\ suppressed[x] = stopped_at[x]
            /\ now - stopped_at[x] < Suppress
        BY <1>0, <2>4, <3>2 DEF StopsRemembered
      <4>2. x \in young
        BY <1>0, <4>1 DEF Typed
      <4> QED
        BY <2>3, <2>4, <3>2, <4>1, <4>2
    <3> QED
      BY <3>1, <3>2
  <2>10. ChannelAgrees'
    BY <1>0, <2>1, <2>3, TrySendKeeps DEF ChannelAgrees
  <2> QED
    BY <2>6, <2>8, <2>9, <2>10 DEF IInv
<1> QED
  BY <1>3, <1>4

\* A lost aircraft leaves requested and the sync set; its stop stays.
LEMMA LostKeeps ==
    ASSUME IInv, NEW a \in Aircraft \cup Junk, Lost(a)
    PROVE  IInv'
<1> USE TrafficAssumption
<1>1. /\ Typed /\ Finite /\ Bounded /\ StopsRemembered /\ ChannelAgrees
      /\ UNCHANGED <<now, suppressed, lines, stopped_at, dropped>>
  BY DEF IInv, Lost
<1>2. /\ requested' = requested \ {a} /\ told' = told \ {a}
      /\ requested' \subseteq requested /\ DOMAIN sync' \subseteq DOMAIN sync
  BY DEF Lost, Only
<1>3. /\ IsFiniteSet(requested') /\ IsFiniteSet(DOMAIN sync')
      /\ Cardinality(requested') <= Cardinality(requested)
      /\ Cardinality(DOMAIN sync') <= Cardinality(DOMAIN sync)
  BY <1>1, <1>2, FS_Subset DEF Finite
<1>4. /\ Cardinality(requested') \in Nat /\ Cardinality(requested) \in Nat
      /\ Cardinality(DOMAIN sync') \in Nat /\ Cardinality(DOMAIN sync) \in Nat
  BY <1>1, <1>3, FS_CardinalityType DEF Finite
<1>5. Finite' /\ Bounded'
  BY <1>1, <1>2, <1>3, <1>4 DEF Finite, Bounded
<1>6. Typed' /\ StopsRemembered'
  BY <1>1 DEF Typed, StopsRemembered
<1>7. \A b : /\ WillSend(b)' => WillSend(b)
             /\ b # a => (WillSend(b) => WillSend(b)')
  BY <1>1, <1>2 DEF WillSend, Silent
<1>8. ChannelAgrees'
  BY <1>1, <1>2, <1>7 DEF ChannelAgrees
<1> QED
  BY <1>5, <1>6, <1>8 DEF IInv

\* The feeder reads a line.
LEMMA DeliverKeeps ==
    ASSUME IInv, Deliver
    PROVE  IInv'
<1>1. /\ Typed /\ Finite /\ Bounded /\ StopsRemembered /\ ChannelAgrees
      /\ UNCHANGED <<now, requested, sync, suppressed, stopped_at, dropped>>
  BY DEF IInv, Deliver
<1>2. lines' \in Seq(Line)
  BY <1>1 DEF Typed, Deliver
<1>3. Typed' /\ Finite' /\ Bounded' /\ StopsRemembered'
  BY <1>1, <1>2 DEF Typed, Finite, Bounded, StopsRemembered
<1>4. ChannelAgrees'
  BY <1>1, DeliveredLine DEF Typed, ChannelAgrees
<1> QED
  BY <1>3, <1>4 DEF IInv

\* Time passes: fewer stops bind.
LEMMA TickKeeps ==
    ASSUME IInv, Tick
    PROVE  IInv'
<1>1. /\ Typed /\ Finite /\ Bounded /\ StopsRemembered /\ ChannelAgrees
      /\ now' = now + 1
      /\ UNCHANGED <<requested, sync, suppressed, lines, told, stopped_at, dropped>>
  BY DEF IInv, Tick
<1>2. Typed' /\ Finite' /\ Bounded' /\ StopsRemembered'
  BY <1>1, TrafficAssumption DEF Typed, Finite, Bounded, StopsRemembered
<1>3. ChannelAgrees'
  BY <1>1, SameChannel DEF ChannelAgrees
<1> QED
  BY <1>2, <1>3 DEF IInv

-----------------------------------------------------------------------------

\* The connection's books satisfy the invariant from the first line on.
THEOREM TrafficInvariant == Spec => []IInv
<1>1. Init => IInv
  <2> SUFFICES ASSUME Init PROVE IInv
    OBVIOUS
  <2>1. DOMAIN sync = {} /\ DOMAIN suppressed = {} /\ DOMAIN stopped_at = {}
    BY DEF Init
  <2>2. Typed /\ StopsRemembered
    BY <2>1 DEF Init, Typed, StopsRemembered
  <2>3. Finite /\ Bounded
    BY <2>1, FS_EmptySet, TrafficAssumption DEF Init, Finite, Bounded
  <2>4. ChannelAgrees
    BY <2>1 DEF Init, ChannelAgrees
  <2> QED
    BY <2>2, <2>3, <2>4 DEF IInv
<1>2. IInv /\ [Next]_vars => IInv'
  <2> SUFFICES ASSUME IInv, [Next]_vars PROVE IInv'
    OBVIOUS
  <2>1. CASE UNCHANGED vars
    BY <2>1 DEF vars, IInv, Typed, Finite, Bounded, StopsRemembered, ChannelAgrees, WillSend, Silent
  <2> QED
    BY <2>1, OfferedKeeps, SyncPairKeeps, LostKeeps, DeliverKeeps, TickKeeps DEF Next
<1> QED
  BY <1>1, <1>2, PTL DEF Spec

\* However a client arranges its offers, sync pairs and losses, it pins no more than
\* MAX_REQUESTED addresses, under --sync-aircraft-per-receiver no more than that many
\* aircraft in the sync set, and the stops of ten times SUPPRESS_S.
THEOREM MemoryBounded == Spec => []Bounded
<1>1. IInv => Bounded
  BY DEF IInv
<1> QED
  BY <1>1, TrafficInvariant, PTL

\* As long as no try_send found the writer's channel full, a feeder that has read
\* every answer sends what the connection counts as requested and nothing it has
\* stopped.
THEOREM FeederFollows == Spec => []AnswersAgree
<1>1. IInv => AnswersAgree
  <2> SUFFICES ASSUME IInv, ~dropped, lines = <<>>
               PROVE  requested \subseteq told /\ told \cap DOMAIN suppressed = {}
    BY DEF AnswersAgree
  <2>1. ASSUME NEW a PROVE WillSend(a) <=> a \in told
    BY DEF WillSend, Silent
  <2> QED
    BY <2>1 DEF IInv, ChannelAgrees
<1> QED
  BY <1>1, TrafficInvariant, PTL

\* offered never asks again for an aircraft within SUPPRESS_S of its stop: losing it
\* and seeing it again, or the clean-up of other stops, does not forget the stop.
THEOREM StopsHold == Spec => NoEarlyRestart
<1> DEFINE Kept == \A a \in (requested' \ requested) \cap DOMAIN stopped_at :
                      now - stopped_at[a] >= Suppress
<1>1. IInv /\ [Next]_vars => [Kept]_vars
  <2> SUFFICES ASSUME IInv, Next,
                      NEW a \in (requested' \ requested) \cap DOMAIN stopped_at
               PROVE  now - stopped_at[a] >= Suppress
    OBVIOUS
  <2>1. Typed /\ StopsRemembered
    BY DEF IInv
  <2>2. PICK b \in Aircraft \cup Junk : Offered(b)
    BY DEF Next, SyncPair, Lost, Deliver, Tick
  <2>3. a = b /\ (a \in DOMAIN suppressed => ~TooSoon(a))
    BY <2>2 DEF Offered
  <2> QED
    BY <2>1, <2>3, TrafficAssumption DEF Typed, StopsRemembered, TooSoon
<1> QED
  BY <1>1, TrafficInvariant, PTL DEF Spec, NoEarlyRestart
===============================================================================
