--------------------------- MODULE ConnectionProofs ---------------------------
(***************************************************************************)
(* Proofs about Connection, for every set of connections, every capacity   *)
(* and every burst.  The invariant ties three things that are changed by   *)
(* different tasks: where a connection's reader is, what of it is still in *)
(* the shard's queue, and what the shard has made of its slot (Stage).     *)
(***************************************************************************)
EXTENDS Connection, FiniteSetTheorems, SequenceTheorems, TLAPS

\* A slot is asked for once and given back once.  Between the two the connection is
\* in the part of handle_client that may use it; what of this is still in the queue
\* the shard has not acted on.
Stage(c) ==
    /\ Queued("add", c) <=> task[c] = "adding" /\ slot[c] = "none"
    /\ Queued("remove", c) => /\ task[c] \in {"released", "stopping", "flushing", "closed"}
                              /\ slot[c] \in {"held", "lost"}
    /\ slot[c] = "none" => task[c] \in {"none", "handshake", "claimed", "adding", "closed"}
    /\ slot[c] = "refused" => task[c] \in {"adding", "closed"}
    /\ slot[c] \in {"held", "lost"} =>
          task[c] \in {"adding", "greeting", "reading", "releasing"} \/ Queued("remove", c)
    /\ slot[c] = "over" => task[c] \in {"released", "stopping", "flushing", "closed"}

\* Which helpers may run, and which frame may be under way, at each point of
\* handle_client.
Helpers(c) ==
    /\ todo[c] > 0 => task[c] = "reading"
    /\ Running(ticker[c]) \/ Running(forwarder[c])
         => task[c] \in {"reading", "releasing", "released", "stopping"}
    /\ Running(writer[c])
         => task[c] \in {"reading", "releasing", "released", "stopping", "flushing"}
    /\ writer[c] = "off" => ticker[c] = "off" /\ forwarder[c] = "off"

\* Eviction, from the shard's answer on.
Told(c) == evicted[c] \/ ticker[c] = "no" => slot[c] = "lost" \/ Leaving(c)

\* Only connections that are followed leave or ask for stats; the queue holds a
\* connection's add and its removal once.
QueueShape ==
    /\ \A i \in 1..Len(queue) : queue[i].kind \in {"remove", "stats"} => queue[i].conn \in Conns
    /\ \A i, j \in 1..Len(queue) :
          i < j /\ queue[i] = queue[j] /\ queue[i].kind \in {"add", "remove"}
              => queue[i].conn \notin Conns

\* The inductive invariant.
IInv ==
    /\ TypeOK
    /\ \A c \in Conns : Stage(c) /\ Helpers(c) /\ Told(c)
    /\ QueueShape /\ RemovalIsLast
    /\ CountedOnce

-----------------------------------------------------------------------------
(* The queue *)

\* A message at the end of the queue is one more that is queued.
LEMMA Appended ==
    ASSUME queue \in Seq(ShardMsg), NEW m \in ShardMsg, queue' = Append(queue, m)
    PROVE  /\ Len(queue) \in Nat /\ Len(queue') = Len(queue) + 1
           /\ \A i \in 1..Len(queue) : queue'[i] = queue[i] /\ queue[i] \in ShardMsg
           /\ queue'[Len(queue) + 1] = m
           /\ \A k, d : Queued(k, d)' <=> Queued(k, d) \/ m = [kind |-> k, conn |-> d]
<1>1. /\ Len(queue) \in Nat /\ Len(queue') = Len(queue) + 1
      /\ \A i \in 1..Len(queue) : queue'[i] = queue[i] /\ queue[i] \in ShardMsg
      /\ queue'[Len(queue) + 1] = m
  OBVIOUS
<1>2. ASSUME NEW k, NEW d
      PROVE  Queued(k, d)' <=> Queued(k, d) \/ m = [kind |-> k, conn |-> d]
  BY <1>1 DEF Queued
<1> QED
  BY <1>1, <1>2

\* The shard takes the head; the rest moves up.
LEMMA Taken ==
    ASSUME queue \in Seq(ShardMsg), queue # <<>>, queue' = Tail(queue)
    PROVE  /\ Len(queue) \in Nat \ {0} /\ Len(queue') = Len(queue) - 1
           /\ queue' \in Seq(ShardMsg)
           /\ \A i \in 1..Len(queue') : queue'[i] = queue[i + 1]
           /\ Head(queue) = queue[1] /\ Head(queue) \in ShardMsg
           /\ \A k, d : Queued(k, d) <=> Queued(k, d)' \/ Head(queue) = [kind |-> k, conn |-> d]
<1>1. /\ Len(queue) \in Nat \ {0} /\ Len(queue') = Len(queue) - 1
      /\ queue' \in Seq(ShardMsg)
      /\ \A i \in 1..Len(queue') : queue'[i] = queue[i + 1]
      /\ Head(queue) = queue[1] /\ Head(queue) \in ShardMsg
  OBVIOUS
<1>2. ASSUME NEW k, NEW d
      PROVE  Queued(k, d) <=> Queued(k, d)' \/ Head(queue) = [kind |-> k, conn |-> d]
  <2> DEFINE m == [kind |-> k, conn |-> d]
  <2>1. ASSUME Queued(k, d), Head(queue) # m PROVE Queued(k, d)'
    <3>1. PICK i \in 1..Len(queue) : queue[i] = m
      BY <2>1 DEF Queued
    <3>2. i - 1 \in 1..Len(queue') /\ queue'[i - 1] = m
      BY <1>1, <2>1, <3>1
    <3> QED
      BY <3>2 DEF Queued
  <2>2. ASSUME Queued(k, d)' PROVE Queued(k, d)
    BY <1>1, <2>2 DEF Queued
  <2>3. ASSUME Head(queue) = m PROVE Queued(k, d)
    BY <1>1, <2>3 DEF Queued
  <2> QED
    BY <2>1, <2>2, <2>3
<1> QED
  BY <1>1, <1>2

\* An add or a removal of a followed connection, once taken, is not queued any more.
LEMMA TakenOnce ==
    ASSUME queue \in Seq(ShardMsg), queue # <<>>, queue' = Tail(queue), QueueShape,
           NEW k \in {"add", "remove"}, NEW c \in Conns,
           Head(queue) = [kind |-> k, conn |-> c]
    PROVE  ~Queued(k, c)'
<1> DEFINE m == [kind |-> k, conn |-> c]
<1>1. m.kind = k /\ m.conn = c
  OBVIOUS
<1>2. ASSUME NEW i \in 1..Len(queue'), queue'[i] = m PROVE FALSE
  <2>1. i + 1 \in 1..Len(queue) /\ 1 \in 1..Len(queue) /\ 1 < i + 1
        /\ queue[i + 1] = m /\ queue[1] = m
    BY <1>2, Taken
  <2> HIDE DEF m
  <2> QED
    BY <1>1, <2>1 DEF QueueShape
<1> QED
  BY <1>2 DEF Queued

\* A message for the queue, and room for it.
LEMMA EnqueueFacts ==
    ASSUME TypeOK, NEW kind \in {"add", "remove", "data", "stats"}, NEW c \in Conns \cup Others,
           Enqueue(kind, c)
    PROVE  /\ [kind |-> kind, conn |-> c] \in ShardMsg
           /\ queue' = Append(queue, [kind |-> kind, conn |-> c])
           /\ queue \in Seq(ShardMsg) /\ queue' \in Seq(ShardMsg)
           /\ Len(queue') <= QueueCap
           /\ \A k, d : Queued(k, d)' <=> Queued(k, d) \/ (k = kind /\ d = c)
<1>1. /\ queue \in Seq(ShardMsg) /\ Len(queue) < QueueCap
      /\ queue' = Append(queue, [kind |-> kind, conn |-> c])
      /\ [kind |-> kind, conn |-> c] \in ShardMsg
  BY DEF TypeOK, Enqueue, ShardMsg
<1>2. queue' \in Seq(ShardMsg) /\ Len(queue') <= QueueCap
  BY <1>1, ConnectionAssumption
<1>3. \A k, d : [kind |-> kind, conn |-> c] = [kind |-> k, conn |-> d] <=> k = kind /\ d = c
  OBVIOUS
<1> QED
  BY <1>1, <1>2, <1>3, Appended

\* A message keeps the queue's shape if it is not a second add or removal, and is a
\* stats request when the connection's removal is queued.
LEMMA EnqueueKeeps ==
    ASSUME TypeOK, QueueShape, RemovalIsLast,
           NEW kind \in {"add", "remove", "data", "stats"}, NEW c \in Conns \cup Others,
           Enqueue(kind, c),
           kind \in {"remove", "stats"} => c \in Conns,
           kind \in {"add", "remove"} /\ c \in Conns => ~Queued(kind, c),
           kind # "stats" /\ c \in Conns => ~Queued("remove", c)
    PROVE  QueueShape' /\ RemovalIsLast'
<1> DEFINE m == [kind |-> kind, conn |-> c]
           n == Len(queue)
<1>1. /\ n \in Nat /\ Len(queue') = n + 1
      /\ \A i \in 1..n : queue'[i] = queue[i] /\ queue[i] \in ShardMsg
      /\ queue'[n + 1] = m /\ m.kind = kind /\ m.conn = c
  BY EnqueueFacts, Appended
<1>2. \A k, d : Queued(k, d) <=> \E i \in 1..n : queue[i] = [kind |-> k, conn |-> d]
  BY DEF Queued
<1>3. ASSUME NEW i \in 1..n PROVE queue[i] = [kind |-> queue[i].kind, conn |-> queue[i].conn]
  BY <1>1, <1>3 DEF ShardMsg
<1> HIDE DEF m, n
<1>4. ASSUME NEW i \in 1..(n + 1), queue'[i].kind \in {"remove", "stats"}
      PROVE  queue'[i].conn \in Conns
  BY <1>1, <1>4 DEF QueueShape, n
<1>5. ASSUME NEW i \in 1..(n + 1), NEW j \in 1..(n + 1), i < j, queue'[i] = queue'[j],
             queue'[i].kind \in {"add", "remove"}
      PROVE  queue'[i].conn \notin Conns
  <2>1. i \in 1..n /\ queue'[i] = queue[i]
    BY <1>1, <1>5
  <2>2. CASE j \in 1..n
    BY <1>1, <1>5, <2>1, <2>2 DEF QueueShape, n
  <2>3. CASE j = n + 1
    <3>1. queue[i] = m
      BY <1>1, <1>5, <2>1, <2>3
    <3>2. Queued(kind, c)
      BY <1>2, <2>1, <3>1 DEF m
    <3> QED
      BY <1>1, <1>5, <2>1, <3>1, <3>2
  <2> QED
    BY <1>1, <1>5, <2>2, <2>3
<1>6. ASSUME NEW i \in 1..(n + 1), NEW j \in 1..(n + 1), i < j, queue'[i].kind = "remove",
             queue'[j].conn = queue'[i].conn
      PROVE  queue'[j].kind = "stats"
  <2>1. i \in 1..n /\ queue'[i] = queue[i]
    BY <1>1, <1>6
  <2>2. CASE j \in 1..n
    BY <1>1, <1>6, <2>1, <2>2 DEF RemovalIsLast, n
  <2>3. CASE j = n + 1
    <3>1. queue[i] = [kind |-> "remove", conn |-> c] /\ c \in Conns
      BY <1>1, <1>3, <1>6, <2>1, <2>3 DEF QueueShape, n
    <3>2. Queued("remove", c)
      BY <1>2, <2>1, <3>1
    <3> QED
      BY <1>1, <2>3, <3>1, <3>2
  <2> QED
    BY <1>1, <1>6, <2>2, <2>3
<1> QED
  BY <1>1, <1>4, <1>5, <1>6 DEF QueueShape, RemovalIsLast

\* Taking the head keeps the queue's shape.
LEMMA TakeKeeps ==
    ASSUME queue \in Seq(ShardMsg), queue # <<>>, queue' = Tail(queue), QueueShape, RemovalIsLast
    PROVE  QueueShape' /\ RemovalIsLast'
<1>1. /\ Len(queue) \in Nat \ {0} /\ Len(queue') = Len(queue) - 1
      /\ \A i \in 1..Len(queue') : queue'[i] = queue[i + 1] /\ i + 1 \in 1..Len(queue)
  BY Taken
<1>2. \A i, j \in 1..Len(queue') : i < j => i + 1 < j + 1
  BY <1>1
<1> QED
  BY <1>1, <1>2 DEF QueueShape, RemovalIsLast

-----------------------------------------------------------------------------
(* The steps, by what they touch *)

\* The reader moves on and nothing else changes.
Moves(c) ==
    \/ Accept(c) \/ HandshakeFails(c) \/ Added(c) \/ GreetFails(c)
    \/ ReadEnds(c) \/ Idle(c) \/ Evicted(c) \/ Flushed(c)

\* The claim is taken or given back.
Counts(c) == Claim(c) \/ Refused(c) \/ GiveBack(c)

\* Helpers start and stop.
Switches(c) == Greet(c) \/ StopTasks(c) \/ FlushTimesOut(c)

\* Reader and ticker send the shard a message.
Sends(c) == SendAdd(c) \/ SendData(c) \/ SendRemove(c) \/ SendStats(c)

\* Helpers and peer do what concerns neither reader nor shard.
Works(c) ==
    \/ \E n \in 0..MaxBurst : Read(c, n)
    \/ ReadOffer(c) \/ Heartbeat(c) \/ StatsTick(c) \/ StatsYes(c) \/ StatsNo(c)
    \/ Writer(c) \/ Forwarder(c)
    \/ \E p \in Faults : PeerChanges(c, p)

\* These are all the steps there are.
LEMMA AllSteps ==
    ASSUME Next
    PROVE  \/ \E c \in Conns : Moves(c) \/ Counts(c) \/ Switches(c) \/ Sends(c) \/ Works(c)
           \/ ShardStep
           \/ \E o \in Others, kind \in {"add", "data"} : OtherSends(o, kind)
BY DEF Next, Reader, Ticker, Moves, Counts, Switches, Sends, Works

\* A queue that does not change keeps its shape and what is queued.
LEMMA SameQueue ==
    ASSUME queue' = queue
    PROVE  /\ \A k, d : Queued(k, d)' <=> Queued(k, d)
           /\ QueueShape /\ RemovalIsLast => QueueShape' /\ RemovalIsLast'
BY DEF Queued, QueueShape, RemovalIsLast

\* The same claims, the same count.
LEMMA SameCount ==
    ASSUME CountedOnce, receivers' = receivers, \A d \in Conns : Claimed(d)' <=> Claimed(d)
    PROVE  CountedOnce'
<1>1. {d \in Conns : Claimed(d)'} = {d \in Conns : Claimed(d)}
  OBVIOUS
<1> QED
  BY <1>1 DEF CountedOnce

\* The reader moves on.
LEMMA MovesKeep ==
    ASSUME IInv, NEW c \in Conns, Moves(c)
    PROVE  IInv'
<1>0. /\ TypeOK /\ QueueShape /\ RemovalIsLast /\ CountedOnce
      /\ UNCHANGED <<peer, todo, helpers, shard>>
  BY DEF IInv, Moves, Accept, HandshakeFails, Added, GreetFails, ReadEnds, Idle, Evicted, Flushed
<1>1. PICK x \in TaskAt :
          /\ task' = [task EXCEPT ![c] = x]
          /\ \/ task[c] = "none" /\ x = "handshake"
             \/ task[c] = "handshake" /\ x = "closed"
             \/ task[c] = "adding" /\ slot[c] \in {"held", "lost"} /\ x = "greeting"
             \/ task[c] = "greeting" /\ x = "releasing"
             \/ task[c] = "reading" /\ todo[c] = 0 /\ x = "releasing"
             \/ task[c] = "flushing" /\ writer[c] = "gone" /\ x = "closed"
  BY DEF Moves, Accept, HandshakeFails, Added, GreetFails, ReadEnds, Idle, Evicted, Flushed,
         AtRead, TaskAt
<1>2. \A d \in Conns : task'[d] = IF d = c THEN x ELSE task[d]
  BY <1>0, <1>1 DEF TypeOK
<1>3. TypeOK'
  BY <1>0, <1>1 DEF TypeOK, helpers, shard
<1>4. ASSUME NEW d \in Conns PROVE Stage(d)'
  <2>1. Stage(d) /\ (Queued("add", d)' <=> Queued("add", d))
                 /\ (Queued("remove", d)' <=> Queued("remove", d))
    BY <1>0, SameQueue DEF IInv, shard
  <2> QED
    BY <1>0, <1>1, <1>2, <2>1 DEF Stage, shard
<1>5. ASSUME NEW d \in Conns PROVE Helpers(d)'
  <2>1. Helpers(d) /\ todo[d] \in Nat
    BY <1>0 DEF IInv, TypeOK
  <2> QED
    BY <1>0, <1>1, <1>2, <2>1 DEF Helpers, Running, helpers
<1>6. ASSUME NEW d \in Conns PROVE Told(d)'
  <2>1. Told(d)
    BY DEF IInv
  <2> QED
    BY <1>0, <1>1, <1>2, <2>1 DEF Told, Leaving, helpers, shard
<1>7. CountedOnce'
  <2>1. \A d \in Conns : Claimed(d)' <=> Claimed(d)
    BY <1>1, <1>2 DEF Claimed
  <2> QED
    BY <1>0, <2>1, SameCount DEF shard
<1> QED
  BY <1>0, <1>3, <1>4, <1>5, <1>6, <1>7, SameQueue DEF IInv, shard

\* A claim more or a claim less is one more or less to count.
LEMMA CountsKeep ==
    ASSUME IInv, NEW c \in Conns, Counts(c)
    PROVE  IInv'
<1>0. /\ TypeOK /\ QueueShape /\ RemovalIsLast /\ CountedOnce
      /\ UNCHANGED <<peer, todo, helpers, queue, slot>>
  BY DEF IInv, Counts, Claim, Refused, GiveBack
<1>1. PICK x \in TaskAt :
          /\ task' = [task EXCEPT ![c] = x]
          /\ \/ task[c] = "handshake" /\ x = "claimed" /\ receivers' = receivers + 1
             \/ /\ task[c] = "adding" /\ slot[c] = "refused" /\ x = "closed"
                /\ receivers' = receivers - 1
             \/ /\ task[c] = "released" /\ receivers' = receivers - 1
                /\ x = IF writer[c] = "off" THEN "closed" ELSE "stopping"
  BY DEF Counts, Claim, Refused, GiveBack, TaskAt
<1>2. \A d \in Conns : task'[d] = IF d = c THEN x ELSE task[d]
  BY <1>0, <1>1 DEF TypeOK
<1> DEFINE S == {d \in Conns : Claimed(d)}
           S1 == {d \in Conns : Claimed(d)'}
<1>3. IsFiniteSet(S) /\ Cardinality(S) \in Nat /\ receivers = Cardinality(S)
  BY <1>0, ConnectionAssumption, FS_Subset, FS_CardinalityType DEF CountedOnce
<1>4. receivers' = Cardinality(S1) /\ receivers' \in Nat
  <2>1. CASE task[c] = "handshake" /\ x = "claimed" /\ receivers' = receivers + 1
    <3>1. c \notin S /\ S1 = S \cup {c}
      BY <1>2, <2>1 DEF Claimed
    <3> HIDE DEF S, S1
    <3>2. Cardinality(S \cup {c}) = Cardinality(S) + 1
      BY <1>3, <3>1, FS_AddElement
    <3> QED
      BY <1>3, <2>1, <3>1, <3>2
  <2>2. CASE /\ task[c] \in {"adding", "released"} /\ x \in {"closed", "stopping"}
             /\ receivers' = receivers - 1
    <3>1. c \in S /\ S1 = S \ {c}
      BY <1>2, <2>2 DEF Claimed
    <3> HIDE DEF S, S1
    <3>2. Cardinality(S \ {c}) = Cardinality(S) - 1 /\ Cardinality(S \ {c}) \in Nat
      BY <1>3, <3>1, FS_RemoveElement, FS_CardinalityType
    <3> QED
      BY <1>3, <2>2, <3>1, <3>2
  <2> QED
    BY <1>1, <2>1, <2>2
<1>5. TypeOK'
  BY <1>0, <1>1, <1>4 DEF TypeOK, helpers
<1>6. ASSUME NEW d \in Conns PROVE Stage(d)'
  <2>1. Stage(d) /\ (Queued("add", d)' <=> Queued("add", d))
                 /\ (Queued("remove", d)' <=> Queued("remove", d))
    BY <1>0, SameQueue DEF IInv
  <2> QED
    BY <1>0, <1>1, <1>2, <2>1 DEF Stage
<1>7. ASSUME NEW d \in Conns PROVE Helpers(d)'
  <2>1. Helpers(d) /\ todo[d] \in Nat
    BY <1>0 DEF IInv, TypeOK
  <2> QED
    BY <1>0, <1>1, <1>2, <2>1 DEF Helpers, Running, helpers
<1>8. ASSUME NEW d \in Conns PROVE Told(d)'
  <2>1. Told(d)
    BY DEF IInv
  <2> QED
    BY <1>0, <1>1, <1>2, <2>1 DEF Told, Leaving, helpers
<1>9. CountedOnce'
  BY <1>4 DEF CountedOnce
<1> QED
  BY <1>0, <1>5, <1>6, <1>7, <1>8, <1>9, SameQueue DEF IInv

\* The helpers start when the reply is written, and are stopped before the
\* connection closes.
LEMMA SwitchesKeep ==
    ASSUME IInv, NEW c \in Conns, Switches(c)
    PROVE  IInv'
<1>0. /\ TypeOK /\ QueueShape /\ RemovalIsLast /\ CountedOnce
      /\ UNCHANGED <<peer, todo, evicted, shard>>
  BY DEF IInv, Switches, Greet, StopTasks, FlushTimesOut
<1>1. TypeOK'
  <2>1. CASE Greet(c)
    BY <1>0, <2>1 DEF TypeOK, Greet, TaskAt, shard
  <2>2. CASE StopTasks(c)
    BY <1>0, <2>2 DEF TypeOK, StopTasks, Stopped, TaskAt, shard
  <2>3. CASE FlushTimesOut(c)
    <3>1. 0 \in 0..LineCap
      BY ConnectionAssumption
    <3> QED
      BY <1>0, <2>3, <3>1 DEF TypeOK, FlushTimesOut, TaskAt, shard
  <2> QED
    BY <2>1, <2>2, <2>3 DEF Switches
<1>2. ASSUME NEW d \in Conns PROVE Stage(d)'
  <2>1. Stage(d) /\ (Queued("add", d)' <=> Queued("add", d))
                 /\ (Queued("remove", d)' <=> Queued("remove", d))
    BY <1>0, SameQueue DEF IInv, shard
  <2> QED
    BY <1>0, <2>1 DEF TypeOK, Stage, Switches, Greet, StopTasks, FlushTimesOut, shard
<1>3. ASSUME NEW d \in Conns PROVE Helpers(d)'
  <2>1. Helpers(d) /\ todo[d] \in Nat
    BY <1>0 DEF IInv, TypeOK
  <2> QED
    BY <1>0, <2>1
       DEF TypeOK, Helpers, Running, Switches, Greet, StopTasks, FlushTimesOut, Stopped
<1>4. ASSUME NEW d \in Conns PROVE Told(d)'
  <2>1. Told(d)
    BY DEF IInv
  <2> QED
    BY <1>0, <2>1
       DEF TypeOK, Told, Leaving, Switches, Greet, StopTasks, FlushTimesOut, Stopped, shard
<1>5. CountedOnce'
  <2>1. \A d \in Conns : Claimed(d)' <=> Claimed(d)
    BY <1>0 DEF TypeOK, Claimed, Switches, Greet, StopTasks, FlushTimesOut
  <2> QED
    BY <1>0, <2>1, SameCount DEF shard
<1> QED
  BY <1>0, <1>1, <1>2, <1>3, <1>4, <1>5, SameQueue DEF IInv, shard

\* A message for the shard is sent where the stage allows it.
LEMMA SendsKeep ==
    ASSUME IInv, NEW c \in Conns, Sends(c)
    PROVE  IInv'
<1>0. /\ TypeOK /\ QueueShape /\ RemovalIsLast /\ CountedOnce
      /\ Stage(c) /\ Helpers(c)
      /\ UNCHANGED <<peer, writer, forwarder, lines, evicted, slot, receivers>>
  BY DEF IInv, Sends, SendAdd, SendData, SendRemove, SendStats, helpers
<1>1. PICK kind \in {"add", "remove", "data", "stats"} :
          /\ Enqueue(kind, c)
          /\ kind = "add" => task[c] = "claimed" /\ task' = [task EXCEPT ![c] = "adding"]
          /\ kind = "remove" => task[c] = "releasing" /\ task' = [task EXCEPT ![c] = "released"]
          /\ kind = "data" => todo[c] > 0 /\ todo' = [todo EXCEPT ![c] = @ - 1]
          /\ kind = "stats" => ticker[c] = "asking" /\ ticker' = [ticker EXCEPT ![c] = "asked"]
          /\ kind \in {"data", "stats"} => task' = task
          /\ kind # "data" => todo' = todo
          /\ kind # "stats" => ticker' = ticker
  BY DEF Sends, SendAdd, SendData, SendRemove, SendStats, helpers
<1>2. kind = "data" => task[c] = "reading"
  BY <1>0, <1>1 DEF Helpers
<1>3. /\ queue' \in Seq(ShardMsg) /\ Len(queue') <= QueueCap
      /\ \A k, d : Queued(k, d)' <=> Queued(k, d) \/ (k = kind /\ d = c)
  BY <1>0, <1>1, EnqueueFacts
<1>4. QueueShape' /\ RemovalIsLast'
  <2>1. kind \in {"add", "remove"} => ~Queued(kind, c)
    BY <1>0, <1>1 DEF Stage
  <2>2. kind # "stats" => ~Queued("remove", c)
    BY <1>0, <1>1, <1>2 DEF Stage
  <2> QED
    BY <1>0, <1>1, <2>1, <2>2, EnqueueKeeps
<1>5. TypeOK'
  <2>1. CASE kind = "add"
    BY <1>0, <1>1, <1>3, <2>1 DEF TypeOK, TaskAt
  <2>2. CASE kind = "remove"
    BY <1>0, <1>1, <1>3, <2>2 DEF TypeOK, TaskAt
  <2>3. CASE kind = "data"
    <3>1. todo \in [Conns -> 0..MaxBurst] /\ todo[c] - 1 \in 0..MaxBurst
      BY <1>0, <1>1, <2>3, ConnectionAssumption DEF TypeOK
    <3>2. todo' \in [Conns -> 0..MaxBurst]
      BY <1>1, <2>3, <3>1
    <3> QED
      BY <1>0, <1>1, <1>3, <2>3, <3>2 DEF TypeOK
  <2>4. CASE kind = "stats"
    BY <1>0, <1>1, <1>3, <2>4 DEF TypeOK
  <2> QED
    BY <2>1, <2>2, <2>3, <2>4
<1>6. ASSUME NEW d \in Conns PROVE Stage(d)'
  <2>1. Stage(d)
    BY DEF IInv
  <2>2. /\ Queued("add", d)' <=> Queued("add", d) \/ (kind = "add" /\ d = c)
        /\ Queued("remove", d)' <=> Queued("remove", d) \/ (kind = "remove" /\ d = c)
    BY <1>3
  <2> QED
    BY <1>0, <1>1, <2>1, <2>2 DEF Stage, TypeOK
<1>7. ASSUME NEW d \in Conns PROVE Helpers(d)'
  <2>1. Helpers(d) /\ todo[d] \in Nat
    BY <1>0 DEF IInv, TypeOK
  <2> QED
    BY <1>0, <1>1, <1>2, <2>1 DEF Helpers, Running, TypeOK
<1>8. ASSUME NEW d \in Conns PROVE Told(d)'
  <2>1. Told(d)
    BY DEF IInv
  <2> QED
    BY <1>0, <1>1, <2>1 DEF Told, Leaving, TypeOK
<1>9. CountedOnce'
  <2>1. \A d \in Conns : Claimed(d)' <=> Claimed(d)
    BY <1>0, <1>1 DEF TypeOK, Claimed
  <2> QED
    BY <1>0, <2>1, SameCount
<1> QED
  BY <1>4, <1>5, <1>6, <1>7, <1>8, <1>9 DEF IInv

\* A line more in a writer's channel, if there is room.
LEMMA TrySendType ==
    ASSUME TypeOK, NEW c \in Conns, TrySend(c)
    PROVE  lines' \in [Conns -> 0..LineCap]
BY ConnectionAssumption DEF TypeOK, TrySend

\* Lines, results, heartbeats and the peer leave reader and shard alone.
LEMMA WorksKeep ==
    ASSUME IInv, NEW c \in Conns, Works(c)
    PROVE  IInv'
<1> USE DEF Writer, Forwarder
<1>0. TypeOK /\ QueueShape /\ RemovalIsLast /\ CountedOnce
  BY DEF IInv
<1>1. UNCHANGED <<task, shard>>
  BY DEF Works, Read, ReadOffer, Heartbeat, StatsTick, StatsYes, StatsNo, WriterTakes,
         WriterWrote, WriterEnds, ForwarderTakes, ForwarderSends, PeerChanges
<1>2. TypeOK'
  <2>1. CASE \E n \in 0..MaxBurst : Read(c, n)
    BY <1>0, <2>1 DEF TypeOK, Read, helpers, shard
  <2>2. CASE ReadOffer(c) \/ Heartbeat(c) \/ StatsYes(c)
    <3>1. lines' \in [Conns -> 0..LineCap]
      BY <1>0, <2>2, TrySendType DEF ReadOffer, Heartbeat, StatsYes, TypeOK
    <3> QED
      BY <1>0, <2>2, <3>1 DEF TypeOK, ReadOffer, Heartbeat, StatsYes, shard
  <2>3. CASE StatsTick(c) \/ StatsNo(c)
    BY <1>0, <2>3 DEF TypeOK, StatsTick, StatsNo, shard
  <2>4. CASE Writer(c)
    <3>1. lines \in [Conns -> 0..LineCap] /\ lines[c] \in 0..LineCap /\ 0 \in 0..LineCap
      BY <1>0, ConnectionAssumption DEF TypeOK
    <3>2. lines' \in [Conns -> 0..LineCap]
      BY <2>4, <3>1, ConnectionAssumption DEF WriterTakes, WriterWrote, WriterEnds
    <3> QED
      BY <1>0, <2>4, <3>2 DEF TypeOK, WriterTakes, WriterWrote, WriterEnds, shard
  <2>5. CASE Forwarder(c)
    <3>1. lines \in [Conns -> 0..LineCap] /\ lines[c] \in 0..LineCap
      BY <1>0, ConnectionAssumption DEF TypeOK
    <3>2. lines' \in [Conns -> 0..LineCap]
      BY <2>5, <3>1, ConnectionAssumption DEF ForwarderTakes, ForwarderSends
    <3> QED
      BY <1>0, <2>5, <3>2 DEF TypeOK, ForwarderTakes, ForwarderSends, shard
  <2>6. CASE \E p \in Faults : PeerChanges(c, p)
    BY <1>0, <2>6, ConnectionAssumption DEF TypeOK, PeerChanges, helpers, shard
  <2> QED
    BY <2>1, <2>2, <2>3, <2>4, <2>5, <2>6 DEF Works
<1>3. ASSUME NEW d \in Conns PROVE Stage(d)'
  <2>1. Stage(d) /\ (Queued("add", d)' <=> Queued("add", d))
                 /\ (Queued("remove", d)' <=> Queued("remove", d))
    BY <1>1, SameQueue DEF IInv, shard
  <2> QED
    BY <1>1, <2>1 DEF Stage, shard
<1>4. ASSUME NEW d \in Conns PROVE Helpers(d)'
  <2>1. Helpers(d) /\ todo[d] \in Nat
    BY <1>0 DEF IInv, TypeOK
  <2>2. CASE (\E n \in 0..MaxBurst : Read(c, n)) \/ (\E p \in Faults : PeerChanges(c, p))
    BY <1>0, <2>1, <2>2 DEF Helpers, TypeOK, Read, AtRead, PeerChanges, helpers
  <2>3. CASE ReadOffer(c) \/ Heartbeat(c) \/ StatsTick(c) \/ StatsYes(c) \/ StatsNo(c)
    BY <1>0, <2>1, <2>3
       DEF Helpers, Running, TypeOK, ReadOffer, Heartbeat, StatsTick, StatsYes, StatsNo
  <2>4. CASE Writer(c) \/ Forwarder(c)
    BY <1>0, <2>1, <2>4
       DEF Helpers, Running, TypeOK, WriterTakes, WriterWrote, WriterEnds, ForwarderTakes,
           ForwarderSends
  <2> QED
    BY <2>2, <2>3, <2>4 DEF Works
<1>5. ASSUME NEW d \in Conns PROVE Told(d)'
  <2>1. Told(d)
    BY DEF IInv
  <2>2. CASE StatsTick(c) \/ StatsYes(c) \/ StatsNo(c)
    <3>1. evicted'[d] \/ ticker'[d] = "no" => evicted[d] \/ ticker[d] = "no"
      BY <1>0, <2>2 DEF TypeOK, StatsTick, StatsYes, StatsNo
    <3> QED
      BY <1>1, <2>1, <3>1 DEF Told, Leaving, shard
  <2>3. CASE UNCHANGED <<ticker, evicted>>
    BY <1>1, <2>1, <2>3 DEF Told, Leaving, shard
  <2> QED
    BY <2>2, <2>3
       DEF Works, Read, ReadOffer, Heartbeat, WriterTakes, WriterWrote, WriterEnds,
           ForwarderTakes, ForwarderSends, PeerChanges, helpers
<1>6. CountedOnce'
  BY <1>0, <1>1, SameCount DEF Claimed, shard
<1> QED
  BY <1>0, <1>1, <1>2, <1>3, <1>4, <1>5, <1>6, SameQueue DEF IInv, shard

\* Connections that are not followed only fill the queue.
LEMMA OtherSendsKeeps ==
    ASSUME IInv, NEW o \in Others, NEW kind \in {"add", "data"}, OtherSends(o, kind)
    PROVE  IInv'
<1>0. /\ TypeOK /\ QueueShape /\ RemovalIsLast /\ CountedOnce
      /\ UNCHANGED <<task, peer, todo, helpers, slot, receivers>>
      /\ o \notin Conns /\ Enqueue(kind, o)
  BY ConnectionAssumption DEF IInv, OtherSends
<1>1. /\ queue' \in Seq(ShardMsg) /\ Len(queue') <= QueueCap
      /\ \A k, d : Queued(k, d)' <=> Queued(k, d) \/ (k = kind /\ d = o)
  <2>1. kind \in {"add", "remove", "data", "stats"} /\ o \in Conns \cup Others
    OBVIOUS
  <2> QED
    BY <1>0, <2>1, EnqueueFacts
<1>2. QueueShape' /\ RemovalIsLast'
  <2>1. kind \in {"add", "remove", "data", "stats"} /\ o \in Conns \cup Others
    OBVIOUS
  <2> QED
    BY <1>0, <2>1, EnqueueKeeps
<1>3. TypeOK'
  BY <1>0, <1>1 DEF TypeOK, helpers
<1>4. ASSUME NEW d \in Conns PROVE Stage(d)' /\ Helpers(d)' /\ Told(d)'
  <2>1. Stage(d) /\ Helpers(d) /\ Told(d)
    BY DEF IInv
  <2>2. /\ Queued("add", d)' <=> Queued("add", d)
        /\ Queued("remove", d)' <=> Queued("remove", d)
    BY <1>0, <1>1
  <2>3. Stage(d)'
    BY <1>0, <2>1, <2>2 DEF Stage
  <2> QED
    BY <1>0, <2>1, <2>3 DEF Helpers, Told, Leaving, Running, helpers
<1>5. CountedOnce'
  BY <1>0, SameCount DEF Claimed
<1> QED
  BY <1>2, <1>3, <1>4, <1>5 DEF IInv

\* What the shard does with the head of its queue, by its kind.
LEMMA ShardCases ==
    ASSUME IInv, ShardStep
    PROVE  \E c \in Conns \cup Others :
              /\ Head(queue).conn = c
              /\ \/ /\ Head(queue) = [kind |-> "add", conn |-> c]
                    /\ \/ c \in Conns /\ ShardRefuses(c)
                       \/ \E victims \in SUBSET SlotHolders : ShardAdmits(c, victims)
                 \/ c \in Conns /\ Head(queue) = [kind |-> "remove", conn |-> c] /\ ShardRemoves(c)
                 \/ c \in Conns /\ Head(queue) = [kind |-> "stats", conn |-> c] /\ ShardAnswers(c)
                 \/ Head(queue) = [kind |-> "data", conn |-> c] /\ UNCHANGED <<slot, ticker>>
<1>1. /\ queue \in Seq(ShardMsg) /\ queue # <<>> /\ queue' = Tail(queue) /\ QueueShape
  BY DEF IInv, TypeOK, ShardStep
<1>2. Head(queue) \in ShardMsg /\ Head(queue) = queue[1] /\ 1 \in 1..Len(queue)
  BY <1>1, Taken
<1> DEFINE c == Head(queue).conn
           kind == Head(queue).kind
<1>3. c \in Conns \cup Others /\ Head(queue) = [kind |-> kind, conn |-> c]
  BY <1>2 DEF ShardMsg
<1>4. kind \in {"remove", "stats"} => c \in Conns
  BY <1>1, <1>2 DEF QueueShape
<1>5. \/ /\ kind = "add"
         /\ \/ c \in Conns /\ ShardRefuses(c)
            \/ \E victims \in SUBSET SlotHolders : ShardAdmits(c, victims)
      \/ kind = "remove" /\ ShardRemoves(c)
      \/ kind = "stats" /\ ShardAnswers(c)
      \/ kind = "data" /\ UNCHANGED <<slot, ticker>>
  BY DEF ShardStep
<1> HIDE DEF c, kind
<1> QED
  BY <1>3, <1>4, <1>5 DEF c

\* What a step of the shard does to the slots: the connection that asked gets its
\* answer, holders may lose theirs, a removal ends one.
LEMMA ShardSlots ==
    ASSUME IInv, ShardStep
    PROVE  /\ slot' \in [Conns -> {"none", "refused", "held", "lost", "over"}]
           /\ ticker' \in [Conns -> {"off", "run", "asking", "asked", "yes", "no", "gone"}]
           /\ \A d \in Conns :
                /\ Queued("add", d)' <=> Queued("add", d) /\ slot'[d] = "none"
                /\ Queued("remove", d)' <=> Queued("remove", d) /\ slot'[d] # "over"
                /\ \/ slot'[d] = slot[d]
                   \/ slot[d] = "none" /\ Queued("add", d) /\ slot'[d] \in {"held", "refused"}
                   \/ slot[d] = "held" /\ slot'[d] = "lost"
                   \/ Queued("remove", d) /\ slot'[d] = "over"
                /\ \/ ticker'[d] = ticker[d]
                   \/ ticker[d] = "asked" /\ ticker'[d] = "yes"
                   \/ /\ ticker[d] = "asked" /\ ticker'[d] = "no"
                      /\ slot[d] # "held" /\ slot'[d] = slot[d]
<1>1. /\ TypeOK /\ QueueShape /\ queue \in Seq(ShardMsg) /\ queue # <<>> /\ queue' = Tail(queue)
      /\ \A d \in Conns : Stage(d)
  BY DEF IInv, TypeOK, ShardStep
<1>2. /\ slot \in [Conns -> {"none", "refused", "held", "lost", "over"}]
      /\ ticker \in [Conns -> {"off", "run", "asking", "asked", "yes", "no", "gone"}]
  BY <1>1 DEF TypeOK
<1>3. \A k, d : Queued(k, d) <=> Queued(k, d)' \/ Head(queue) = [kind |-> k, conn |-> d]
  BY <1>1, Taken
<1>4. \A d \in Conns : /\ Queued("add", d) <=> task[d] = "adding" /\ slot[d] = "none"
                       /\ Queued("remove", d) => slot[d] \in {"held", "lost"}
  BY <1>1 DEF Stage
<1>5. PICK c \in Conns \cup Others :
          \/ /\ Head(queue) = [kind |-> "add", conn |-> c]
             /\ \/ c \in Conns /\ ShardRefuses(c)
                \/ \E victims \in SUBSET SlotHolders : ShardAdmits(c, victims)
          \/ c \in Conns /\ Head(queue) = [kind |-> "remove", conn |-> c] /\ ShardRemoves(c)
          \/ c \in Conns /\ Head(queue) = [kind |-> "stats", conn |-> c] /\ ShardAnswers(c)
          \/ Head(queue) = [kind |-> "data", conn |-> c] /\ UNCHANGED <<slot, ticker>>
  BY ShardCases
<1>6. CASE /\ Head(queue) = [kind |-> "add", conn |-> c]
           /\ \/ c \in Conns /\ ShardRefuses(c)
              \/ \E victims \in SUBSET SlotHolders : ShardAdmits(c, victims)
  <2>1. /\ \A d : Queued("remove", d)' <=> Queued("remove", d)
        /\ \A d : Queued("add", d) <=> Queued("add", d)' \/ d = c
    BY <1>3, <1>6
  <2>2. c \in Conns => ~Queued("add", c)' /\ slot[c] = "none"
    BY <1>1, <1>4, <1>6, <2>1, TakenOnce
  <2>3. ticker' = ticker
    BY <1>6 DEF ShardRefuses, ShardAdmits
  <2>4. CASE c \in Conns /\ ShardRefuses(c)
    <3>1. slot' = [slot EXCEPT ![c] = "refused"]
      BY <2>4 DEF ShardRefuses
    <3> QED
      BY <1>2, <1>4, <2>1, <2>2, <2>3, <2>4, <3>1
  <2>5. CASE \E victims \in SUBSET SlotHolders : ShardAdmits(c, victims)
    <3>1. PICK victims \in SUBSET SlotHolders : ShardAdmits(c, victims)
      BY <2>5
    <3>2. /\ slot' = [d \in Conns |-> IF d = c THEN "held"
                                     ELSE IF d \in victims THEN "lost" ELSE slot[d]]
          /\ \A d \in victims : d \in Conns /\ slot[d] = "held"
      BY <3>1 DEF ShardAdmits, SlotHolders
    <3> QED
      BY <1>2, <1>4, <2>1, <2>2, <2>3, <3>2
  <2> QED
    BY <1>6, <2>4, <2>5
<1>7. CASE c \in Conns /\ Head(queue) = [kind |-> "remove", conn |-> c] /\ ShardRemoves(c)
  <2>1. /\ \A d : Queued("add", d)' <=> Queued("add", d)
        /\ \A d : Queued("remove", d) <=> Queued("remove", d)' \/ d = c
        /\ ~Queued("remove", c)' /\ Queued("remove", c)
    BY <1>1, <1>3, <1>7, TakenOnce
  <2>2. slot' = [slot EXCEPT ![c] = "over"] /\ ticker' = ticker
    BY <1>7 DEF ShardRemoves
  <2> QED
    BY <1>2, <1>4, <1>7, <2>1, <2>2
<1>8. CASE c \in Conns /\ Head(queue) = [kind |-> "stats", conn |-> c] /\ ShardAnswers(c)
  <2>1. \A k \in {"add", "remove"}, d \in Conns : Queued(k, d)' <=> Queued(k, d)
    BY <1>3, <1>8
  <2>2. /\ slot' = slot
        /\ ticker' = IF ticker[c] # "asked" THEN ticker
                     ELSE [ticker EXCEPT ![c] = IF slot[c] = "held" THEN "yes" ELSE "no"]
    BY <1>8 DEF ShardAnswers
  <2> QED
    BY <1>2, <1>4, <1>8, <2>1, <2>2
<1>9. CASE Head(queue) = [kind |-> "data", conn |-> c] /\ UNCHANGED <<slot, ticker>>
  <2>1. \A k \in {"add", "remove"}, d \in Conns : Queued(k, d)' <=> Queued(k, d)
    BY <1>3, <1>9
  <2> QED
    BY <1>2, <1>4, <1>9, <2>1
<1> QED
  BY <1>5, <1>6, <1>7, <1>8, <1>9

\* The shard answers, and only about what was asked.
LEMMA ShardStepKeeps ==
    ASSUME IInv, ShardStep
    PROVE  IInv'
<1>0. /\ TypeOK /\ QueueShape /\ RemovalIsLast /\ CountedOnce
      /\ queue \in Seq(ShardMsg) /\ queue # <<>> /\ queue' = Tail(queue)
      /\ UNCHANGED <<task, peer, todo, writer, forwarder, lines, evicted, receivers>>
  BY DEF IInv, TypeOK, ShardStep
<1>1. QueueShape' /\ RemovalIsLast'
  BY <1>0, TakeKeeps
<1>2. TypeOK'
  <2>1. queue' \in Seq(ShardMsg) /\ Len(queue') <= QueueCap
    BY <1>0, Taken, ConnectionAssumption DEF TypeOK
  <2> QED
    BY <1>0, <2>1, ShardSlots DEF TypeOK
<1>3. ASSUME NEW d \in Conns PROVE Stage(d)' /\ Helpers(d)' /\ Told(d)'
  <2>1. /\ Stage(d) /\ Helpers(d) /\ Told(d)
        /\ task'[d] = task[d] /\ todo'[d] = todo[d] /\ writer'[d] = writer[d]
        /\ forwarder'[d] = forwarder[d] /\ evicted'[d] = evicted[d]
        /\ slot[d] \in {"none", "refused", "held", "lost", "over"}
    BY <1>0 DEF IInv, TypeOK
  <2>2. /\ Queued("add", d)' <=> Queued("add", d) /\ slot'[d] = "none"
        /\ Queued("remove", d)' <=> Queued("remove", d) /\ slot'[d] # "over"
        /\ \/ slot'[d] = slot[d]
           \/ slot[d] = "none" /\ Queued("add", d) /\ slot'[d] \in {"held", "refused"}
           \/ slot[d] = "held" /\ slot'[d] = "lost"
           \/ Queued("remove", d) /\ slot'[d] = "over"
        /\ \/ ticker'[d] = ticker[d]
           \/ ticker[d] = "asked" /\ ticker'[d] = "yes"
           \/ /\ ticker[d] = "asked" /\ ticker'[d] = "no"
              /\ slot[d] # "held" /\ slot'[d] = slot[d]
    BY ShardSlots
  <2>3. Stage(d)'
    BY <2>1, <2>2 DEF Stage
  <2>4. Helpers(d)'
    BY <2>1, <2>2 DEF Helpers, Running
  <2>5. Told(d)'
    <3>1. CASE ticker'[d] = ticker[d] \/ ticker'[d] = "yes"
      BY <2>1, <2>2, <3>1 DEF Told, Leaving, Stage
    <3>2. CASE ticker[d] = "asked" /\ ticker'[d] = "no" /\ slot[d] # "held" /\ slot'[d] = slot[d]
      <4>1. task[d] \in {"reading", "releasing", "released", "stopping"}
        BY <2>1, <3>2 DEF Helpers, Running
      <4> QED
        BY <2>1, <3>2, <4>1 DEF Told, Leaving, Stage
    <3> QED
      BY <2>2, <3>1, <3>2
  <2> QED
    BY <2>3, <2>4, <2>5
<1>4. CountedOnce'
  BY <1>0, SameCount DEF Claimed
<1> QED
  BY <1>1, <1>2, <1>3, <1>4 DEF IInv

-----------------------------------------------------------------------------
(* The theorems *)

\* Before the first connection is accepted.
LEMMA InitInv == Init => IInv
<1> SUFFICES ASSUME Init PROVE IInv
  OBVIOUS
<1>1. queue = <<>> /\ Len(queue) = 0 /\ 1..Len(queue) = {} /\ queue \in Seq(ShardMsg)
  BY DEF Init
<1>2. \A k, d : ~Queued(k, d)
  BY <1>1 DEF Queued
<1>3. TypeOK
  <2>1. 0 \in 0..MaxBurst /\ 0 \in 0..LineCap /\ Len(queue) <= QueueCap
    BY <1>1, ConnectionAssumption
  <2> QED
    BY <1>1, <2>1 DEF Init, TypeOK, TaskAt
<1>4. \A c \in Conns : Stage(c) /\ Helpers(c) /\ Told(c)
  BY <1>2 DEF Init, Stage, Helpers, Told, Running
<1>5. QueueShape /\ RemovalIsLast
  BY <1>1 DEF QueueShape, RemovalIsLast
<1>6. CountedOnce
  <2>1. {c \in Conns : Claimed(c)} = {}
    BY DEF Init, Claimed
  <2> QED
    BY <2>1, FS_EmptySet DEF Init, CountedOnce
<1> QED
  BY <1>3, <1>4, <1>5, <1>6 DEF IInv

\* Every step of every task keeps the invariant.
LEMMA NextInv == IInv /\ [Next]_vars => IInv'
<1> SUFFICES ASSUME IInv, [Next]_vars PROVE IInv'
  OBVIOUS
<1>1. CASE Next
  BY <1>1, AllSteps, MovesKeep, CountsKeep, SwitchesKeep, SendsKeep, WorksKeep, ShardStepKeeps,
     OtherSendsKeeps
<1>2. CASE UNCHANGED vars
  <2>1. \A c \in Conns : Stage(c)' /\ Helpers(c)' /\ Told(c)'
    BY <1>2, SameQueue DEF IInv, vars, Stage, Helpers, Told, Leaving, Running
  <2>2. TypeOK'
    BY <1>2 DEF IInv, vars, TypeOK
  <2>3. CountedOnce'
    BY <1>2, SameCount DEF IInv, vars, Claimed
  <2> QED
    BY <1>2, <2>1, <2>2, <2>3, SameQueue DEF IInv, vars
<1> QED
  BY <1>1, <1>2

\* The inductive invariant holds through every order of steps of the tasks of all
\* connections and of the shard.
THEOREM ConnectionInvariant == Spec => []IInv
<1> QED
  BY InitInv, NextInv, PTL DEF Spec

\* Queue and channels stay within the capacities main.rs gives them, for every
\* capacity and every number of connections.
THEOREM ConnectionTypeCorrect == Spec => []TypeOK
<1>1. IInv => TypeOK
  BY DEF IInv
<1> QED
  BY <1>1, ConnectionInvariant, PTL

\* The load the router reads is the number of claims not given back, on every path
\* out of handle_client.
THEOREM ClaimsCountedOnce == Spec => []CountedOnce
<1>1. IInv => CountedOnce
  BY DEF IInv
<1> QED
  BY <1>1, ConnectionInvariant, PTL

\* No path out of handle_client leaves a receiver behind in the shard.
THEOREM NoSlotLeftBehind == Spec => []NoSlotLeft
<1>1. IInv => NoSlotLeft
  BY DEF IInv, NoSlotLeft, Stage, Claimed
<1> QED
  BY <1>1, ConnectionInvariant, PTL

\* A connection's removal is the last thing the shard hears from its reader.
THEOREM RemovalComesLast == Spec => []RemovalIsLast
<1>1. IInv => RemovalIsLast
  BY DEF IInv
<1> QED
  BY <1>1, ConnectionInvariant, PTL

\* Neither a busy shard nor a stats request overtaken by the connection's own removal
\* evicts a healthy feeder.
THEOREM EvictionsJustified == Spec => []EvictedWasReplaced
<1>1. IInv => EvictedWasReplaced
  BY DEF IInv, EvictedWasReplaced, Told
<1> QED
  BY <1>1, ConnectionInvariant, PTL

\* A closed connection leaves no ticker, writer or forwarder running.
THEOREM NoTaskLeftRunning == Spec => []NothingLeftRunning
<1>1. IInv => NothingLeftRunning
  BY DEF IInv, NothingLeftRunning, Helpers
<1> QED
  BY <1>1, ConnectionInvariant, PTL

\* A step of the system is a step of the Lease or leaves the slots alone, when every
\* connection of the shard is one of Conns.
LEMMA StepIsLeaseStep ==
    ASSUME Others = {}, IInv, [Next]_vars
    PROVE  [Leases!Next]_slot
<1>1. CASE ShardStep
  <2>1. /\ queue \in Seq(ShardMsg) /\ queue # <<>> /\ queue' = Tail(queue)
        /\ slot \in [Conns -> {"none", "refused", "held", "lost", "over"}]
        /\ \A d \in Conns : Stage(d)
    BY <1>1 DEF IInv, TypeOK, ShardStep
  <2>2. \A k, d : Head(queue) = [kind |-> k, conn |-> d] => Queued(k, d)
    BY <2>1, Taken
  <2>3. \A d \in Conns : /\ Queued("add", d) => slot[d] = "none"
                         /\ Queued("remove", d) => slot[d] \in {"held", "lost"}
    BY <2>1 DEF Stage
  <2>4. PICK c \in Conns :
            \/ /\ Head(queue) = [kind |-> "add", conn |-> c]
               /\ \/ ShardRefuses(c)
                  \/ \E victims \in SUBSET SlotHolders : ShardAdmits(c, victims)
            \/ Head(queue) = [kind |-> "remove", conn |-> c] /\ ShardRemoves(c)
            \/ Head(queue) = [kind |-> "stats", conn |-> c] /\ ShardAnswers(c)
            \/ Head(queue) = [kind |-> "data", conn |-> c] /\ UNCHANGED <<slot, ticker>>
    BY <1>1, ShardCases
  <2>5. SlotHolders = Leases!Holders
    BY DEF SlotHolders, Leases!Holders
  <2>6. CASE Head(queue) = [kind |-> "add", conn |-> c] /\ ShardRefuses(c)
    <3>1. Leases!Refuse(c)
      BY <2>2, <2>3, <2>5, <2>6 DEF ShardRefuses, Leases!Refuse
    <3> QED
      BY <3>1 DEF Leases!Next
  <2>7. CASE /\ Head(queue) = [kind |-> "add", conn |-> c]
             /\ \E victims \in SUBSET SlotHolders : ShardAdmits(c, victims)
    <3>1. PICK victims \in SUBSET SlotHolders : ShardAdmits(c, victims)
      BY <2>7
    <3>2. Leases!Grant(c, victims)
      BY <2>2, <2>3, <2>7, <3>1 DEF ShardAdmits, Leases!Grant
    <3> QED
      BY <2>5, <3>2 DEF Leases!Next
  <2>8. CASE Head(queue) = [kind |-> "remove", conn |-> c] /\ ShardRemoves(c)
    <3>1. Leases!End(c)
      BY <2>2, <2>3, <2>8 DEF ShardRemoves, Leases!End
    <3> QED
      BY <3>1 DEF Leases!Next
  <2>9. CASE UNCHANGED slot
    BY <2>9
  <2> QED
    BY <2>4, <2>6, <2>7, <2>8, <2>9 DEF ShardAnswers
<1>2. CASE \E c \in Conns : Moves(c) \/ Counts(c) \/ Switches(c)
  BY <1>2
     DEF Moves, Counts, Switches, Accept, HandshakeFails, Added, GreetFails, ReadEnds, Idle,
         Evicted, Flushed, Claim, Refused, GiveBack, Greet, StopTasks, FlushTimesOut, shard
<1>3. CASE \E c \in Conns : Sends(c)
  BY <1>3 DEF Sends, SendAdd, SendData, SendRemove, SendStats
<1>4. CASE \E c \in Conns : Works(c)
  BY <1>4
     DEF Works, Writer, Forwarder, Read, ReadOffer, Heartbeat, StatsTick, StatsYes, StatsNo,
         WriterTakes, WriterWrote, WriterEnds, ForwarderTakes, ForwarderSends, PeerChanges, shard
<1>5. CASE UNCHANGED vars
  BY <1>5 DEF vars
<1> QED
  BY <1>1, <1>2, <1>3, <1>4, <1>5, AllSteps

\* The queue, the tasks and the shard together implement the Lease: with every
\* connection of the shard followed, what becomes of the slots is what the Lease
\* allows, however refusals, failed greetings, evictions and removals are ordered.
THEOREM ImplementsLease ==
    ASSUME Others = {}
    PROVE  Spec => LeaseKept
<1>1. Init => Leases!Init
  BY DEF Init, Leases!Init
<1>2. IInv /\ [Next]_vars => [Leases!Next]_slot
  BY StepIsLeaseStep
<1> QED
  BY <1>1, <1>2, ConnectionInvariant, PTL DEF Spec, LeaseKept, Leases!Spec

-----------------------------------------------------------------------------
(* Waiting *)

\* A ticker that has asked has its question in the queue, and the reader of a connection
\* that was not told to go has a ticker that will ask.
Asks(c) ==
    /\ ticker[c] = "asked" => Queued("stats", c)
    /\ task[c] = "reading" => evicted[c] \/ Running(ticker[c])

\* A task that waits for the shard has its message in the queue, or the answer.
NobodyForgotten ==
    \A c \in Conns :
        /\ task[c] = "adding" => Queued("add", c) \/ slot[c] \in {"refused", "held", "lost"}
        /\ Asks(c)

\* No step takes a question out of the queue and leaves the ticker waiting, or stops a
\* ticker behind its reader's back.
LEMMA AsksKept ==
    ASSUME IInv, \A c \in Conns : Asks(c), [Next]_vars, NEW d \in Conns
    PROVE  Asks(d)'
<1>0. TypeOK /\ Asks(d)
  BY DEF IInv
<1>1. ASSUME Queued("stats", d) => Queued("stats", d)',
             ticker'[d] = "asked" => ticker[d] = "asked",
             evicted[d] => evicted'[d],
             task'[d] = "reading" => task[d] = "reading" \/ Running(ticker'[d]),
             Running(ticker[d]) => Running(ticker'[d]) \/ evicted'[d] \/ task'[d] # "reading"
      PROVE  Asks(d)'
  BY <1>0, <1>1 DEF Asks
<1>2. ASSUME NEW c \in Conns, Moves(c) \/ Counts(c) PROVE Asks(d)'
  <2>1. UNCHANGED <<ticker, evicted, queue>>
        \/ UNCHANGED <<ticker, evicted, queue, slot>>
    BY <1>2 DEF Moves, Counts, Accept, HandshakeFails, Added, GreetFails, ReadEnds, Idle,
                Evicted, Flushed, Claim, Refused, GiveBack, helpers, shard
  <2>2. task'[d] = "reading" => task[d] = "reading"
    BY <1>0, <1>2 DEF Moves, Counts, Accept, HandshakeFails, Added, GreetFails, ReadEnds, Idle,
                Evicted, Flushed, Claim, Refused, GiveBack, TypeOK
  <2>3. Queued("stats", d)' <=> Queued("stats", d)
    BY <2>1, SameQueue
  <2> QED
    BY <1>1, <2>1, <2>2, <2>3
<1>3. ASSUME NEW c \in Conns, Switches(c) PROVE Asks(d)'
  <2>1. queue' = queue /\ evicted' = evicted
    BY <1>3 DEF Switches, Greet, StopTasks, FlushTimesOut, shard
  <2>2. Queued("stats", d)' <=> Queued("stats", d)
    BY <2>1, SameQueue
  <2>3. /\ ticker'[d] = "asked" => ticker[d] = "asked"
        /\ task'[d] = "reading" => task[d] = "reading" \/ Running(ticker'[d])
        /\ Running(ticker[d]) => Running(ticker'[d]) \/ task'[d] # "reading"
    BY <1>0, <1>3 DEF Switches, Greet, StopTasks, FlushTimesOut, TypeOK, Running, Stopped
  <2> QED
    BY <1>1, <2>1, <2>2, <2>3
<1>4. ASSUME NEW c \in Conns, Sends(c) PROVE Asks(d)'
  <2>1. PICK kind \in {"add", "remove", "data", "stats"} :
            /\ Enqueue(kind, c) /\ evicted' = evicted
            /\ kind = "stats" => ticker' = [ticker EXCEPT ![c] = "asked"]
            /\ kind # "stats" => ticker' = ticker
            /\ task' = task \/ task' = [task EXCEPT ![c] = "adding"]
               \/ task' = [task EXCEPT ![c] = "released"]
    BY <1>4 DEF Sends, SendAdd, SendData, SendRemove, SendStats, helpers
  <2>2. \A k, e : Queued(k, e)' <=> Queued(k, e) \/ (k = kind /\ e = c)
    BY <1>0, <2>1, EnqueueFacts
  <2>3. task'[d] = "reading" => task[d] = "reading"
    BY <1>0, <2>1 DEF TypeOK
  <2>4. ticker'[d] = "asked" => Queued("stats", d)'
    BY <1>0, <2>1, <2>2 DEF TypeOK, Asks
  <2>5. Running(ticker[d]) => Running(ticker'[d])
    BY <1>0, <2>1 DEF TypeOK, Running
  <2> QED
    BY <1>0, <2>1, <2>3, <2>4, <2>5 DEF Asks
<1>5. ASSUME NEW c \in Conns, Works(c) PROVE Asks(d)'
  <2>1. queue' = queue /\ task' = task
    BY <1>5 DEF Works, Writer, Forwarder, Read, ReadOffer, Heartbeat, StatsTick, StatsYes,
                StatsNo, WriterTakes, WriterWrote, WriterEnds, ForwarderTakes, ForwarderSends,
                PeerChanges, shard
  <2>2. Queued("stats", d)' <=> Queued("stats", d)
    BY <2>1, SameQueue
  <2>3. \/ ticker' = ticker /\ evicted' = evicted
        \/ ticker' = [ticker EXCEPT ![c] = "asking"] /\ evicted' = evicted
        \/ ticker' = [ticker EXCEPT ![c] = "run"] /\ evicted' = evicted
        \/ ticker' = [ticker EXCEPT ![c] = "gone"] /\ evicted' = [evicted EXCEPT ![c] = TRUE]
    BY <1>5 DEF Works, Writer, Forwarder, Read, ReadOffer, Heartbeat, StatsTick, StatsYes,
                StatsNo, WriterTakes, WriterWrote, WriterEnds, ForwarderTakes, ForwarderSends,
                PeerChanges, helpers
  <2>4. /\ ticker'[d] = "asked" => ticker[d] = "asked"
        /\ evicted[d] => evicted'[d]
        /\ Running(ticker[d]) => Running(ticker'[d]) \/ evicted'[d]
    BY <1>0, <2>3 DEF TypeOK, Running
  <2> QED
    BY <1>1, <2>1, <2>2, <2>4
<1>6. ASSUME NEW o \in Others, NEW kind \in {"add", "data"}, OtherSends(o, kind) PROVE Asks(d)'
  <2>1. \A k, e : Queued(k, e)' <=> Queued(k, e) \/ (k = kind /\ e = o)
    <3>1. Enqueue(kind, o) /\ kind \in {"add", "remove", "data", "stats"} /\ o \in Conns \cup Others
      BY <1>6 DEF OtherSends
    <3> QED
      BY <1>0, <3>1, EnqueueFacts
  <2>2. UNCHANGED <<task, ticker, evicted>>
    BY <1>6 DEF OtherSends, helpers
  <2> QED
    BY <1>1, <2>1, <2>2
<1>7. ASSUME ShardStep PROVE Asks(d)'
  <2>1. /\ queue \in Seq(ShardMsg) /\ queue # <<>> /\ queue' = Tail(queue)
        /\ task' = task /\ evicted' = evicted
    BY <1>0, <1>7 DEF ShardStep, TypeOK
  <2>2. Queued("stats", d) <=> Queued("stats", d)' \/ Head(queue) = [kind |-> "stats", conn |-> d]
    BY <2>1, Taken
  <2>3. CASE Head(queue) = [kind |-> "stats", conn |-> d]
    <3>1. Head(queue).kind = "stats" /\ Head(queue).conn = d
      BY <2>3
    <3>2. ShardAnswers(d)
      BY <1>7, <3>1 DEF ShardStep
    <3>3. ticker'[d] # "asked" /\ (Running(ticker[d]) => Running(ticker'[d]))
      BY <1>0, <3>2 DEF ShardAnswers, TypeOK, Running
    <3> QED
      BY <1>0, <2>1, <3>3 DEF Asks
  <2>4. CASE Head(queue) # [kind |-> "stats", conn |-> d]
    <3>1. \/ ticker' = ticker
          \/ \E c, x : ticker' = [ticker EXCEPT ![c] = x] /\ x \in {"yes", "no"}
      BY <1>7 DEF ShardStep, ShardRefuses, ShardAdmits, ShardRemoves, ShardAnswers
    <3>2. /\ ticker'[d] = "asked" => ticker[d] = "asked"
          /\ Running(ticker[d]) => Running(ticker'[d])
      BY <1>0, <3>1 DEF TypeOK, Running
    <3> QED
      BY <1>1, <2>1, <2>2, <2>4, <3>2
  <2> QED
    BY <2>3, <2>4
<1>8. CASE UNCHANGED vars
  BY <1>0, <1>8 DEF vars, Asks, Queued
<1> QED
  BY <1>2, <1>3, <1>4, <1>5, <1>6, <1>7, <1>8, AllSteps

\* No wake-up is lost: whoever waits for the shard (handle_client for its AddReceiver,
\* the ticker for its stats) waits for a message that is still in the queue or has its
\* answer, however messages overtake each other; and a connection that reads on was told
\* of its eviction or still has the ticker that will learn of it.
THEOREM NoWakeupLost == Spec => []NobodyForgotten
<1> DEFINE AllAsk == \A c \in Conns : Asks(c)
<1>1. Init => AllAsk
  BY DEF Init, Asks
<1>2. IInv /\ AllAsk /\ [Next]_vars => AllAsk'
  BY AsksKept
<1>3. IInv /\ AllAsk => NobodyForgotten
  <2> SUFFICES ASSUME IInv, AllAsk, NEW c \in Conns
               PROVE  /\ task[c] = "adding"
                           => Queued("add", c) \/ slot[c] \in {"refused", "held", "lost"}
                      /\ Asks(c)
    BY DEF NobodyForgotten
  <2>1. Stage(c) /\ slot[c] \in {"none", "refused", "held", "lost", "over"}
    BY DEF IInv, TypeOK
  <2> QED
    BY <2>1 DEF Stage
<1> HIDE DEF AllAsk
<1> QED
  BY <1>1, <1>2, <1>3, ConnectionInvariant, PTL DEF Spec
===============================================================================
