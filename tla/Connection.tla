------------------------------ MODULE Connection ------------------------------
(***************************************************************************)
(* The tasks of one connection (crates/mlatd/src/main.rs, handle_client)   *)
(* and the shard they talk to through its bounded queue (shard.rs,         *)
(* run_shard).                                                             *)
(*                                                                         *)
(* A connection is up to four tasks: the reader (handle_client itself), a  *)
(* ticker (heartbeats, stats, the eviction check), a writer that owns the  *)
(* write half of the socket, and a forwarder of results.  The others hand  *)
(* lines to the writer through a bounded channel; reader and ticker send   *)
(* the shard messages.  A newer connection may take the slot at any time;  *)
(* the older one learns it only from its ticker.                           *)
(*                                                                         *)
(* ShardState models what the shard does with a message.  Here it answers  *)
(* in any way the Lease allows.  The peer is up (it may send, and may or   *)
(* may not read), silent (link dead without a FIN, or quiet past every     *)
(* timeout) or gone (FIN or RST seen).                                     *)
(***************************************************************************)
EXTENDS Naturals, Sequences, FiniteSets

CONSTANTS
    Conns,
    WantsResults,  \* connections whose handshake has return_results
    Faults,        \* what a feeder's end may become: "silent", "gone"
    Others,        \* other connections of the shard, not followed one by one
    QueueCap,      \* messages a shard's queue holds (8192)
    LineCap,       \* lines a writer's channel holds (256)
    MaxBurst       \* bound: shard messages in one read

ASSUME ConnectionAssumption ==
    /\ IsFiniteSet(Conns) /\ WantsResults \subseteq Conns
    /\ Faults \subseteq {"silent", "gone"} /\ Others \cap Conns = {}
    /\ QueueCap \in Nat \ {0} /\ LineCap \in Nat \ {0} /\ MaxBurst \in Nat

VARIABLES
    task,       \* where handle_client is
    peer,       \* the feeder's end of the socket
    todo,       \* shard messages left of the frame being processed
    ticker, writer, forwarder, lines,
    evicted,    \* evict_tx has fired
    queue,      \* the shard's mpsc channel
    slot,       \* what the shard's answer to this connection came to
    receivers   \* ShardHandle.receivers

vars == <<task, peer, todo, ticker, writer, forwarder, lines, evicted, queue, slot, receivers>>
helpers == <<ticker, writer, forwarder, lines, evicted>>
shard == <<queue, slot, receivers>>

TaskAt == {"none", "handshake", "claimed", "adding", "greeting", "reading", "releasing",
           "released", "stopping", "flushing", "closed"}
ShardMsg == [kind : {"add", "remove", "data", "stats"}, conn : Conns \cup Others]

Init ==
    /\ task = [c \in Conns |-> "none"]
    /\ peer = [c \in Conns |-> "up"]
    /\ todo = [c \in Conns |-> 0]
    /\ ticker = [c \in Conns |-> "off"]
    /\ writer = [c \in Conns |-> "off"]
    /\ forwarder = [c \in Conns |-> "off"]
    /\ lines = [c \in Conns |-> 0]
    /\ evicted = [c \in Conns |-> FALSE]
    /\ queue = <<>>
    /\ slot = [c \in Conns |-> "none"]
    /\ receivers = 0

Running(t) == t \notin {"off", "gone"}

Enqueue(kind, c) ==
    /\ Len(queue) < QueueCap
    /\ queue' = Append(queue, [kind |-> kind, conn |-> c])

\* Mutant: a full channel takes the line all the same.
TrySendUnbounded(c) ==
    lines' = IF Running(writer[c]) THEN [lines EXCEPT ![c] = @ + 1] ELSE lines

\* tx_line.try_send: the line is dropped when the channel is full or closed.
TrySend(c) ==
    lines' = IF Running(writer[c]) /\ lines[c] < LineCap THEN [lines EXCEPT ![c] = @ + 1] ELSE lines

-----------------------------------------------------------------------------
(* The feeder's end. *)

PeerChanges(c, p) ==
    /\ task[c] \notin {"none", "closed"}
    /\ <<peer[c], p>> \in {<<"up", "silent">>, <<"up", "gone">>, <<"silent", "gone">>}
    /\ peer' = [peer EXCEPT ![c] = p]
    /\ UNCHANGED <<task, todo, helpers, shard>>

-----------------------------------------------------------------------------
(* handle_client up to the message loop *)

Accept(c) ==
    /\ task[c] = "none"
    /\ task' = [task EXCEPT ![c] = "handshake"]
    /\ UNCHANGED <<peer, todo, helpers, shard>>

\* No handshake in 15 s, end of stream, over-long line, not JSON, or denied for
\* its compression or position.
HandshakeFails(c) ==
    /\ task[c] = "handshake"
    /\ task' = [task EXCEPT ![c] = "closed"]
    /\ UNCHANGED <<peer, todo, helpers, shard>>

\* Router::shard_for counts the receiver at claim time.
Claim(c) ==
    /\ task[c] = "handshake" /\ peer[c] = "up"
    /\ task' = [task EXCEPT ![c] = "claimed"]
    /\ receivers' = receivers + 1
    /\ UNCHANGED <<peer, todo, helpers, queue, slot>>

SendAdd(c) ==
    /\ task[c] = "claimed"
    /\ Enqueue("add", c)
    /\ task' = [task EXCEPT ![c] = "adding"]
    /\ UNCHANGED <<peer, todo, helpers, slot, receivers>>

\* Mutant: the refused path does not give its claim back.
RefusedKeepsClaim(c) ==
    /\ task[c] = "adding" /\ slot[c] = "refused"
    /\ task' = [task EXCEPT ![c] = "closed"]
    /\ UNCHANGED <<peer, todo, helpers, shard>>

\* Mutant: the refused path gives back a slot it never got.
RefusedReleases(c) ==
    /\ task[c] = "adding" /\ slot[c] = "refused"
    /\ task' = [task EXCEPT ![c] = "releasing"]
    /\ UNCHANGED <<peer, todo, helpers, shard>>

\* release(&shard, None), then the deny line.
Refused(c) ==
    /\ task[c] = "adding" /\ slot[c] = "refused"
    /\ receivers' = receivers - 1
    /\ task' = [task EXCEPT ![c] = "closed"]
    /\ UNCHANGED <<peer, todo, helpers, queue, slot>>

Added(c) ==
    /\ task[c] = "adding" /\ slot[c] \in {"held", "lost"}
    /\ task' = [task EXCEPT ![c] = "greeting"]
    /\ UNCHANGED <<peer, todo, helpers, shard>>

\* The reply is written; writer, forwarder and ticker start.
Greet(c) ==
    /\ task[c] = "greeting"
    /\ task' = [task EXCEPT ![c] = "reading"]
    /\ writer' = [writer EXCEPT ![c] = "run"]
    /\ forwarder' = [forwarder EXCEPT ![c] = IF c \in WantsResults THEN "run" ELSE "off"]
    /\ ticker' = [ticker EXCEPT ![c] = "run"]
    /\ UNCHANGED <<peer, todo, lines, evicted, shard>>

\* Mutant: a failed reply returns with the slot still held.
GreetFailsKeepsSlot(c) ==
    /\ task[c] = "greeting" /\ peer[c] = "gone"
    /\ task' = [task EXCEPT ![c] = "closed"]
    /\ receivers' = receivers - 1
    /\ UNCHANGED <<peer, todo, helpers, queue, slot>>

\* The reply cannot be written.
GreetFails(c) ==
    /\ task[c] = "greeting" /\ peer[c] = "gone"
    /\ task' = [task EXCEPT ![c] = "releasing"]
    /\ UNCHANGED <<peer, todo, helpers, shard>>

-----------------------------------------------------------------------------
(* The message loop.  The eviction flag and the idle timer are looked at   *)
(* only between frames; a frame's messages are sent one after the other.   *)

AtRead(c) == task[c] = "reading" /\ todo[c] = 0

\* A frame with n messages for the shard.
Read(c, n) ==
    /\ AtRead(c) /\ peer[c] = "up"
    /\ todo' = [todo EXCEPT ![c] = n]
    /\ UNCHANGED <<task, peer, helpers, shard>>

\* A frame that only makes process_line_tx answer (start_sending, stop_sending).
ReadOffer(c) ==
    /\ AtRead(c) /\ peer[c] = "up"
    /\ TrySend(c)
    /\ UNCHANGED <<task, peer, todo, ticker, writer, forwarder, evicted, shard>>

SendData(c) ==
    /\ todo[c] > 0
    /\ Enqueue("data", c)
    /\ todo' = [todo EXCEPT ![c] = @ - 1]
    /\ UNCHANGED <<task, peer, helpers, slot, receivers>>

\* End of stream, read error, over-long line, frame that does not decode.
ReadEnds(c) ==
    /\ AtRead(c) /\ peer[c] # "silent"
    /\ task' = [task EXCEPT ![c] = "releasing"]
    /\ UNCHANGED <<peer, todo, helpers, shard>>

\* Nothing read for 5 minutes.
Idle(c) ==
    /\ AtRead(c) /\ peer[c] = "silent"
    /\ task' = [task EXCEPT ![c] = "releasing"]
    /\ UNCHANGED <<peer, todo, helpers, shard>>

\* Mutant: the slot is given back at eviction, ahead of what the reader still sends.
EvictedWhileSending(c) ==
    /\ task[c] = "reading" /\ evicted[c]
    /\ task' = [task EXCEPT ![c] = "releasing"]
    /\ UNCHANGED <<peer, todo, helpers, shard>>

Evicted(c) ==
    /\ AtRead(c) /\ evicted[c]
    /\ task' = [task EXCEPT ![c] = "releasing"]
    /\ UNCHANGED <<peer, todo, helpers, shard>>

-----------------------------------------------------------------------------
(* Teardown *)

\* release: the removal is queued first, then the claim is given back.
SendRemove(c) ==
    /\ task[c] = "releasing"
    /\ Enqueue("remove", c)
    /\ task' = [task EXCEPT ![c] = "released"]
    /\ UNCHANGED <<peer, todo, helpers, slot, receivers>>

GiveBack(c) ==
    /\ task[c] = "released"
    /\ receivers' = receivers - 1
    /\ task' = [task EXCEPT ![c] = IF writer[c] = "off" THEN "closed" ELSE "stopping"]
    /\ UNCHANGED <<peer, todo, helpers, queue, slot>>

Stopped(t) == IF t = "off" THEN "off" ELSE "gone"

\* Mutant: the forwarder is left to stop by itself.
StopTasksButForwarder(c) ==
    /\ task[c] = "stopping"
    /\ ticker' = [ticker EXCEPT ![c] = Stopped(@)]
    /\ task' = [task EXCEPT ![c] = "flushing"]
    /\ UNCHANGED <<peer, todo, writer, forwarder, lines, evicted, shard>>

\* Ticker and forwarder are aborted and awaited, the reader's sender dropped.
StopTasks(c) ==
    /\ task[c] = "stopping"
    /\ ticker' = [ticker EXCEPT ![c] = Stopped(@)]
    /\ forwarder' = [forwarder EXCEPT ![c] = Stopped(@)]
    /\ task' = [task EXCEPT ![c] = "flushing"]
    /\ UNCHANGED <<peer, todo, writer, lines, evicted, shard>>

Flushed(c) ==
    /\ task[c] = "flushing" /\ writer[c] = "gone"
    /\ task' = [task EXCEPT ![c] = "closed"]
    /\ UNCHANGED <<peer, todo, helpers, shard>>

\* Mutant: teardown waits for the writer however long it takes.
FlushNeverTimesOut(c) == FALSE /\ UNCHANGED vars

\* The writer has had its 5 s.
FlushTimesOut(c) ==
    /\ task[c] = "flushing" /\ writer[c] # "gone"
    /\ writer' = [writer EXCEPT ![c] = "gone"]
    /\ lines' = [lines EXCEPT ![c] = 0]
    /\ task' = [task EXCEPT ![c] = "closed"]
    /\ UNCHANGED <<peer, todo, ticker, forwarder, evicted, shard>>

-----------------------------------------------------------------------------
(* The ticker *)

Heartbeat(c) ==
    /\ ticker[c] = "run"
    /\ TrySend(c)
    /\ UNCHANGED <<task, peer, todo, ticker, writer, forwarder, evicted, shard>>

StatsTick(c) ==
    /\ ticker[c] = "run"
    /\ ticker' = [ticker EXCEPT ![c] = "asking"]
    /\ UNCHANGED <<task, peer, todo, writer, forwarder, lines, evicted, shard>>

\* Mutant: a full shard queue passes for a lost slot.
SendStatsOrGiveUp(c) ==
    /\ ticker[c] = "asking"
    /\ IF Len(queue) < QueueCap
         THEN Enqueue("stats", c) /\ ticker' = [ticker EXCEPT ![c] = "asked"]
         ELSE ticker' = [ticker EXCEPT ![c] = "no"] /\ UNCHANGED queue
    /\ UNCHANGED <<task, peer, todo, writer, forwarder, lines, evicted, slot, receivers>>

SendStats(c) ==
    /\ ticker[c] = "asking"
    /\ Enqueue("stats", c)
    /\ ticker' = [ticker EXCEPT ![c] = "asked"]
    /\ UNCHANGED <<task, peer, todo, writer, forwarder, lines, evicted, slot, receivers>>

\* The shard still holds the receiver; the stats line goes out if it was asked for.
StatsYes(c) ==
    /\ ticker[c] = "yes"
    /\ ticker' = [ticker EXCEPT ![c] = "run"]
    /\ TrySend(c) \/ UNCHANGED lines
    /\ UNCHANGED <<task, peer, todo, writer, forwarder, evicted, shard>>

\* Mutant: an answer without stats is only a missed push.
StatsNoIgnored(c) ==
    /\ ticker[c] = "no"
    /\ ticker' = [ticker EXCEPT ![c] = "run"]
    /\ UNCHANGED <<task, peer, todo, writer, forwarder, lines, evicted, shard>>

StatsNo(c) ==
    /\ ticker[c] = "no"
    /\ ticker' = [ticker EXCEPT ![c] = "gone"]
    /\ evicted' = [evicted EXCEPT ![c] = TRUE]
    /\ UNCHANGED <<task, peer, todo, writer, forwarder, lines, shard>>

-----------------------------------------------------------------------------
(* The writer and the forwarder.  A line stands for what one write_all     *)
(* takes: on zlib2 that is the batch gathered since the last flush.        *)

SendersLeft(c) ==
    \/ task[c] \in {"reading", "releasing", "released", "stopping"}
    \/ Running(ticker[c])
    \/ Running(forwarder[c])

WriterTakes(c) ==
    /\ writer[c] = "run" /\ lines[c] > 0
    /\ lines' = [lines EXCEPT ![c] = @ - 1]
    /\ writer' = [writer EXCEPT ![c] = "writing"]
    /\ UNCHANGED <<task, peer, todo, ticker, forwarder, evicted, shard>>

\* Whether a write gets through is up to the kernel's buffer and the peer.
WriterWrote(c) ==
    /\ writer[c] = "writing"
    /\ writer' = [writer EXCEPT ![c] = "run"]
    /\ UNCHANGED <<task, peer, todo, ticker, forwarder, lines, evicted, shard>>

\* The write fails, a zlib2 batch does not fit a frame (encode_frame), or every
\* sender is dropped and the channel is empty.
WriterEnds(c) ==
    /\ \/ writer[c] = "writing"
       \/ writer[c] = "run" /\ lines[c] = 0 /\ ~SendersLeft(c)
    /\ writer' = [writer EXCEPT ![c] = "gone"]
    /\ lines' = [lines EXCEPT ![c] = 0]
    /\ UNCHANGED <<task, peer, todo, ticker, forwarder, evicted, shard>>

\* A fix for this connection comes off the broadcast channel.
ForwarderTakes(c) ==
    /\ forwarder[c] = "run"
    /\ forwarder' = [forwarder EXCEPT ![c] = "sending"]
    /\ UNCHANGED <<task, peer, todo, ticker, writer, lines, evicted, shard>>

\* tx.send waits for room, and fails once the writer is gone.
ForwarderSends(c) ==
    /\ forwarder[c] = "sending"
    /\ \/ /\ Running(writer[c]) /\ lines[c] < LineCap
          /\ lines' = [lines EXCEPT ![c] = @ + 1]
          /\ forwarder' = [forwarder EXCEPT ![c] = "run"]
       \/ /\ ~Running(writer[c])
          /\ forwarder' = [forwarder EXCEPT ![c] = "gone"]
          /\ UNCHANGED lines
    /\ UNCHANGED <<task, peer, todo, ticker, writer, evicted, shard>>

-----------------------------------------------------------------------------
(* Connections that are not followed fill the queue and, when the shard lets *)
(* them in, take slots.                                                      *)

OtherSends(o, kind) ==
    /\ Enqueue(kind, o)
    /\ UNCHANGED <<task, peer, todo, helpers, slot, receivers>>

-----------------------------------------------------------------------------
(* run_shard *)

SlotHolders == {c \in Conns : slot[c] = "held"}

ShardRefuses(c) ==
    /\ SlotHolders \cup Others # {}
    /\ slot' = [slot EXCEPT ![c] = "refused"]
    /\ UNCHANGED ticker

ShardAdmits(c, victims) ==
    /\ \A d, e \in victims : d = e
    /\ slot' = [d \in Conns |-> IF d = c THEN "held" ELSE IF d \in victims THEN "lost" ELSE slot[d]]
    /\ UNCHANGED ticker

ShardRemoves(c) ==
    /\ slot' = [slot EXCEPT ![c] = "over"]
    /\ UNCHANGED ticker

\* The reply is lost if the ticker that asked is gone.
ShardAnswers(c) ==
    /\ ticker' = IF ticker[c] # "asked" THEN ticker
                 ELSE [ticker EXCEPT ![c] = IF slot[c] = "held" THEN "yes" ELSE "no"]
    /\ UNCHANGED slot

ShardStep ==
    /\ queue # <<>>
    /\ queue' = Tail(queue)
    /\ LET c == Head(queue).conn
           kind == Head(queue).kind
       IN  \/ /\ kind = "add"
              /\ \/ c \in Conns /\ ShardRefuses(c)
                 \/ \E victims \in SUBSET SlotHolders : ShardAdmits(c, victims)
           \/ kind = "remove" /\ ShardRemoves(c)
           \/ kind = "stats" /\ ShardAnswers(c)
           \/ kind = "data" /\ UNCHANGED <<slot, ticker>>
    /\ UNCHANGED <<task, peer, todo, writer, forwarder, lines, evicted, receivers>>

-----------------------------------------------------------------------------
Reader(c) ==
    \/ Accept(c) \/ HandshakeFails(c) \/ Claim(c) \/ SendAdd(c) \/ Refused(c) \/ Added(c)
    \/ Greet(c) \/ GreetFails(c)
    \/ \E n \in 0..MaxBurst : Read(c, n)
    \/ ReadOffer(c) \/ SendData(c) \/ ReadEnds(c) \/ Idle(c) \/ Evicted(c)
    \/ SendRemove(c) \/ GiveBack(c) \/ StopTasks(c) \/ Flushed(c) \/ FlushTimesOut(c)
Ticker(c) == Heartbeat(c) \/ StatsTick(c) \/ SendStats(c) \/ StatsYes(c) \/ StatsNo(c)
Writer(c) == WriterTakes(c) \/ WriterWrote(c) \/ WriterEnds(c)
Forwarder(c) == ForwarderTakes(c) \/ ForwarderSends(c)

Next ==
    \/ \E c \in Conns : Reader(c)
    \/ \E c \in Conns : Ticker(c)
    \/ \E c \in Conns : Writer(c)
    \/ \E c \in Conns : Forwarder(c)
    \/ ShardStep
    \/ \E o \in Others, kind \in {"add", "data"} : OtherSends(o, kind)
    \/ \E c \in Conns, p \in Faults : PeerChanges(c, p)

Spec == Init /\ [][Next]_vars

\* What the runtime owes.  The shard and every task that can move do, interval
\* ticks and timeouts come; a sender waiting on the shard's queue gets its turn
\* (tokio's channel serves waiters in order); select! polls its branches in
\* random order, so an eviction that is ready at every read is taken.  The
\* feeder owes nothing.
ReaderMoves(c) ==
    \/ HandshakeFails(c) /\ peer[c] \in {"silent", "gone"}
    \/ Refused(c) \/ Added(c) \/ Greet(c) \/ GreetFails(c)
    \/ ReadEnds(c) /\ peer[c] = "gone"
    \/ Idle(c) \/ GiveBack(c) \/ StopTasks(c) \/ Flushed(c) \/ FlushTimesOut(c)
ReaderSends(c) == SendAdd(c) \/ SendData(c) \/ SendRemove(c)
TickerMoves(c) == StatsTick(c) \/ StatsYes(c) \/ StatsNo(c)

Fairness ==
    /\ WF_vars(ShardStep)
    /\ \A c \in Conns :
        /\ WF_vars(ReaderMoves(c)) /\ SF_vars(ReaderSends(c)) /\ SF_vars(Evicted(c))
        /\ WF_vars(TickerMoves(c)) /\ SF_vars(SendStats(c))

FairSpec == Spec /\ Fairness

-----------------------------------------------------------------------------
(* Properties *)

Claimed(c) ==
    task[c] \in {"claimed", "adding", "greeting", "reading", "releasing", "released"}
Leaving(c) == task[c] \in {"releasing", "released", "stopping", "flushing", "closed"}
Queued(kind, c) == \E i \in 1..Len(queue) : queue[i] = [kind |-> kind, conn |-> c]

\* Every variable keeps to its type; the queue and the writers' channels stay
\* within the capacities main.rs gives them.
TypeOK ==
    /\ task \in [Conns -> TaskAt]
    /\ peer \in [Conns -> {"up", "silent", "gone"}]
    /\ todo \in [Conns -> 0..MaxBurst]
    /\ ticker \in [Conns -> {"off", "run", "asking", "asked", "yes", "no", "gone"}]
    /\ writer \in [Conns -> {"off", "run", "writing", "gone"}]
    /\ forwarder \in [Conns -> {"off", "run", "sending", "gone"}]
    /\ lines \in [Conns -> 0..LineCap]
    /\ evicted \in [Conns -> BOOLEAN]
    /\ queue \in Seq(ShardMsg) /\ Len(queue) <= QueueCap
    /\ slot \in [Conns -> {"none", "refused", "held", "lost", "over"}]
    /\ receivers \in Nat

\* The load the router's capacity gate reads is the number of claims not given
\* back, on every path out of handle_client: it neither creeps up until shards
\* look full nor wraps below zero.
CountedOnce == receivers = Cardinality({c \in Conns : Claimed(c)})

\* A slot outlives its connection's claim only while its removal is queued: no
\* path out leaves a receiver behind in the shard.
NoSlotLeft == \A c \in Conns : slot[c] = "held" => Claimed(c) \/ Queued("remove", c)

\* A connection's removal is the last thing the shard hears from its reader: no
\* report of a closed connection arrives at a slot someone else may have.
RemovalIsLast ==
    \A i, j \in 1..Len(queue) :
        i < j /\ queue[i].kind = "remove" /\ queue[j].conn = queue[i].conn => queue[j].kind = "stats"

\* A closed connection leaves no task behind (the cycle of forwarder and writer
\* that held the socket and both zlib states of every closed connection).
NothingLeftRunning ==
    \A c \in Conns : task[c] = "closed" =>
        ~Running(ticker[c]) /\ ~Running(writer[c]) /\ ~Running(forwarder[c])

\* A connection is told it was replaced only if it was, or is leaving anyway: a
\* busy shard, or a stats request overtaken by the connection's own removal,
\* never evicts a healthy feeder.
EvictedWasReplaced == \A c \in Conns : evicted[c] => slot[c] = "lost" \/ Leaving(c)

\* Each connection asks for a slot once and gives back, once, only what it got:
\* through every order of refusals, failed greetings, evictions and removals in
\* the queue, what the shard does to the slots stays within the Lease.
Leases == INSTANCE Lease WITH lease <- slot
LeaseKept == Leases!Spec

\* A connection that lost its slot to a newer one closes, whatever its feeder
\* sends and however full the queues are.
ReplacedCloses == \A c \in Conns : slot[c] = "lost" ~> task[c] = "closed"

\* A connection whose feeder vanished closes, at whatever stage it was, even
\* with the writer stuck in a write to a dead peer.
DeadPeerCloses ==
    \A c \in Conns :
        task[c] # "none" /\ peer[c] \in {"silent", "gone"} ~> task[c] = "closed"
===============================================================================
