------------------------------- MODULE Traffic -------------------------------
(***************************************************************************)
(* Selective traffic of one connection (crates/mlatd/src/traffic.rs and    *)
(* process_line_tx of main.rs): which aircraft the feeder is asked to      *)
(* send, and the cap on the ADS-B aircraft whose sync pairs are kept.      *)
(*                                                                         *)
(* A line of the feeder names one aircraft here (a list is as many lines). *)
(* The answers, start_sending and stop_sending, go to the writer with      *)
(* try_send: one that finds the channel full is lost.                      *)
(***************************************************************************)
EXTENDS Integers, Sequences, FiniteSets

CONSTANTS
    Aircraft, Junk,   \* what feeders name: ICAO addresses, and what is not one
    SyncCap,          \* --sync-aircraft-per-receiver; 0 is no cap
    MaxRequested,     \* MAX_REQUESTED
    SyncIdle,         \* SYNC_IDLE_S
    Suppress, Keep,   \* SUPPRESS_S and ten times that
    LineCap,          \* lines the writer's channel holds
    MaxTime           \* bound: the clock

ASSUME TrafficAssumption ==
    /\ Aircraft \cap Junk = {} /\ SyncCap \in Nat /\ MaxRequested \in Nat
    /\ SyncIdle \in Nat /\ Suppress \in Nat /\ Keep \in Nat /\ Suppress <= Keep
    /\ LineCap \in Nat \ {0} /\ MaxTime \in Nat

VARIABLES
    now,
    requested, sync, suppressed,   \* struct Traffic
    lines,                         \* answers in the writer's channel
    told,                          \* aircraft the feeder sends, as it was told
    stopped_at,                    \* when each aircraft was last stopped
    dropped                        \* an answer has found the channel full

vars == <<now, requested, sync, suppressed, lines, told, stopped_at, dropped>>

Init ==
    /\ now = 0 /\ requested = {} /\ lines = <<>> /\ told = {} /\ dropped = FALSE
    /\ sync = [a \in {} |-> 0]
    /\ suppressed = [a \in {} |-> 0]
    /\ stopped_at = [a \in {} |-> 0]

-----------------------------------------------------------------------------
With(f, a, v) == [x \in DOMAIN f \cup {a} |-> IF x = a THEN v ELSE f[x]]
Only(f, S) == [x \in DOMAIN f \cap S |-> f[x]]

\* The entries of f younger than age.
Younger(f, age) == Only(f, {x \in DOMAIN f : now - f[x] < age})

\* Mutant: one aircraft too many fits.
RoomForOneMore(s) == SyncCap = 0 \/ Cardinality(DOMAIN s) <= SyncCap

\* has_room, given the sync set it left behind.
Room(s) == SyncCap = 0 \/ Cardinality(DOMAIN s) < SyncCap

\* has_room drops the idle entries, when there is a cap.
Swept == IF SyncCap = 0 THEN sync ELSE Younger(sync, SyncIdle)

TrySend(kind, a) ==
    IF Len(lines) < LineCap
      THEN lines' = Append(lines, [kind |-> kind, ac |-> a]) /\ UNCHANGED dropped
      ELSE dropped' = TRUE /\ UNCHANGED lines

AtLimit(a) == Cardinality(requested) >= MaxRequested /\ a \notin requested

TooSoon(a) == now - suppressed[a] < Suppress

\* An aircraft of a seen list or a rate report: offered.
Offered(a) ==
    LET stopped == a \in DOMAIN suppressed
        asked   == stopped /\ ~TooSoon(a)      \* has_room is only asked here
        denied  == stopped /\ (TooSoon(a) \/ ~Room(Swept))
        ignored == a \in Junk \/ AtLimit(a)
    IN  /\ sync' = IF ~ignored /\ asked THEN Swept ELSE sync
        /\ IF ignored \/ denied
             THEN UNCHANGED <<requested, suppressed, lines, dropped>>
             ELSE /\ suppressed' = Only(suppressed, DOMAIN suppressed \ {a})
                  /\ requested' = requested \cup {a}
                  /\ IF a \in requested THEN UNCHANGED <<lines, dropped>> ELSE TrySend("start", a)
        /\ UNCHANGED <<now, told, stopped_at>>

\* Mutant: the stops are kept as long as sync pairs are.
RememberedBriefly == Younger(suppressed, SyncIdle)

\* Mutant: old stops are not cleaned up.
RememberedForever == suppressed

\* Stops the feeder never offers again would stay forever.
Remembered == Younger(suppressed, Keep)

\* Mutant: the feeder is not told to stop.
StopSilently(a) == UNCHANGED <<lines, dropped>>
TellStop(a) == TrySend("stop", a)

\* A sync pair: on_sync, then the shard or a stop_sending.  adsb_icao reads the
\* address off the frame unchecked, so it need not be one.
SyncPair(a) ==
    LET known == a \in DOMAIN sync
        kept  == SyncCap = 0 \/ known \/ Room(Swept)
    IN  /\ sync' = IF SyncCap = 0 THEN sync
                   ELSE IF known THEN [sync EXCEPT ![a] = now]
                   ELSE IF kept THEN With(Swept, a, now)
                   ELSE Swept
        /\ IF kept
             THEN UNCHANGED <<requested, suppressed, lines, dropped, stopped_at>>
             ELSE /\ requested' = requested \ {a}
                  /\ suppressed' = With(Remembered, a, now)
                  /\ TellStop(a)
                  /\ stopped_at' = With(stopped_at, a, now)
        /\ UNCHANGED <<now, told>>

\* The feeder has dropped an aircraft that faded, and reports it: lost.
Lost(a) ==
    /\ requested' = requested \ {a}
    /\ sync' = Only(sync, DOMAIN sync \ {a})
    /\ told' = told \ {a}
    /\ UNCHANGED <<now, suppressed, lines, stopped_at, dropped>>

\* The feeder reads an answer.
Deliver ==
    /\ lines # <<>>
    /\ lines' = Tail(lines)
    /\ told' = IF Head(lines).kind = "start" THEN told \cup {Head(lines).ac}
               ELSE told \ {Head(lines).ac}
    /\ UNCHANGED <<now, requested, sync, suppressed, stopped_at, dropped>>

Tick ==
    /\ now < MaxTime
    /\ now' = now + 1
    /\ UNCHANGED <<requested, sync, suppressed, lines, told, stopped_at, dropped>>

Next ==
    \/ \E a \in Aircraft \cup Junk : Offered(a)
    \/ \E a \in Aircraft \cup Junk : SyncPair(a)
    \/ \E a \in Aircraft \cup Junk : Lost(a)
    \/ Deliver
    \/ Tick

Spec == Init /\ [][Next]_vars

-----------------------------------------------------------------------------
(* Properties *)

\* What a client can pin is bounded: at most MaxRequested addresses, all of them
\* ICAO addresses; under a cap at most SyncCap aircraft in the sync set; and of the
\* stops only those made within Keep of one another, whatever order of offers, sync
\* pairs, losses and timeouts it arranges.
Bounded ==
    /\ requested \subseteq Aircraft /\ Cardinality(requested) <= MaxRequested
    /\ SyncCap > 0 => Cardinality(DOMAIN sync) <= SyncCap
    /\ \A a, b \in DOMAIN suppressed : a # b => suppressed[a] - suppressed[b] < Keep

\* An aircraft that was stopped is not asked for again before SUPPRESS_S is over,
\* even if it was lost and seen again, or stops of others were cleaned up, meanwhile.
NoEarlyRestart ==
    [][\A a \in (requested' \ requested) \cap DOMAIN stopped_at :
            now - stopped_at[a] >= Suppress]_vars

\* As long as no answer was lost, the feeder ends up sending what the connection
\* counts as requested and nothing it has stopped, in whatever order the offers,
\* stops and losses came.
AnswersAgree ==
    ~dropped /\ lines = <<>> => requested \subseteq told /\ told \cap DOMAIN suppressed = {}
===============================================================================
