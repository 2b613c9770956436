# TLA+ models of mlatd

mlatd is a multilateration server.  Feeders (receivers of aircraft
transponders) connect over TCP and report what they heard and when, each in its
own clock.  The server learns how the clocks relate from ADS-B messages whose
position is known (sync), groups the reports of one other transmission by
several feeders (mlat), solves the aircraft's position, and publishes it.

This directory models the parts of it that keep state and run concurrently,
checks them with TLC on small instances, and proves every safety property that
holds there with TLAPS for every size; liveness is left to TLC.  Paths below are
relative to `src/crates/`.

## The system

| Part | Source | State | Operations | Talks to |
|---|---|---|---|---|
| receiver registry | `mlatd/src/state.rs` 339-490 | slots (`receivers`, `gens`, `alive`), `free_slots`, `by_user` | `add_receiver`, `remove_receiver`, `live` | connections, by messages and `RxRef` handles |
| data filed by slot | `mlatd/src/state.rs` | `syncpoints`, `groups`, `pairs`, `stamp_offset`, `bias`, `rx_log`, `ac_log` | `on_sync`, `on_mlat`, `clock_reset`, `sweep`, `expire_at` | registry (slot numbers), solver |
| solving a group | `mlatd/src/state.rs` 731-1300 | `tracks`, `filters`, backoff | `solve_group`, `solve_cluster`, `recipients` | output task (lossy channel) |
| connection tasks | `mlatd/src/main.rs` 485-900 | reader, ticker, writer and forwarder of each connection; line channel, eviction flag | `handle_client`, `release` | shard queue, router, peer |
| shard event loop | `mlatd/src/shard.rs` 307-350 | bounded queue, sweep timer | `run_shard` | everything above |
| partition router | `mlatd/src/shard.rs` 90-305 | `CellMap` (owner, count, split), per-shard counters | `shard_for`, `release`, `owner_at` | connections, output task, stats task |
| stats task | `mlatd/src/main.rs` | rate of each shard | one window | router's capacity gate |
| output task | `mlatd/src/main.rs` 200-260 | `recent`, `order` | territory gate, twin removal | router, shards, SBS and result subscribers |
| selective traffic | `mlatd/src/traffic.rs`, `process_line_tx` | `requested`, `sync`, `suppressed` | `offered`, `on_sync`, `lost` | feeder (answers that may be dropped) |
| pair clock model | `mlatd/src/clocksync.rs` | regression sums, rejections | `push`, `convert` | data filed by slot |
| per-aircraft maps | `mlatd/src/state.rs` | `ac_log`, `alts_ft`, `adsb_pos`, `tracks`, `filters` | `on_sync`, `on_mlat`, `solve_cluster`, `expire_at`, `state_json` | solving, export |
| track | `mlatd/src/track.rs` | alpha-beta filter | `update` | solving |
| solver | `mlatd/src/solve.rs` | none | `solve_robust`, `solve` | solving |
| position reports | `mb-modes/src/cpr.rs` | none | `encode_airborne`, `global_decode_airborne` | `on_sync` |
| other Mode S, geodesy, wire format | `mb-modes`, `mb-core`, `mb-proto` | inflate and deflate contexts | pure functions | readers, writers |

What is hard here: a slot index outlives its holder, and everything the shard
knows is filed by slot index; a clock can start over under data measured in the
old one; a connection that lost its slot does not know it and goes on sending;
a connection is four tasks with three channels and six ways to end; the
partition grows while fixes solved under the old one are in flight; several
channels drop what does not fit after the sender's books have changed; a pair's
two clock models notice a jump each on its own; five maps of one aircraft are
written by groups that were heard long before; a chain of gates with backoffs
and resets decides what is published; and a position is put together from two
frames that were rounded differently and sent from different places.
`PROJECT.json` lists each such hazard at its line, with the properties aimed at
it.

## Modules

| Module | Models | Proved about in |
|---|---|---|
| `Lease` | what a connection is promised about its slot (abstract) | |
| `ShardState` | registry, data filed by slot, solving as far as it touches both | `ShardStateProofs` |
| `Connection` | the tasks of connections, their channels, the shard's queue | `ConnectionProofs` |
| `Router` | the geographic partition and the counters it reads | `RouterProofs` |
| `Output` | the output task over a moving partition (extends `Router`) | `OutputProofs` |
| `Traffic` | selective traffic of one connection | `TrafficProofs` |
| `PairModel` | the two clock models of one receiver pair | `PairModelProofs` |
| `Aircraft` | what a shard keeps of one aircraft, and the gates of publication | `AircraftProofs` |
| `Cpr` | encoding positions and decoding pairs of them | `CprProofs` |

`MC*.tla` give the constants of the runs.  `Lease` is where two modules meet:
`ShardState` shows that the registry implements it (for every size, by proof),
`Connection` lets the shard answer in any way that it allows and shows that the
tasks use it as it must be used.  A definition that stands before another one
with a comment "Mutant:" is a plausible mistake in the second one's code; it is
used by nothing, and each property has one that breaks it.

### ShardState

One action per message of `ShardMsg` that changes state (`AddReceiver`,
`RemoveReceiver`, `ClockReset`, `OnSync`, `OnSyncUndecoded`, `OnMlat`),
`SweepAny` for `sweep` with `expire_at`, and `FeederRead`/`FeederQuiet` for
`last_read`, which the connection's task writes while the shard runs.  A
handler is one atomic step because a shard is one task that owns its `State`.

Abstractions:

- Every stored time carries a ghost `clock = <<connection, resets>>` in place
  of its value.  The properties ask which clock a time is in, never how late it
  is.  A feeder's clock changes in the same step as the shard hears of it,
  since the queue is FIFO and everything the feeder sends later is in the new
  clock.
- Time is dropped.  `heard[c]` is "read within `CONNECTION_LIVE_S`"; a sweep may
  find any subset of sync points expired and any subset of groups ready.  This
  allows more than the code does.
- Names are sequences of their `-`-separated parts, so that `user-tag` is
  `Append(user, tag)` and a feeder may call itself by another's alias.
- `groups` is a set of (slot, clock) entries: `solve_cluster` takes one
  observation per receiver.  Reports on a sync point keep an index `n`, as each
  counts towards `MAX_SYNC_AC`.
- `free_slots` is the `Vec` it is (last in, first out), and generations wrap
  modulo `GenMod`.
- `tracking` is the pairs (slot, aircraft interest) of `ac_log`'s receiver
  maps; `learned` is who contributed to a slot's `bias`, sync counters and
  `rx_log`.
- A solve elects its reference by `local_ref`'s score, converts over one or two
  hops, and takes any subset of at least `MinRx` live members that convert.
  What the numerics, quarantine, cluster spans and publication gates decide is
  a choice (`sol.used`, `sol.inRange`, `sol.fix`).  `usable` is any subset of
  the existing pair models: validity and freshness are a choice too.
- `State.reference` is written and never read; it is left out.  `Stats`,
  `StateJson` and `SyncJson` only read, except for the expiry that `StateJson`
  shares with the sweep.

### Connection

`task[c]` is where `handle_client` is; `ticker`, `writer` and `forwarder` are
its other tasks; `lines` the occupancy of the writer's channel; `queue` the
shard's channel, one for all connections; `slot` what the shard's answers came
to; `receivers` the claim counter of the shard's handle.  A full shard queue
makes senders wait; a full line channel makes `try_send` drop the line and the
forwarder's `send` wait.  Eviction and idleness are looked at only between two
frames, as in `select!`.  Teardown has the code's order: removal queued, claim
given back, ticker and forwarder aborted and awaited, writer given 5 s, then
aborted.  The aborted writer is not awaited (`main.rs:853`): the runtime drops it
at its next poll, when it has nothing left to touch but its own socket, and the
model ends it in the same step.

A line stands for what one `write_all` takes (with zlib2, the batch since the
last flush).  An `up` peer need not read, so a writer may be stuck in a write
for ever.  The paths taken when the shard's task is gone are left out: it ends
only with the process.

`Others` are connections on the same shard that are not followed: they put
messages on its queue at any time and, when the shard lets one in, may take a
followed connection's slot (`OtherSends`).  Liveness is checked for one followed
connection among them; safety for two followed ones.

### Router and Output

Positions are integers in units of half the finest cell, so that floor division
and cell centres are exact; the floating-point edge of a cell is not modelled,
nor is the antimeridian, across which the code has no neighbours.
`ShardFor` is `shard_for` under its lock, with its early return for a mapped
leaf, the vote of the eight neighbours among shards with capacity (ties broken
by load, then by hash order: a choice), the ancestor, the lightest shard, the
count and the split.  A claim may be released at any time.  The rate that the
stats task stores for each shard is overwritten every ten seconds by what the
shard did in them, so a claim may find any rates: they are a choice of the claim
(`Rates`) rather than state.  The code reads a shard's two counters anew for each
neighbour and each comparison, relaxed, while a claim of the model sees them once.
With rates free and releases possible before the claim, a shard that such reads
could elect can be elected here too, and no property says which of them is.

`Output` adds `emit`'s `try_send` and the consumer's two gates.  The owner of a
position is asked when the row is taken off the channel.  A position that no
shard owns is published whoever solved it (`main.rs:214`, `owner_at` returning
`None`), though the repository's README (lines 31-32) says a fix is published by
exactly the shard that owns its position; over cells without receivers there is
no owner to ask.  `SelfTruth` rows share the channel and touch none of this state; CSV
writers and the broadcast to consumers are I/O.

### Traffic

`Offered`, `SyncPair` and `Lost` are `offered`, `on_sync` and `lost` with the
part of `process_line_tx` that calls them, one aircraft per line.  What the
feeder names need not be an address (`Junk`): only `offered` checks, while
`adsb_icao` takes six characters off a frame and a lost list may say anything.
`told` is a ghost: what the feeder does after reading its answers, less what it
has dropped by itself and reports lost.  `start_sending` goes out
with `try_send` and its failure is ignored (`main.rs:954`), while `offered` has
already counted the aircraft as requested: it is not asked for again until the
feeder reports it lost, although the field's comment (`traffic.rs:27`) has it
"told to send".  `AnswersAgree` therefore speaks of aircraft for which no answer
was lost.

### PairModel

`model.ab` and `model.ba` are the two `PairModel`s of one pair.  `Sync(even,
odd)` is what `on_sync` does for one earlier reporter: both observations pushed
in both directions.  The regression is abstracted to what it rests on: `n`
observations, of which the newest `run` were measured in clock epoch `tag`; the
decaying sums forget what lies more than `Window` back.  A model resting on one
epoch alone predicts that epoch's observations and refuses others (a jump is far
outside `4 sigma` and 1 microsecond); near the gate, and for a mixed model,
either may happen.  `wide` is whether the spread reaches `MIN_SPAN_S`, a choice
whenever the weight does.  Clocks jump unannounced (`Jump`, also between the two
frames of a sync) or with a `clock_reset` (`DeclaredJump`).

`DirectionsAgree` rests on `RESET_AFTER_REJECTS` (8) being no more than the
observations that make a weight of `MIN_WEIGHT` (9): a direction that starts over
first cannot be warm again before the other has had its eight rejections.  The
module assumes the same of its constants.  A direction can start over alone
because of outliers: `MaxOdd` is at least `ResetAfterRejects`.

### Aircraft

One aircraft.  `ac`, `alts`, `adsb`, `filters` and `track` are its entries in the
five maps, `pending` its groups, `ready` those of the sweep under way; no message
is handled while a sweep is.  `Sweep` runs the expiry pass or not, `StateJson`
always.  Each cluster of a group meets, in the code's order: too few
observations, the `tracks` entry, the altitude, the backoff that applies to it
(gated or not), the solver, the error ceiling, the throttle, the four-receiver
gate, the speed gate with its reset; then a DF17 is only scored, anything else
published: track, fixes and filter first, `emit` last, which may drop the row
(`delivered`).  What the solver and the fit say is a choice (`Solution`).
Positions are where the aircraft is and one ghost out of its reach.

`SolveBy + MaxLag < AcExpire` is assumed: a group is solved before the aircraft
that it touched can expire.  The window and the sweep's period are under 3 s and
`AC_EXPIRE_S` is 300 s of scaled time, so this fails only in replays over some
hundred times real time; `MapsFollowLog` needs it.  `rx_bias` is filed by slot and
is in `ShardState`.  A DF17 fix that passes the gates does not reset
`speed_rejects`, as it is not published; `Unsuppressed` holds all the same.

### Cpr

`Squitter` encodes a frame where the aircraft is, `Fly` moves it between the two,
`Foreign` is a pair whose frames no flight explains, since the server has only
the client's word.  Angles are integers in a unit that divides every bin of both
formats, so positions between bins are met.  The zone table is a parameter
(`Edge`), as `nl` is a closed form in cosines.

The code computes in doubles, and a position it decodes need not be exactly on its
bin.  That matters where the position is encoded again, as floor division tells
the two sides of a zone's foot apart: an odd `yz` of 0 in zone 58 decodes to
22 * 2^-50 degrees below the foot, and `encode_airborne` finds itself in the zone
below.  `Doubles(p)` are therefore all positions that miss `p` by a slip of `Slips`
in either coordinate, for any slips of less than half a bin (a double misses by
some 10^-14 degrees, half a bin is 10^-5), and `RoundTrips` speaks of each of them.
Elsewhere the exact value will do.  `Recovered` speaks of distances up to half a
bin.  The comparisons that decide whether a pair is decoded see `nl` of a bin and
whether it is past a pole: with the code's constants no bin of either format lies
within rounding of an edge of the zones (the argument of the floor in `nl` is
never nearer to a whole number than 8 * 10^-8), and the one bin on a pole decodes
to 90 or -90 exactly.

A flight may be of any length (`Legs` is any set).  How far the decoder follows
is `Bears`: the zone index is the nearest integer to a difference of two fields,
and stays right while rounding and flight together move it by less than a half.
With the code's `NZ` and `TWO17` that is 65476 units of latitude (`CodeBears`),
about 0.05 degrees or three nautical miles between the frames; in longitude it
depends on the number of zones.  `Recovered` holds for every flight within it.
The server does not compare the two times (`state.rs:529`), so a longer flight is
not noticed.

The encoder has a blind spot (`InSliver`): in the upper half of a zone's last bin
`yz` rounds up and wraps to 0, but `rlat` (`cpr.rs:58`) still adds the zone that
was left, so NL is looked up one whole zone too low, though the comment says it
must be "the latitude the decoder will reconstruct".  Where the two numbers of
zones differ, `Recovered` and `RoundTrips` promise the latitude and leave the
longitude out; without the exception TLC finds an aircraft decoded at a wrong
longitude, and a decoded position that encodes to another longitude field.  Of all
bins of both formats, 11 decode to a double in the blind spot, each the foot
(`yz` = 0) of an odd zone in the south.

## Runs

| Run | Shows | Bounds, and why they are enough |
|---|---|---|
| `Registry` | names, slots, handles and the Lease, through all orders of joins, replacements, aliases, late removals and quiet links | 4 connections, 2 names of which one is the other's alias, 3 uuids of which two share a head and one has none.  Holder, contender, aliased contender and one reconnect all fit at once; a slot is reused twice. |
| `Clocks` | no time outlives its clock, nothing is inherited, fixes reach only those who heard | 3 connections of 2 stations, 1 reset each, 4 messages, 1 sync pair, 2 frames, `MinRx` 2.  A slot is reused while its old times are in flight, and a solve over a hop of a reused slot happens. |
| `Tasks` | claims and slots are given back on every path, order in the queue, who may be evicted, the Lease | 2 connections, shard queue of 2, one line and one message per frame; silent and gone peers.  One replaces the other, both wait on a full queue, and a stats request follows a removal. |
| `Closes` | a replaced connection closes, and so does one whose feeder is dead, leaving no task | 1 connection with results among others that fill a shard queue of 2 and take its slot, line channel of 2: the reader is blocked, the writer stuck, the forwarder waiting on it. |
| `Partition` | the partition is a tree, territory is kept, a claim and its cell agree; twins once, one shard per mapped cell | 2 shards over a border, 3 places, 3 levels, 6 claims: two nested splits, and a crowd in a cell of the last level, while fixes are in flight; channel of 1, 2 keys of which 1 is remembered, 3 fixes: a key is forgotten and solved again. |
| `Requests` | sets stay bounded and stops are forgotten, agreement with the feeder, no early restart | 3 aircraft and one non-address, 2 requested, 1 synced, stops bind for 2 and are kept for 3, time 0-3: each limit is met and each age passed. |
| `Aircraft` | maps follow `ac_log`, track and fixes agree, no suppression, no jumps | 5 units of time after the start, expiry 5, staleness 4, fit window 2, backoff 1, reset after 2 refusals, one group at a time under `--mlat-adsb`: an expiry pass runs while a group waits, a track is reset and starts again, fixes fall out of the window, gated and ungated attempts alternate. |
| `Pair` | a stale model is bounded, directions agree, both recover | window 4, weight 3, reset after 3, 2 jumps, 3 odd observations: one direction starts over alone, a jump comes while a model is young, mixed or half rejected. |
| `Cpr` | pairs decode to where they were sent, or beside an edge to nothing; what decodes encodes back, however its doubles fall | 8 latitude and up to 7 longitude zones of 32 bins, every latitude to a seventh of a bin, 12 longitudes beside zone edges, legs as long as the zone index bears in latitude and in 7, 4 and 2 longitude zones, and one leg too long; all pairs of latitude fields, 5 longitude fields, for foreign pairs; doubles up to 3 units to either side, just under half a bin of latitude, so that every foot is missed both ways. |

Three more runs each refute one sentence of the repository's own text; the
finding in `PROJECT.json` quotes it.

| Run | What happens |
|---|---|
| `Reconnect` | A feeder in under its alias reconnects when the bare name is free: it takes the bare name, and its old slot stays alive beside it. |
| `StampOffset` | `clock_reset` leaves the `stamp_offset` that relates the output clock to the clock before the reset. |
| `Subdivision` | The children of a full shard's split cell go to a neighbour's shard; the comment says home to the ancestor's. |

Deadlock checking is off in every configuration but `Pair`, because each model
has an end: the bounds on connections, messages, claims, fixes or time are used
up, every connection has closed, or the one pair of frames is decoded.  That
connections do get to the end is what `Closes` checks.

`--mlat-adsb` is off in the runs of `ShardState`; with it on, sync pairs are
grouped as well and the state space is too large.  The proofs cover both
settings, and `Aircraft` runs with it on.

### Fairness

Only `Closes` and `Pair` assume any.  In `Closes`, weakly fair: the shard's loop, each
task's own steps, and timers.  Strongly fair: a sender waiting on the shard's
queue, since tokio's bounded channel gives permits to waiters in order, so one
that waits long enough is served; and a read loop's eviction branch, since
`select!` polls its branches in random order and the eviction, once fired,
stays ready.  Nothing is asked of the feeder or of the writer: it need not
send, read or hang up.  The greeting is taken to be written (or to fail): it is
the first thing on a fresh socket and fits the kernel's buffer.

In `Pair`: two receivers go on reporting sync pairs of aircraft both hear, with
true times (`WF` of `Sync(Good, Good)`), which is what makes them a pair.  Jumps
and odd observations are owed nothing and are bounded.

## Proofs

Each module with a specification has a module of proofs.  A theorem holds for
every value of the constants that the module's named assumption admits; the
bounds of the runs (numbers of connections, claims, fixes, jumps, units of time)
are arbitrary numbers in it.  Every inductive invariant was an invariant of a TLC
run before it was proved.

| Module | Theorem | Property |
|---|---|---|
| `ShardStateProofs` | `TypeCorrect` | `TypeOK` |
| | `RegistryWhole` | `RegistryConsistent`: `by_user` names exactly the live slots, `free_slots` holds exactly the dead ones, once each |
| | `HandlesSound` | `LiveRefHolds`: a handle that passes `live` is its holder's |
| | `ClocksNeverMixed` | `TimesInCurrentClock` |
| | `NothingInherited` | `KeptFromHolder` |
| | `RecipientsSound` | `RecipientsHeard` |
| | `HolderKept` | `LiveHolderKept` (action property) |
| | `ImplementsLease` | `LeaseKept`: every step of a shard is a step of the Lease or changes no standing |
| `ConnectionProofs` | `ConnectionTypeCorrect` | `TypeOK`, with the capacities of queue and channels |
| | `ClaimsCountedOnce` | `CountedOnce` |
| | `NoSlotLeftBehind` | `NoSlotLeft` |
| | `RemovalComesLast` | `RemovalIsLast` |
| | `EvictionsJustified` | `EvictedWasReplaced` |
| | `NoTaskLeftRunning` | `NothingLeftRunning` |
| | `NoWakeupLost` | who waits for the shard has its message queued or its answer, and a reader that was not told to go has a ticker (the safety core of `ReplacedCloses` and `DeadPeerCloses`) |
| | `ImplementsLease` | `LeaseKept`, when every connection of the shard is followed (`Others = {}`) |
| `RouterProofs` | `RouterTypeCorrect` | `TypeOK` |
| | `PartitionStaysTree` | `PartitionIsTree` |
| | `TerritoryStaysKept` | `TerritoryKept` (action property) |
| | `ClaimsGoToOwner` | `ClaimedByOwner` (action property) |
| `OutputProofs` | `OutputRunsRouter` | `OutputSpec => Spec`: beside the output task the partition does what the Router does |
| | `PartitionUnderOutput` | the four of the Router, of `OutputSpec` |
| | `TwinMemoryAgrees` | `RecentIsOrder` |
| | `NoTwinPublished` | `PublishedOnce` |
| | `CellsHaveOneVoice` | `OneShardPerCell` |
| `TrafficProofs` | `MemoryBounded` | `Bounded` |
| | `FeederFollows` | `AnswersAgree` |
| | `StopsHold` | `NoEarlyRestart` (action property) |
| `PairModelProofs` | `PairTypeCorrect` | `TypeOK` |
| | `StaleModelsBounded` | `StaleBounded` |
| | `DirectionsNeverDisagree` | `DirectionsAgree` |
| | `RecoveryAdvances` | every good sync brings both directions nearer to the current clock, from a bounded distance (the safety core of `Recovers`) |
| `AircraftProofs` | `AircraftTypeCorrect` | `TypeOK` |
| | `MapsNeverOutlive` | `MapsFollowLog` |
| | `TrackAndFixesAgree` | `TrackFixesAgree` |
| | `KeptFixesRecent` | `FixesRecent` |
| | `GoodStreamNotSuppressed` | `Unsuppressed` |
| | `RowsContinuous` | `Continuity` (action property) |
| `CprProofs` | `CprTypeCorrect` | `TypeOK` |
| | `DecodingRoundTrips` | `RoundTrips` |
| | `FlightsRecovered` | `Recovered` |

### Assumptions

Most say that a constant is a number or a set of the right kind.  These say more:

- `ShardState`: at most as many connections as generations (`MaxConns <= GenMod`;
  2^32 in the code).  Without it `HandlesSound` is false: a handle old enough
  would pass after the generation wrapped.
- `Traffic`: the clean-up keeps a stop at least as long as it binds
  (`Suppress <= Keep`).
- `PairModel`: `ResetAfterRejects <= MinObs` (8 and 9), on which
  `DirectionsAgree` rests, and `MinObs <= Window`.
- `Aircraft`: `MaxLag + SolveBy < AcExpire`, on which `MapsFollowLog` rests, and
  `Backoff <= AcExpire`.
- `Cpr`: every number of longitude zones divides `LonZones`, so that a bin is a
  whole number of units, the table of zones is decreasing, and a double misses its
  bin by less than half a bin.
- `Router`, `Output`, `Connection`: nothing of the kind.  Depth, thresholds,
  capacities and numbers of shards and connections are free.

### Arguments

None of the properties but the Router's is inductive alone.

*ShardState.*  `IInv` is the conjunction of `TypeOK`, `FiniteReports` (sync
points are finite, so that counting them means something), `RegistryConsistent`,
`Handles`, `TimesInCurrentClock`, `KeptFromHolder` and `RecipientsHeard`.
`Handles` is the strengthening: a live slot's holder is an open connection whose
handle names that slot and generation; no issued handle is ahead of its slot's
generation, and a generation is at most the number of connections so far, hence
has not wrapped; a handle that matches its slot's generation is that of the
slot's last holder.  With it, `Live(ref[c])` identifies `c`, so that a message
touches only its sender's data and a late one of a replaced connection touches
nothing.  `RegistryConsistent` is needed for `AddAccepted`: the slot popped is
dead, so nothing in flight is filed under it.  `HolderKept` and
`ImplementsLease` take one step per action from `IInv`.

*Connection.*  Three things are changed by different tasks: where the reader is,
what of the connection is still in the shard's queue, and what the shard made of
its slot.  `Stage` ties them: an add is queued exactly while the reader awaits an
answer that has not come; a removal is queued only after the release and while
the slot is held or lost; a slot held by nobody on the way out has its removal
queued.  `Helpers` says at which points each helper may run, `Told` what an
eviction follows from, `QueueShape` that an add or removal is queued once.
The actions fall into a few kinds (those that only move a task, count, switch a
helper, send, or write lines) with one lemma each, plus the shard's step, which
is split by the kind of message taken.  `ImplementsLease` uses `Stage` to show
that each answer finds the slot where the Lease wants it.  `NobodyForgotten` adds
to the invariant that a ticker that asked has its question in the queue, and that
no step stops a ticker behind a reader that still counts on it (`Asks`).

*Router.*  `TypeOK` and `PartitionIsTree` are inductive together.  From them,
`LeavesExist` shows that every point has one leaf, and `HomesKnown` that the owner
of a point is the owner of its leaf or else of the leaf's parent, as nothing is
mapped below a leaf.  `ClaimMoves` says what a claim does to the owners of all
points, split or not; both action properties follow from it.  The induction over
levels is done by taking the least counterexample, and that the recursive
function `Pow2` exists is proved in the module.

*Output.*  `OrderIsTail`: the queue of keys is the tail of what was published, so
that membership in `recent` speaks about the last `DedupeCap` rows.
`CellsOwned`: a cell over which a fix was published still belongs to the shard
that solved it, which uses that a claim never changes the owner of a mapped cell.

*Traffic.*  That the stops kept were made within `Keep` of one another follows
as each new one drops those of that age.  `StopsRemembered`: a stop that still binds is in `suppressed` under
its own time, whatever was cleaned up.  `ChannelAgrees`: what the feeder will
send once it has read the channel, the last line about an aircraft deciding, is
what was asked for and not stopped.

*PairModel.*  A sync pushes two observations, so the invariant `PairInv` is
shown to be kept by one.  `RefusedSince`: a model resting on an earlier epoch has
refused everything since the jump.  `Outrun`: when one direction's newest
observation is of an earlier epoch than the other's, it has refused all of the
other's newest run; the other needs `MinObs` of them to be usable, and by
`ResetAfterRejects` the first has started over.  `Distance` counts the good
observations that a direction may still need, whatever its gate makes of them: at
most `ResetAfterRejects - 1` refusals for each one taken, `Window` of which make
the model pure.  One push never raises it and lowers it unless it is zero
(`ObservationAdvances`); so does a good sync, which is two of them.

*Aircraft.*  `GroupsHeard` ties a waiting group to the last time the aircraft was
heard, `FixesAttempted` a fix to its attempt (from which fixes are a backoff
apart), `HeldCounted` what is held up to the speed gate's count, and `RowOfTrack`
the last row delivered to the track, so that lost rows do not matter.

*Cpr.*  `RoundTrips` is arithmetic over `TypeOK`.  A zone is a whole number of bins
in both coordinates (`LatBins`, `LonZone`), so a decoded position is on a bin
(`OnBin`, `LatBack`, `LonBack`).  A double beside it is encoded as that bin's field
and rounded to that bin, in its own zone or, slipped below a foot, from the one
before (`SlippedBack`); unless it is in the blind spot, the number of longitude
zones found there is the decoder's (`SameZones`), and the longitude comes back too
(`EncodedAgain`).  `Recovered` needs `FramesSent`
beside it: what is not made up was encoded where the aircraft was.  Each
coordinate is then placed alike.  A field is its coordinate to within half a bin
(`RoundedNear`), so under `Bears` the zone index is the number of zones between
the two (`IndexRight`), and both fields are put back into the zones they came
from (`PairPlaced`), up to whole turns.  For the latitude the sign of the
hemisphere leaves one turn (`Hemisphere`, `LatDecoded`); for the longitude the
way around is compared (`AroundIs`, `AroundLeast`, `LonDecoded`), once both frames
are seen to have been encoded with the zones that the decoder finds
(`SameZones`).  When nothing is decoded an edge lies between the two decoded
latitudes or one is past a pole (`EdgeBetween`, `NothingNear`).  The products of
zones and distances are named before the arithmetic solver sees them.

### Only model-checked

- `ReplacedCloses`, `DeadPeerCloses` and `Recovers`: fairness and `ENABLED` are
  beyond the prover.  What they rest on beside fairness is proved:
  `NoWakeupLost` that no one waits for an answer nobody owes, `RecoveryAdvances`
  the measure that good observations bring down.
- The three sentences refuted, which are false.

## Not modelled

- `solve.rs`, `mb-core` (geodesy), the sums of `clocksync.rs`, the fit of
  `track_prediction`, the filter of `track.rs`: numerics over doubles.  Where
  control depends on them, their verdict is a choice.  Quarantine depends on
  averages of residuals; whether a receiver is benched is part of such a choice.
- `decode.rs`, `alt.rs` and the CRC of `mb-modes`: bit layouts with golden tests.
  `ac12` and `ac13` round towards zero, so that -1024 to -1001 ft pass for -1000.
- `mb-proto`: zlib framing and message types; a frame that does not decode is
  one of `ReadEnds`'s causes, a batch too long to frame one of `WriterEnds`'s.
- SBS listener, CSV and JSON writers, the status line: I/O.  (The export's
  `tracking_receivers` in `state.rs` asks for aircraft older than `ac_log` ever keeps.)

## Plan

The modules above cover the parts of the system that keep state, and every
safety property is proved.  What is left:

1. Composition of `Connection` with the registry of `ShardState` in place of the
   Lease, for names and uuids end to end.
2. The longitude where the encoder finds other zones at the foot of one
   (`InSliver`), should the encoder be changed to wrap `rlat` as it wraps `yz`.
