------------------------------- MODULE Aircraft -------------------------------
(***************************************************************************)
(* What a shard keeps about one aircraft, and when it publishes a fix of   *)
(* it (crates/mlatd/src/state.rs: on_mlat, on_sync, sweep, expire_at and   *)
(* the gates of solve_cluster).                                            *)
(*                                                                         *)
(* ac_log lists the aircraft and its recent fixes; alts_ft, adsb_pos,      *)
(* tracks and filters are kept beside it.  A group heard waits for the     *)
(* sweep, which solves it in one or more clusters, reading the clock anew  *)
(* for each.  Every attempt meets, in order: backoff, solver, error        *)
(* ceiling, throttle, the track's gate on a four-receiver fix, and the     *)
(* speed gate, which drops the track after SpeedRejects refusals.          *)
(*                                                                         *)
(* A position is where the aircraft is or a ghost, too far from it to fly  *)
(* to before the track is stale.  What the numerics decide is a choice.    *)
(***************************************************************************)
EXTENDS Naturals, Sequences, FiniteSets

CONSTANTS
    MlatAdsb, EmitFiltered,   \* --mlat-adsb, the smoothed twin
    Backoff,        \* RESOLVE_BACKOFF_S (0.4)
    LooseWait,      \* silence that the throttle asks of a poor fix (err / 75 s)
    FitWindow,      \* FIT_WINDOW_S (10)
    Stale,          \* TRACK_STALE_S, and the reach of the speed gate (30)
    AcExpire,       \* AC_EXPIRE_S (300)
    MaxLag,         \* from a message's arrival stamp to the shard taking it in, at most
    SolveBy,        \* from a group's first message to its solve, at most
    SpeedRejects,   \* speed-gate refusals that drop the track (5)
    MaxGroups,      \* bound: groups waiting
    MaxTime         \* bound: time

ASSUME AircraftAssumption ==
    /\ MlatAdsb \in BOOLEAN /\ EmitFiltered \in BOOLEAN
    /\ Backoff \in Nat \ {0} /\ LooseWait \in Nat /\ FitWindow \in Nat /\ Stale \in Nat
    /\ AcExpire \in Nat /\ MaxLag \in Nat /\ SolveBy \in Nat /\ MaxLag + SolveBy < AcExpire
    /\ Backoff <= AcExpire
    /\ SpeedRejects \in Nat \ {0} /\ MaxGroups \in Nat /\ MaxTime \in Nat

VARIABLES
    now,
    ac,        \* ac_log entry: listed, last heard, times of its fixes
    alts, adsb, filters,   \* has the aircraft an entry there?
    track,     \* tracks entry
    pending,   \* groups waiting for their window
    ready,     \* groups of the sweep under way
    out,       \* ghost: the last row of this track that reached the output task
    leg,       \* ghost: fixes published on this track, up to 2
    held       \* ghost: good fixes refused since the last publication

vars == <<now, ac, alts, adsb, filters, track, pending, ready, out, leg, held>>
kept == <<ac, alts, adsb, filters, track>>
ghosts == <<out, leg, held>>

Position == {"true", "ghost"}
Group == [t : Nat, df17 : BOOLEAN]

NoAc == [listed |-> FALSE, seen |-> 0, fixes |-> <<>>]
NoTrack == [there |-> FALSE, last_pos |-> "none", last_time |-> 0, last_attempt |-> 0,
            last_gated |-> 0, speed_rejects |-> 0]
NoRow == [pos |-> "none", t |-> 0]

\* The zero of Track::default is long past when a shard starts.
Init ==
    /\ now = AcExpire
    /\ ac = NoAc
    /\ alts = FALSE /\ adsb = FALSE /\ filters = FALSE
    /\ track = NoTrack
    /\ pending = {} /\ ready = {}
    /\ out = NoRow /\ leg = 0 /\ held = 0

-----------------------------------------------------------------------------
(* Messages *)

\* Listed, and last heard at the message's arrival stamp.
Touched(lag) == [ac EXCEPT !.listed = TRUE, !.seen = now - lag]

\* The message joins the group of its frame, or starts one.
Grouped(df17) ==
    (IF \E g \in pending : g.df17 = df17 THEN {pending} ELSE {})
    \cup (IF Cardinality(pending) < MaxGroups
          THEN {pending \cup {[t |-> now, df17 |-> df17]}} ELSE {})

\* on_mlat: a DF4 with or without an altitude, a DF11 or, under --mlat-adsb, a DF17.
OnMlat(lag, df17, alt) ==
    /\ ready = {}
    /\ df17 => MlatAdsb /\ ~alt
    /\ ac' = Touched(lag)
    /\ alts' = (alts \/ alt)
    /\ pending' \in Grouped(df17)
    /\ UNCHANGED <<now, adsb, filters, track, ready, ghosts>>

\* on_sync of a pair that does not decode.
OnSyncUndecoded(lag) ==
    /\ ready = {}
    /\ ac' = Touched(lag)
    /\ UNCHANGED <<now, alts, adsb, filters, track, pending, ready, ghosts>>

OnSync(lag, alt) ==
    /\ ready = {}
    /\ ac' = Touched(lag)
    /\ alts' = (alts \/ alt)
    /\ adsb' = TRUE
    /\ IF MlatAdsb THEN pending' \in Grouped(TRUE) ELSE UNCHANGED pending
    /\ UNCHANGED <<now, filters, track, ready, ghosts>>

-----------------------------------------------------------------------------
(* sweep, state_json, expire_at *)

Live == ac.listed /\ now - ac.seen < AcExpire

\* Mutant: the tracks are kept, as they once were.
ExpireAtButTracks ==
    IF Live THEN UNCHANGED <<kept, ghosts>>
    ELSE /\ ac' = NoAc
         /\ alts' = FALSE /\ adsb' = FALSE /\ filters' = FALSE
         /\ UNCHANGED <<track, ghosts>>

\* An aircraft not heard for AcExpire leaves every map.
ExpireAt ==
    IF Live THEN UNCHANGED <<kept, ghosts>>
    ELSE /\ ac' = NoAc
         /\ alts' = FALSE /\ adsb' = FALSE /\ filters' = FALSE
         /\ track' = NoTrack
         /\ out' = NoRow /\ leg' = 0 /\ held' = 0

\* The expiry pass if it is due, then the groups that have waited their window:
\* any, as the window is not part of this model.
Sweep(groups) ==
    /\ ready = {}
    /\ groups \subseteq pending
    /\ ready' = groups
    /\ pending' = pending \ groups
    /\ ExpireAt \/ UNCHANGED <<kept, ghosts>>
    /\ UNCHANGED now

\* state_json expires too.
StateJson ==
    /\ ready = {}
    /\ ExpireAt
    /\ UNCHANGED <<now, pending, ready>>

\* Nobody waits longer than SolveBy.
Tick ==
    /\ now < MaxTime
    /\ \A g \in pending \cup ready : now < g.t + SolveBy
    /\ now' = now + 1
    /\ UNCHANGED <<kept, pending, ready, ghosts>>

-----------------------------------------------------------------------------
(* solve_cluster *)

\* What the solver may say of a cluster of n receivers: the silence the fix's
\* error asks for, or NoFix for no solution or one beyond MAX_ERR_M; where; and
\* whether the track's prediction can put the aircraft there.  Five stands for
\* five and more: beyond 16 the most precise 16 are kept.
NoFix == LooseWait + 1
Solution ==
    {sol \in [n : {4, 5}, wait : {0, LooseWait, NoFix}, pos : Position, fits : BOOLEAN] :
        /\ sol.n = 5 => sol.fits
        /\ sol.wait = NoFix => sol.pos = "true" /\ sol.fits}

\* track_prediction, which only a four-receiver fix meets.
Gated(sol) ==
    sol.n = 4 /\ ac.fixes # <<>> /\ now - ac.fixes[Len(ac.fixes)] < Stale

Latest(a, b) == IF a < b THEN b ELSE a
LastAttempt(gated) ==
    IF gated THEN Latest(track.last_attempt, track.last_gated) ELSE track.last_attempt
BackedOff(gated) == now < LastAttempt(gated) + Backoff

\* The track with this attempt on it.
Attempted(gated) ==
    IF gated THEN [track EXCEPT !.there = TRUE, !.last_gated = now]
    ELSE [track EXCEPT !.there = TRUE, !.last_attempt = now]

Elapsed == now - track.last_time
Tracked == track.last_pos # "none"

Throttled(sol) == Tracked /\ Elapsed < sol.wait
Inconsistent(sol) == Gated(sol) /\ ~sol.fits
TooFast(sol) == Tracked /\ track.last_pos # sol.pos /\ 0 < Elapsed /\ Elapsed < Stale

\* A cluster of the group, its last or not.
Cluster(g) ==
    /\ g \in ready
    /\ ready' \in {ready, ready \ {g}}
    /\ UNCHANGED <<now, pending>>

\* Fewer than four members, conversions or observations.
TooFew(g) ==
    /\ g \in ready
    /\ ready' = ready \ {g}
    /\ UNCHANGED <<now, pending, kept, ghosts>>

\* The track is entered before the altitude is asked for, and the backoff.
HeldBack(g, sol) ==
    /\ Cluster(g)
    /\ ~alts \/ BackedOff(Gated(sol))
    /\ track' = [track EXCEPT !.there = TRUE]
    /\ UNCHANGED <<ac, alts, adsb, filters, ghosts>>

Attempt(g, sol) == Cluster(g) /\ alts /\ ~BackedOff(Gated(sol))

Good(g, sol) == sol.wait = 0 /\ sol.pos = "true" /\ ~Gated(sol) /\ ~g.df17
Held(g, sol) == IF Good(g, sol) THEN held + 1 ELSE held

\* Unsolved, beyond the ceiling, too soon for its error, or off the track.
Refuse(g, sol) ==
    /\ Attempt(g, sol)
    /\ sol.wait = NoFix \/ Throttled(sol) \/ Inconsistent(sol)
    /\ track' = Attempted(Gated(sol))
    /\ held' = Held(g, sol)
    /\ UNCHANGED <<ac, alts, adsb, filters, out, leg>>

Plausible(g, sol) ==
    /\ Attempt(g, sol)
    /\ sol.wait # NoFix /\ ~Throttled(sol) /\ ~Inconsistent(sol)

\* Mutants: one refusal too many; the count starts over and the position stays;
\* the fixes stay.
SpeedRefusedLate(t) ==
    IF t.speed_rejects + 1 > SpeedRejects
    THEN [t EXCEPT !.last_pos = "none", !.speed_rejects = 0]
    ELSE [t EXCEPT !.speed_rejects = @ + 1]
SpeedRefusedInPlace(t) == [t EXCEPT !.speed_rejects = (@ + 1) % SpeedRejects]
FixesKept(t) == ac.fixes

SpeedRefused(t) ==
    IF t.speed_rejects + 1 >= SpeedRejects
    THEN [t EXCEPT !.last_pos = "none", !.speed_rejects = 0]
    ELSE [t EXCEPT !.speed_rejects = @ + 1]
FixesAfter(t) == IF t.last_pos = "none" THEN <<>> ELSE ac.fixes

RefuseTooFast(g, sol) ==
    /\ Plausible(g, sol) /\ TooFast(sol)
    /\ track' = SpeedRefused(Attempted(Gated(sol)))
    /\ ac' = [ac EXCEPT !.fixes = FixesAfter(track')]
    /\ held' = Held(g, sol)
    /\ out' = IF track'.last_pos = "none" THEN NoRow ELSE out
    /\ leg' = IF track'.last_pos = "none" THEN 0 ELSE leg
    /\ UNCHANGED <<alts, adsb, filters>>

\* A DF17 fix is scored against the aircraft's own word, and goes no further.
SelfTruth(g, sol) ==
    /\ Plausible(g, sol) /\ ~TooFast(sol) /\ g.df17
    /\ track' = Attempted(Gated(sol))
    /\ UNCHANGED <<ac, alts, adsb, filters, ghosts>>

\* Mutant: the last two are trimmed too.
TrimmedToWindow(fixes) == SelectSeq(fixes, LAMBDA t : now - t <= FitWindow)

\* From the front, while there are more than two, those older than FitWindow.
Trimmed(fixes) ==
    LET n == Len(fixes)
        first == CHOOSE i \in 1..n :
                    /\ i + 1 >= n \/ now - fixes[i] <= FitWindow
                    /\ \A j \in 1..(i - 1) : j + 1 < n /\ now - fixes[j] > FitWindow
    IN  SubSeq(fixes, first, n)

\* Mutant: a published fix is an attempt only if it was not gated.
PublishedUnstamped(gated, pos) ==
    [Attempted(gated) EXCEPT !.last_pos = pos, !.last_time = now, !.speed_rejects = 0]

\* A published fix is an attempt, gated or not.
Published(gated, pos) ==
    [Attempted(gated) EXCEPT !.last_pos = pos, !.last_time = now, !.last_attempt = now,
                             !.speed_rejects = 0]

\* The books are closed before emit tries the output channel.
Publish(g, sol, delivered) ==
    /\ Plausible(g, sol) /\ ~TooFast(sol) /\ ~g.df17
    /\ track' = Published(Gated(sol), sol.pos)
    /\ ac' = [ac EXCEPT !.listed = TRUE, !.fixes = Trimmed(Append(@, now))]
    /\ filters' = (filters \/ EmitFiltered)
    /\ out' = IF delivered THEN [pos |-> sol.pos, t |-> now] ELSE out
    /\ leg' = IF leg = 2 THEN 2 ELSE leg + 1
    /\ held' = 0
    /\ UNCHANGED <<alts, adsb>>

-----------------------------------------------------------------------------
Hear(lag) ==
    \/ \E df17, alt \in BOOLEAN : OnMlat(lag, df17, alt)
    \/ OnSyncUndecoded(lag)
    \/ \E alt \in BOOLEAN : OnSync(lag, alt)

SolveCluster(g, sol) ==
    \/ HeldBack(g, sol)
    \/ Refuse(g, sol)
    \/ RefuseTooFast(g, sol)
    \/ SelfTruth(g, sol)
    \/ \E delivered \in BOOLEAN : Publish(g, sol, delivered)

Next ==
    \/ \E lag \in 0..MaxLag : Hear(lag)
    \/ \E groups \in SUBSET pending : Sweep(groups)
    \/ \E g \in ready : TooFew(g)
    \/ \E g \in ready, sol \in Solution : SolveCluster(g, sol)
    \/ StateJson
    \/ Tick

Spec == Init /\ [][Next]_vars

-----------------------------------------------------------------------------
(* Properties *)

\* Every variable keeps to its type; the speed gate's count stays under its limit.
TypeOK ==
    /\ now \in Nat
    /\ ac \in [listed : BOOLEAN, seen : Nat, fixes : Seq(Nat)]
    /\ alts \in BOOLEAN /\ adsb \in BOOLEAN /\ filters \in BOOLEAN
    /\ track \in [there : BOOLEAN, last_pos : Position \cup {"none"}, last_time : Nat,
                   last_attempt : Nat, last_gated : Nat, speed_rejects : 0..(SpeedRejects - 1)]
    /\ pending \subseteq Group /\ ready \subseteq Group
    /\ out \in [pos : Position \cup {"none"}, t : Nat]
    /\ leg \in 0..2 /\ held \in Nat

\* ac_log membership is the one rule: what any map holds of an aircraft, ac_log
\* lists, though groups are solved long after they were heard and expiry runs
\* between.  An entry ac_log does not list would outlive every expiry pass.
MapsFollowLog == alts \/ adsb \/ filters \/ track.there => ac.listed

\* The track and the fixes the export and the four-receiver gate read are of one
\* mind: the newest fix is the track's last, and a track dropped by the speed gate
\* leaves no fixes to gate against.
TrackFixesAgree ==
    /\ Tracked <=> ac.fixes # <<>>
    /\ Tracked => ac.fixes[Len(ac.fixes)] = track.last_time

\* The fixes kept are those of this track, oldest first, each at least a backoff
\* after the one before; at least two once two are published, and beyond the last
\* two none older than FitWindow.
FixesRecent ==
    LET n == Len(ac.fixes)
    IN  /\ \A i \in 1..(n - 1) : ac.fixes[i] + Backoff <= ac.fixes[i + 1]
        /\ \A i \in 1..n : i + 2 <= n => ac.fixes[n] - ac.fixes[i] <= FitWindow
        /\ n >= leg

\* One bad fix cannot suppress a correct stream: of tight fixes where the aircraft
\* is, by more than four receivers or without a live track, no more than
\* SpeedRejects are refused in a row.
Unsuppressed == held <= SpeedRejects

\* Rows of one track that reach the output never jump: two of them, one after the
\* other, apart by more than the aircraft can fly, are at least Stale apart,
\* whatever rows were lost between and however gated and ungated attempts mixed.
Continuity ==
    [][out.pos # "none" /\ out'.pos # "none" /\ out'.pos # out.pos => out'.t >= out.t + Stale]_vars
===============================================================================
