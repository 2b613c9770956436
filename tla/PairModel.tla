------------------------------ MODULE PairModel ------------------------------
(***************************************************************************)
(* The two clock models of one receiver pair (crates/mlatd/src/clocksync.rs*)
(* and the training loop of on_sync in state.rs).                          *)
(*                                                                         *)
(* Every shared sync report gives both directions the same two             *)
(* observations, even frame and odd frame.  Each direction gates them,     *)
(* counts its rejections and starts over on its own.  Clocks jump without  *)
(* saying so; a jump is far outside both gates.                            *)
(*                                                                         *)
(* The regression is abstracted to which observations it rests on: the     *)
(* epoch (number of jumps so far) each was measured in, or Wild for a      *)
(* false one.  The decaying weights are a window: what is older has no say.*)
(* A model resting on one epoch alone takes that epoch's observations and  *)
(* refuses others; close to the gate, and for a mixed model, the outcome   *)
(* is either.                                                              *)
(***************************************************************************)
EXTENDS Naturals

CONSTANTS
    Window,              \* observations the decayed sums remember (~300)
    MinObs,              \* observations that reach MIN_WEIGHT (9)
    ResetAfterRejects,   \* RESET_AFTER_REJECTS (8)
    MaxJumps,            \* bound: clock jumps
    MaxOdd               \* bound: observations that are wild or close to the gate

ASSUME PairAssumption ==
    /\ Window \in Nat /\ MinObs \in Nat /\ ResetAfterRejects \in Nat \ {0}
    /\ ResetAfterRejects <= MinObs /\ MinObs <= Window
    /\ MaxJumps \in Nat /\ MaxOdd \in Nat

Wild == MaxJumps + 1
Direction == {"ab", "ba"}

VARIABLES
    epoch,    \* jumps so far
    since,    \* observations since the last jump
    model,    \* the PairModel of each direction
    nodd

vars == <<epoch, since, model, nodd>>

\* n observations, the newest run of them all measured in epoch tag; wide when
\* their spread reaches MIN_SPAN_S.
Fresh == [n |-> 0, run |-> 0, tag |-> 0, rejects |-> 0, wide |-> FALSE]

Init ==
    /\ epoch = 0
    /\ since = 0
    /\ model = [d \in Direction |-> Fresh]
    /\ nodd = 0

-----------------------------------------------------------------------------
(* PairModel::push *)

\* Mutant: half of the weight will do.
WeighsEarly(n) == 2 * n >= MinObs
Weighs(n) == n >= MinObs

Usable(m) == Weighs(m.n) /\ m.wide

\* Everything the model remembers was measured in one epoch.
Pure(m) == m.run = m.n /\ m.tag # Wild

\* May the gate let observation o through?  May it refuse it?
MayPass(m, o) == Pure(m) => o.tag = m.tag
MayRefuse(m, o) == Pure(m) => o.tag # m.tag \/ o.near

\* Mutants: one rejection too many; the model goes on with its old sums.
RejectedLate(m) ==
    IF m.rejects + 1 > ResetAfterRejects THEN Fresh ELSE [m EXCEPT !.rejects = @ + 1]
RejectedKept(m) == [m EXCEPT !.rejects = (@ + 1) % ResetAfterRejects]
Rejected(m) ==
    IF m.rejects + 1 >= ResetAfterRejects THEN Fresh ELSE [m EXCEPT !.rejects = @ + 1]

UpTo(bound, k) == IF k < bound THEN k ELSE bound

\* Only a warm model's gate clears the count of rejections.
Taken(m, o, wide) ==
    [n |-> UpTo(Window, m.n + 1),
     run |-> IF o.tag = m.tag THEN UpTo(Window, m.run + 1) ELSE 1,
     tag |-> o.tag,
     rejects |-> IF Usable(m) THEN 0 ELSE m.rejects,
     wide |-> wide]

\* The spread is asked for only once the weight is there.
Spread(n) == IF Weighs(n) THEN BOOLEAN ELSE {FALSE}

\* What push may leave of model m.  A model that is not usable takes anything.
Push(m, o) ==
    (IF Usable(m) /\ MayRefuse(m, o) THEN {Rejected(m)} ELSE {})
    \cup (IF Usable(m) => MayPass(m, o) THEN {Taken(m, o, w) : w \in Spread(m.n + 1)} ELSE {})

PushBoth(m, even, odd) == UNION {Push(x, odd) : x \in Push(m, even)}

-----------------------------------------------------------------------------
Good == [tag |-> epoch, near |-> FALSE]
Odd == {[tag |-> epoch, near |-> TRUE], [tag |-> Wild, near |-> FALSE]}

\* The clock jumped between the two frames of the pair.
Before == {[tag |-> e, near |-> FALSE] : e \in {f \in 0..MaxJumps : f + 1 = epoch /\ since = 0}}

Cost(even, odd) == (IF even \in Odd THEN 1 ELSE 0) + (IF odd \in Odd THEN 1 ELSE 0)

\* on_sync, for one earlier reporter: both observations, in both directions.
Sync(even, odd) ==
    /\ nodd + Cost(even, odd) <= MaxOdd
    /\ nodd' = nodd + Cost(even, odd)
    /\ since' = UpTo(ResetAfterRejects, since + (IF even \in Before THEN 1 ELSE 2))
    /\ model' \in [ab : PushBoth(model.ab, even, odd), ba : PushBoth(model.ba, even, odd)]
    /\ UNCHANGED epoch

SyncAny == \E even \in {Good} \cup Odd \cup Before, odd \in {Good} \cup Odd : Sync(even, odd)

Jump ==
    /\ epoch < MaxJumps
    /\ epoch' = epoch + 1
    /\ since' = 0
    /\ UNCHANGED <<model, nodd>>

\* clock_reset: the feeder says so, and both models go.
DeclaredJump ==
    /\ epoch < MaxJumps
    /\ epoch' = epoch + 1
    /\ since' = 0
    /\ model' = [d \in Direction |-> Fresh]
    /\ UNCHANGED nodd

Next == SyncAny \/ Jump \/ DeclaredJump

Spec == Init /\ [][Next]_vars

\* The pair goes on hearing the same aircraft.
FairSpec == Spec /\ WF_vars(Sync(Good, Good))

-----------------------------------------------------------------------------
(* Properties *)

\* The count of rejections stays under the limit, the window within its length.
TypeOK ==
    /\ epoch \in 0..MaxJumps
    /\ since \in 0..ResetAfterRejects
    /\ nodd \in 0..MaxOdd
    /\ model \in [Direction -> [n : 0..Window, run : 0..Window, tag : 0..Wild,
                                rejects : 0..(ResetAfterRejects - 1), wide : BOOLEAN]]

\* A model that converts between clocks of before a jump is gone by the eighth
\* observation after it, whatever outliers came between.
Warm(m) == Usable(m) /\ Pure(m)
StaleBounded ==
    \A d \in Direction : Warm(model[d]) /\ model[d].tag # epoch => since < ResetAfterRejects

\* The two directions never convert, each resting on one epoch alone, between
\* different clocks: the one that starts over first is not warm before the other
\* has dropped the old clock too, though each counts its rejections on its own.
DirectionsAgree ==
    Warm(model.ab) /\ Warm(model.ba) => model.ab.tag = model.ba.tag

\* However the clocks jumped and whatever was let in while a model was young,
\* both directions come to rest on the current clock, and stay there.
Recovers ==
    <>[](\A d \in Direction : model[d].n > 0 /\ Pure(model[d]) /\ model[d].tag = epoch)
===============================================================================
