--------------------------- MODULE PairModelProofs ---------------------------
(***************************************************************************)
(* Proofs about PairModel, for every window, weight, limit of rejections   *)
(* and number of jumps.  A sync pushes two observations, so everything is  *)
(* argued one observation at a time: PairInv(x, y, s) is what holds of the *)
(* two directions' models x and y when s observations followed the last    *)
(* jump, and ObservationKeepsPair says that pushing one observation to     *)
(* both keeps it.                                                          *)
(***************************************************************************)
EXTENDS PairModel, TLAPS

ModelType == [n : 0..Window, run : 0..Window, tag : 0..Wild,
              rejects : 0..(ResetAfterRejects - 1), wide : BOOLEAN]

\* No observation is of an epoch to come.
TagKnown(m) == m.tag <= epoch \/ m.tag = Wild

\* The newest run is of what the model remembers; an empty model rests on nothing.
RunWithin(m) == m.run <= m.n

\* A model whose newest observation is of before the jump has refused every
\* observation that followed the jump.
RefusedSince(m, s) == m.n > 0 /\ m.tag # epoch /\ m.tag # Wild => s <= m.rejects

\* Before the first observation after a jump, nothing rests on the new epoch.
NoneYet(m, s) == s = 0 /\ m.n > 0 => m.tag # epoch

\* When y's newest observation is of an earlier epoch than x's, y has refused
\* all of those x's newest run consists of.
Outrun(x, y) ==
    x.n > 0 /\ y.n > 0 /\ x.tag # Wild /\ y.tag < x.tag => x.run <= y.rejects

ModelInv(m, s) ==
    /\ m \in ModelType
    /\ TagKnown(m) /\ RunWithin(m)
    /\ RefusedSince(m, s) /\ NoneYet(m, s)
PairInv(x, y, s) == ModelInv(x, s) /\ ModelInv(y, s) /\ Outrun(x, y) /\ Outrun(y, x)

\* The inductive invariant.
IInv ==
    /\ epoch \in 0..MaxJumps
    /\ since \in 0..ResetAfterRejects
    /\ nodd \in 0..MaxOdd
    /\ model = [d \in Direction |-> model[d]]
    /\ PairInv(model.ab, model.ba, since)

-----------------------------------------------------------------------------

\* What the gate may do with one observation: the model starts over, counts a
\* rejection, or takes the observation as its newest.
LEMMA PushOutcome ==
    ASSUME NEW m \in ModelType, NEW o \in [tag : 0..Wild, near : BOOLEAN], NEW x \in Push(m, o)
    PROVE  /\ x \in ModelType
           /\ \/ x = Fresh
              \/ /\ x.n = m.n /\ x.run = m.run /\ x.tag = m.tag
                 /\ x.rejects = m.rejects + 1
              \/ /\ x.n > 0 /\ x.n = UpTo(Window, m.n + 1) /\ x.tag = o.tag
                 /\ x.run = IF o.tag = m.tag THEN UpTo(Window, m.run + 1) ELSE 1
                 /\ x.rejects \in {0, m.rejects}
<1> USE PairAssumption DEF ModelType, Wild
<1>1. ASSUME x = Rejected(m)
      PROVE  /\ x \in ModelType
             /\ \/ x = Fresh
                \/ /\ x.n = m.n /\ x.run = m.run /\ x.tag = m.tag
                   /\ x.rejects = m.rejects + 1
  BY <1>1 DEF Rejected, Fresh
<1>2. ASSUME NEW w \in BOOLEAN, x = Taken(m, o, w)
      PROVE  /\ x \in ModelType
             /\ x.n > 0 /\ x.n = UpTo(Window, m.n + 1) /\ x.tag = o.tag
             /\ x.run = IF o.tag = m.tag THEN UpTo(Window, m.run + 1) ELSE 1
             /\ x.rejects \in {0, m.rejects}
  BY <1>2 DEF Taken, UpTo
<1>3. x = Rejected(m) \/ \E w \in BOOLEAN : x = Taken(m, o, w)
  BY DEF Push, Spread
<1> QED
  BY <1>1, <1>2, <1>3

\* One observation, of the current epoch or a false one (and then s counts it), or
\* of just before a jump nothing was measured since, pushed to both directions.
LEMMA ObservationKeepsPair ==
    ASSUME epoch \in 0..MaxJumps,
           NEW s \in 0..ResetAfterRejects, NEW s1,
           NEW o \in [tag : 0..Wild, near : BOOLEAN],
           \/ o.tag \in {epoch, Wild} /\ s1 = UpTo(ResetAfterRejects, s + 1)
           \/ o.tag + 1 = epoch /\ s = 0 /\ s1 = 0,
           NEW x, NEW y, PairInv(x, y, s),
           NEW x1 \in Push(x, o), NEW y1 \in Push(y, o)
    PROVE  PairInv(x1, y1, s1)
<1> USE PairAssumption
<1>0. x \in ModelType /\ y \in ModelType
  BY DEF PairInv, ModelInv
<1>1. ASSUME NEW m \in ModelType, ModelInv(m, s), NEW m1 \in Push(m, o)
      PROVE  ModelInv(m1, s1)
  <2>1. m1 \in ModelType
    BY <1>1, PushOutcome
  <2>2. CASE m1 = Fresh
    BY <2>1, <2>2 DEF ModelInv, TagKnown, RunWithin, RefusedSince, NoneYet, Fresh, Wild
  <2>3. CASE /\ m1.n = m.n /\ m1.run = m.run /\ m1.tag = m.tag
             /\ m1.rejects = m.rejects + 1
    BY <1>1, <2>1, <2>3
       DEF ModelInv, ModelType, TagKnown, RunWithin, RefusedSince, NoneYet, UpTo, Wild
  <2>4. CASE /\ m1.n > 0 /\ m1.n = UpTo(Window, m.n + 1) /\ m1.tag = o.tag
             /\ m1.run = IF o.tag = m.tag THEN UpTo(Window, m.run + 1) ELSE 1
    BY <1>1, <2>1, <2>4
       DEF ModelInv, ModelType, TagKnown, RunWithin, RefusedSince, NoneYet, UpTo, Wild
  <2> QED
    BY <1>1, <2>2, <2>3, <2>4, PushOutcome
<1>2. ASSUME NEW a \in ModelType, NEW b \in ModelType, ModelInv(a, s), ModelInv(b, s),
             Outrun(a, b), NEW a1 \in Push(a, o), NEW b1 \in Push(b, o)
      PROVE  Outrun(a1, b1)
  <2> SUFFICES ASSUME a1.n > 0, b1.n > 0, a1.tag # Wild, b1.tag < a1.tag
               PROVE  a1.run <= b1.rejects
    BY DEF Outrun
  <2>1. a1 \in ModelType /\ b1 \in ModelType
    BY <1>2, PushOutcome
  <2>2. a1 # Fresh /\ b1 # Fresh
    BY <2>1 DEF Fresh, ModelType
  \* The older one did not take o: nothing is newer than o.
  <2>3. b1.tag # o.tag
    BY <1>1, <1>2, <2>1 DEF ModelInv, ModelType, TagKnown, NoneYet, Wild
  <2>4. b1.n = b.n /\ b1.tag = b.tag /\ b1.rejects = b.rejects + 1
    BY <1>2, <2>2, <2>3, PushOutcome
  <2>5. CASE a1.n = a.n /\ a1.run = a.run /\ a1.tag = a.tag
    BY <1>2, <2>1, <2>4, <2>5 DEF Outrun, ModelType
  <2>6. CASE /\ a1.tag = o.tag
             /\ a1.run = IF o.tag = a.tag THEN UpTo(Window, a.run + 1) ELSE 1
    <3>1. CASE o.tag = a.tag
      BY <1>2, <2>1, <2>4, <2>6, <3>1 DEF Outrun, ModelInv, ModelType, RunWithin, UpTo
    <3>2. CASE o.tag # a.tag
      BY <1>2, <2>1, <2>4, <2>6, <3>2 DEF ModelType
    <3> QED
      BY <3>1, <3>2
  <2> QED
    BY <1>2, <2>2, <2>5, <2>6, PushOutcome
<1> QED
  BY <1>0, <1>1, <1>2 DEF PairInv

\* The whole of a sync: even frame, then odd frame.
LEMMA SyncKeepsPair ==
    ASSUME IInv, NEW even \in {Good} \cup Odd \cup Before, NEW odd \in {Good} \cup Odd,
           Sync(even, odd)
    PROVE  IInv'
<1> USE PairAssumption
<1> DEFINE Obs == [tag : 0..Wild, near : BOOLEAN]
           s1 == IF even \in Before THEN since ELSE UpTo(ResetAfterRejects, since + 1)
<1>1. /\ epoch \in 0..MaxJumps /\ since \in 0..ResetAfterRejects /\ nodd \in 0..MaxOdd
      /\ PairInv(model.ab, model.ba, since)
  BY DEF IInv
<1>2. even \in Obs /\ odd \in Obs /\ odd.tag \in {epoch, Wild}
  <2>1. Good \in Obs /\ Odd \subseteq Obs
    BY <1>1 DEF Good, Odd, Wild
  <2>2. ASSUME NEW b \in Before PROVE b \in Obs
    <3>1. PICK e \in 0..MaxJumps : b = [tag |-> e, near |-> FALSE]
      BY <2>2 DEF Before
    <3>2. e \in 0..Wild /\ FALSE \in BOOLEAN
      BY DEF Wild
    <3> QED
      BY <3>1, <3>2
  <2>3. odd.tag \in {epoch, Wild}
    BY DEF Good, Odd
  <2> QED
    BY <2>1, <2>2, <2>3
<1>3. /\ s1 \in 0..ResetAfterRejects
      /\ \/ even.tag \in {epoch, Wild} /\ s1 = UpTo(ResetAfterRejects, since + 1)
         \/ even.tag + 1 = epoch /\ since = 0 /\ s1 = 0
  BY <1>1 DEF Good, Odd, Before, Wild, UpTo
<1>4. since' = UpTo(ResetAfterRejects, s1 + 1) /\ since' \in 0..ResetAfterRejects
  BY <1>1 DEF Sync, UpTo, Before
<1>5. model' = [d \in Direction |-> model'[d]]
      /\ model'.ab \in PushBoth(model.ab, even, odd)
      /\ model'.ba \in PushBoth(model.ba, even, odd)
  BY DEF Sync, Direction
<1>6. PICK x \in Push(model.ab, even) : model'.ab \in Push(x, odd)
  BY <1>5 DEF PushBoth
<1>7. PICK y \in Push(model.ba, even) : model'.ba \in Push(y, odd)
  BY <1>5 DEF PushBoth
<1>8. PairInv(x, y, s1)
  <2> HIDE DEF s1
  <2> QED
    BY <1>1, <1>2, <1>3, <1>6, <1>7, ObservationKeepsPair
<1>9. PairInv(model'.ab, model'.ba, since')
  <2> HIDE DEF s1
  <2> QED
    BY <1>1, <1>2, <1>3, <1>4, <1>6, <1>7, <1>8, ObservationKeepsPair
<1>10. epoch' = epoch /\ nodd' \in 0..MaxOdd
  BY <1>1 DEF Sync, Cost
<1> QED
  BY <1>1, <1>4, <1>5, <1>9, <1>10
     DEF IInv, PairInv, ModelInv, TagKnown, RunWithin, RefusedSince, NoneYet, Outrun

\* Two models that have just started satisfy the invariant in any epoch.
LEMMA FreshPair ==
    ASSUME epoch \in 0..MaxJumps
    PROVE  PairInv(Fresh, Fresh, 0)
BY PairAssumption DEF PairInv, ModelInv, ModelType, TagKnown, RunWithin, RefusedSince, NoneYet,
                      Outrun, Fresh, Wild

\* A silent jump makes every model an old one, which has refused nothing yet.
LEMMA JumpKeeps == IInv /\ Jump => IInv'
<1> SUFFICES ASSUME IInv, Jump PROVE IInv'
  OBVIOUS
<1> USE PairAssumption
<1>1. /\ epoch \in 0..MaxJumps /\ since \in 0..ResetAfterRejects /\ nodd \in 0..MaxOdd
      /\ PairInv(model.ab, model.ba, since)
  BY DEF IInv
<1>2. epoch' = epoch + 1 /\ epoch' \in 0..MaxJumps /\ since' = 0 /\ model' = model /\ nodd' = nodd
  BY <1>1 DEF Jump
<1>3. ASSUME NEW m, ModelInv(m, since) PROVE ModelInv(m, 0)'
  BY <1>1, <1>2, <1>3 DEF ModelInv, ModelType, TagKnown, RunWithin, RefusedSince, NoneYet, Wild
<1>4. PairInv(model.ab, model.ba, 0)'
  BY <1>1, <1>2, <1>3 DEF PairInv, Outrun
<1> QED
  BY <1>1, <1>2, <1>4 DEF IInv

\* A declared jump starts both directions over.
LEMMA DeclaredJumpKeeps == IInv /\ DeclaredJump => IInv'
<1> SUFFICES ASSUME IInv, DeclaredJump PROVE IInv'
  OBVIOUS
<1> USE PairAssumption
<1>1. epoch' \in 0..MaxJumps /\ since' = 0 /\ nodd' \in 0..MaxOdd
  BY DEF IInv, DeclaredJump
<1>2. /\ model' = [d \in Direction |-> model'[d]]
      /\ model'.ab = Fresh /\ model'.ba = Fresh
  BY DEF DeclaredJump, Direction
<1>3. PairInv(Fresh, Fresh, 0)'
  BY <1>1 DEF PairInv, ModelInv, ModelType, TagKnown, RunWithin, RefusedSince, NoneYet,
                      Outrun, Fresh, Wild
<1> QED
  BY <1>1, <1>2, <1>3 DEF IInv

\* Nothing a sync, a jump or a declared jump does breaks the invariant: along every
\* run it holds of the two models of a pair.
THEOREM PairInvariant == Spec => []IInv
<1>1. Init => IInv
  <2> SUFFICES ASSUME Init PROVE IInv
    OBVIOUS
  <2>1. model = [d \in Direction |-> model[d]] /\ model.ab = Fresh /\ model.ba = Fresh
    BY DEF Init, Direction
  <2> QED
    BY <2>1, PairAssumption, FreshPair DEF Init, IInv
<1>2. IInv /\ [Next]_vars => IInv'
  <2> SUFFICES ASSUME IInv, [Next]_vars PROVE IInv'
    OBVIOUS
  <2>1. CASE SyncAny
    BY <2>1, SyncKeepsPair DEF SyncAny
  <2>2. CASE Jump \/ DeclaredJump
    BY <2>2, JumpKeeps, DeclaredJumpKeeps
  <2>3. CASE UNCHANGED vars
    BY <2>3 DEF vars, IInv, PairInv, ModelInv, TagKnown, RunWithin, RefusedSince, NoneYet, Outrun
  <2> QED
    BY <2>1, <2>2, <2>3 DEF Next
<1> QED
  BY <1>1, <1>2, PTL DEF Spec

\* The count of rejections stays under RESET_AFTER_REJECTS, and the other fields of
\* both models to their types, through every sync and clock_reset.
THEOREM PairTypeCorrect == Spec => []TypeOK
<1>1. IInv => TypeOK
  BY DEF IInv, TypeOK, PairInv, ModelInv, ModelType, Direction
<1> QED
  BY <1>1, PairInvariant, PTL

\* PairModel::push drops a model resting on the clock of before a jump by the eighth
\* observation after it: the model refuses all of them, false ones included, and
\* RESET_AFTER_REJECTS refusals in a row start it over.
THEOREM StaleModelsBounded == Spec => []StaleBounded
<1>1. ASSUME IInv PROVE StaleBounded
  <2> SUFFICES ASSUME NEW d \in Direction, Warm(model[d]), model[d].tag # epoch
               PROVE  since < ResetAfterRejects
    BY DEF StaleBounded
  <2>1. ModelInv(model[d], since)
    BY <1>1 DEF IInv, PairInv, Direction
  <2> QED
    BY <1>1, <2>1, PairAssumption
       DEF IInv, ModelInv, ModelType, RefusedSince, Warm, Usable, Weighs, Pure
<1> QED
  BY <1>1, PairInvariant, PTL

\* Both directions of a pair, when usable and each resting on one clock epoch alone,
\* rest on the same one: the direction that is ahead needs MinObs observations of
\* the new epoch to be usable, and the other was dropped after ResetAfterRejects of
\* them, which are no more.
THEOREM DirectionsNeverDisagree == Spec => []DirectionsAgree
<1>1. ASSUME NEW x, NEW y, PairInv(x, y, since), Warm(x), Warm(y) PROVE ~(y.tag < x.tag)
  BY <1>1, PairAssumption
     DEF PairInv, ModelInv, ModelType, Outrun, Warm, Usable, Weighs, Pure
<1>2. IInv => DirectionsAgree
  <2> SUFFICES ASSUME IInv, Warm(model.ab), Warm(model.ba) PROVE model.ab.tag = model.ba.tag
    BY DEF DirectionsAgree
  <2>1. PairInv(model.ab, model.ba, since) /\ PairInv(model.ba, model.ab, since)
    BY DEF IInv, PairInv
  <2>2. ~(model.ba.tag < model.ab.tag) /\ ~(model.ab.tag < model.ba.tag)
    BY <1>1, <2>1
  <2> QED
    BY <2>1, <2>2, PairAssumption DEF PairInv, ModelInv, ModelType, Wild
<1> QED
  BY <1>2, PairInvariant, PTL

-----------------------------------------------------------------------------
(* The way back to the current clock *)

\* A direction has come to rest when all it remembers is of the current epoch.
Rested(m) == m.n > 0 /\ Pure(m) /\ m.tag = epoch

\* The observations of the current epoch that a model's newest run consists of.
Current(m) == IF m.tag = epoch THEN m.run ELSE 0

\* The most good observations a model may need to come to rest, whatever the gate makes
\* of each: ResetAfterRejects - 1 refusals for each one that it takes, and one more when
\* it starts over.
Distance(m) ==
    IF Rested(m) THEN 0
    ELSE IF m.n = 0 THEN 1
    ELSE (Window - Current(m)) * ResetAfterRejects + (ResetAfterRejects - m.rejects) + 1

\* What a model of the invariant has left.
LEMMA DistanceType ==
    ASSUME epoch \in 0..MaxJumps, NEW m \in ModelType, RunWithin(m)
    PROVE  Distance(m) \in 0..((Window + 1) * ResetAfterRejects + 1)
<1> USE PairAssumption
<1> DEFINE k == Window - Current(m)
           e == k * ResetAfterRejects
           f == Window * ResetAfterRejects
<1>1. k \in 0..Window /\ ResetAfterRejects - m.rejects \in 1..ResetAfterRejects
  BY DEF Current, ModelType
<1>2. e \in Nat /\ e <= f /\ f \in Nat /\ (Window + 1) * ResetAfterRejects = f + ResetAfterRejects
  <2> HIDE DEF k
  <2>1. k * ResetAfterRejects <= Window * ResetAfterRejects
    BY <1>1
  <2> QED
    BY <1>1, <2>1
<1>3. Distance(m) \in {0, 1, e + (ResetAfterRejects - m.rejects) + 1}
  BY DEF Distance
<1> HIDE DEF e, f
<1> QED
  BY <1>1, <1>2, <1>3

\* A good observation brings a model nearer to rest, or finds or leaves it there.
LEMMA ObservationAdvances ==
    ASSUME epoch \in 0..MaxJumps, NEW m \in ModelType, RunWithin(m), NEW x \in Push(m, Good)
    PROVE  /\ x \in ModelType /\ RunWithin(x)
           /\ Distance(x) = 0 \/ Distance(x) + 1 <= Distance(m)
<1> USE PairAssumption
<1>0. /\ Good \in [tag : 0..Wild, near : BOOLEAN] /\ Good.tag = epoch /\ Good.near = FALSE
      /\ epoch # Wild
  BY DEF Good, Wild
<1>1. /\ x \in ModelType
      /\ \/ x = Fresh
         \/ /\ x.n = m.n /\ x.run = m.run /\ x.tag = m.tag
            /\ x.rejects = m.rejects + 1
         \/ /\ x.n > 0 /\ x.n = UpTo(Window, m.n + 1) /\ x.tag = epoch
            /\ x.run = IF epoch = m.tag THEN UpTo(Window, m.run + 1) ELSE 1
            /\ x.rejects \in {0, m.rejects}
  BY <1>0, PushOutcome
<1>2. RunWithin(x)
  BY <1>1 DEF RunWithin, Fresh, UpTo, ModelType
<1>3. ASSUME ~(Usable(m) /\ MayRefuse(m, Good))
      PROVE  /\ x.n = UpTo(Window, m.n + 1) /\ x.tag = epoch
             /\ x.run = IF epoch = m.tag THEN UpTo(Window, m.run + 1) ELSE 1
  <2>1. \E w \in BOOLEAN : x = Taken(m, Good, w)
    BY <1>3 DEF Push, Spread
  <2> QED
    BY <1>0, <2>1 DEF Taken
<1>4. CASE Rested(m)
  <2>1. ~MayRefuse(m, Good)
    BY <1>0, <1>4 DEF Rested, MayRefuse
  <2>2. Rested(x)
    BY <1>0, <1>1, <1>3, <1>4, <2>1 DEF Rested, Pure, UpTo, ModelType
  <2> QED
    BY <1>1, <1>2, <2>2 DEF Distance
<1>5. CASE ~Rested(m) /\ m.n = 0
  <2>1. ~Usable(m) /\ m.run = 0
    BY <1>5 DEF Usable, Weighs, RunWithin, ModelType
  <2>2. Rested(x)
    BY <1>0, <1>1, <1>3, <1>5, <2>1 DEF Rested, Pure, UpTo, ModelType
  <2> QED
    BY <1>1, <1>2, <2>2 DEF Distance
<1>6. CASE ~Rested(m) /\ m.n # 0
  <2> DEFINE k == Window - Current(m)
             R == ResetAfterRejects
  <2>1. Distance(m) = k * R + (R - m.rejects) + 1
    BY <1>6 DEF Distance
  <2>2. k \in Nat /\ k * R \in Nat /\ R - m.rejects \in 1..R /\ m.rejects \in Nat
    <3>1. k \in Nat /\ R - m.rejects \in 1..R /\ m.rejects \in Nat
      BY DEF Current, ModelType
    <3> HIDE DEF k
    <3> QED
      BY <3>1
  <2>3. CASE x = Fresh
    <3>1. Distance(x) = 1
      BY <2>3 DEF Distance, Rested, Fresh
    <3> HIDE DEF k
    <3> QED
      BY <1>1, <1>2, <2>1, <2>2, <3>1
  <2>4. CASE /\ x.n = m.n /\ x.run = m.run /\ x.tag = m.tag
             /\ x.rejects = m.rejects + 1
    <3>1. Distance(x) = k * R + (R - (m.rejects + 1)) + 1
      BY <1>6, <2>4 DEF Distance, Rested, Pure, Current
    <3> HIDE DEF k
    <3> QED
      BY <1>1, <1>2, <2>1, <2>2, <3>1
  <2>5. CASE /\ x.n > 0 /\ x.n = UpTo(Window, m.n + 1) /\ x.tag = epoch
             /\ x.run = IF epoch = m.tag THEN UpTo(Window, m.run + 1) ELSE 1
             /\ x.rejects \in {0, m.rejects}
    <3>1. CASE Rested(x)
      BY <1>1, <1>2, <3>1 DEF Distance
    <3>2. CASE ~Rested(x)
      <4>1. k > 0
        BY <1>0, <1>6 DEF Current, Rested, Pure, RunWithin, ModelType
      <4>2. Current(x) = Current(m) + 1
        BY <2>5, <4>1 DEF Current, UpTo, ModelType
      <4>3. Window - Current(x) = k - 1
        BY <4>2 DEF Current, ModelType
      <4>4. Distance(x) = (k - 1) * R + (R - x.rejects) + 1
        BY <2>5, <3>2, <4>3 DEF Distance
      <4>5. x.rejects \in Nat /\ R - x.rejects <= R
        BY <2>2, <2>5
      <4> HIDE DEF k
      <4>6. (k - 1) * R = k * R - R /\ (k - 1) * R \in Nat
        BY <2>2, <4>1
      <4> QED
        BY <1>1, <1>2, <2>1, <2>2, <4>4, <4>5, <4>6
    <3> QED
      BY <3>1, <3>2
  <2> QED
    BY <1>1, <2>3, <2>4, <2>5
<1> QED
  BY <1>4, <1>5, <1>6

\* A pair that hears good reports comes nearer to rest with each.
Advances ==
    Sync(Good, Good) =>
        \A d \in Direction :
            Distance(model[d])' = 0 \/ Distance(model[d])' + 2 <= Distance(model[d])

\* However the gates take turns in refusing and taking, from every state a pair can be
\* in, each good report brings both directions two observations nearer to resting on the
\* current clock, or finds or leaves them there: no number of good reports keeps a model
\* mixed for ever, and at most ((Window + 1) * ResetAfterRejects + 1) / 2 of them are
\* needed (PairModel::push, on_sync).
THEOREM RecoveryAdvances ==
    Spec => /\ [](\A d \in Direction :
                    Distance(model[d]) \in 0..((Window + 1) * ResetAfterRejects + 1))
            /\ [][Advances]_vars
<1>0. IInv => epoch \in 0..MaxJumps
              /\ \A d \in Direction : model[d] \in ModelType /\ RunWithin(model[d])
  BY DEF IInv, PairInv, ModelInv, Direction
<1>1. IInv => \A d \in Direction :
                Distance(model[d]) \in 0..((Window + 1) * ResetAfterRejects + 1)
  BY <1>0, DistanceType
<1>2. IInv => Advances
  <2> SUFFICES ASSUME IInv, Sync(Good, Good), NEW d \in Direction
               PROVE  Distance(model[d])' = 0 \/ Distance(model[d])' + 2 <= Distance(model[d])
    BY DEF Advances
  <2>1. model'[d] \in PushBoth(model[d], Good, Good) /\ epoch' = epoch
    BY DEF Sync, Direction
  <2>2. PICK x \in Push(model[d], Good) : model'[d] \in Push(x, Good)
    BY <2>1 DEF PushBoth
  <2> DEFINE y == model'[d]
  <2>3. /\ epoch \in 0..MaxJumps /\ model[d] \in ModelType /\ RunWithin(model[d])
        /\ x \in ModelType /\ RunWithin(x)
        /\ Distance(x) = 0 \/ Distance(x) + 1 <= Distance(model[d])
    BY <1>0, <2>2, ObservationAdvances
  <2>4. /\ y \in ModelType /\ RunWithin(y)
        /\ Distance(y) = 0 \/ Distance(y) + 1 <= Distance(x)
    BY <2>2, <2>3, ObservationAdvances
  <2>5. Distance(model[d]) \in Nat /\ Distance(x) \in Nat /\ Distance(y) \in Nat
    <3>1. (Window + 1) * ResetAfterRejects + 1 \in Nat
      BY PairAssumption
    <3> QED
      BY <2>3, <2>4, <3>1, DistanceType
  <2>6. Distance(model[d])' = Distance(y)
    BY <2>1 DEF Distance, Rested, Pure, Current, Wild
  <2> QED
    BY <2>3, <2>4, <2>5, <2>6
<1>3. IInv /\ [Next]_vars => [Advances]_vars
  BY <1>2
<1> QED
  BY <1>1, <1>3, PairInvariant, PTL DEF Spec
===============================================================================
