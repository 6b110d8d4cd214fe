---------------------------- MODULE DimmerProofs ----------------------------
(***************************************************************************)
(* Proofs about one dimmer, for every display and every step size: what    *)
(* the arithmetic of dimmer.c returns, that no interleaving of presses and *)
(* writes runs past the scale, and that the dimmer implements the knob of  *)
(* module Knob.                                                            *)
(***************************************************************************)
EXTENDS DimmerProtocol, DimmerLemmas

\* It picks the point of the scale closest to where it was asked to go.
LEMMA ClampNearest ==
    ASSUME NEW x \in Int, NEW max \in Nat, NEW u \in 0..max
    PROVE  K!Distance(clamp_brightness(x, max), x) <= K!Distance(u, x)
BY DEF clamp_brightness, K!Distance

LEMMA StepIsAStep ==
    ASSUME d \in DimmerType
    PROVE  /\ Step(1) \in Nat \ {0}
           /\ Step(-1) = - Step(1)
BY DeltaIsAStep, StepDenAssumption DEF Step, DimmerType

-----------------------------------------------------------------------------
(* The inductive invariant: types, and no target off the scale.            *)

IInv == TypeOK /\ NoRunaway

LEMMA InitInv == Init => IInv
<1> SUFFICES ASSUME Init PROVE IInv
  OBVIOUS
<1> PICK r \in Readings : d = dimmer_init(r[1], r[2])
  BY DEF Init
<1>1. r \in Nat \X Nat
  BY ReadingsAssumption
<1>2. d = [current |-> r[1], max |-> r[2], pending_delta |-> 0]
  BY DEF dimmer_init
<1>3. inflight = NoWrite
  BY DEF Init
<1> QED BY <1>1, <1>2, <1>3
        DEF IInv, TypeOK, DimmerType, NoRunaway, Reachable, Wanted, NoWrite

LEMMA StepInv == IInv /\ [Next]_vars => IInv'
<1> SUFFICES ASSUME IInv, [Next]_vars PROVE IInv'
  OBVIOUS
<1>0. /\ d \in DimmerType /\ inflight \in Nat \cup {NoWrite}
      /\ Reachable(Wanted(d), d)
      /\ inflight # NoWrite => inflight \in 0..d.max /\ Wanted(d) \in 0..d.max
  BY DEF IInv, TypeOK, NoRunaway
<1> USE DEF IInv, TypeOK, NoRunaway
<1>1. ASSUME NEW direction \in {-1, 1}, Press(direction) PROVE IInv'
  <2>1. Step(direction) \in Int
    BY <1>0, StepIsAStep
  <2>2. d' = dimmer_adjust(d, Step(direction)) /\ inflight' = inflight
    BY <1>1 DEF Press
  <2>3. d' \in DimmerType /\ d'.max = d.max /\ Wanted(d)' \in 0..d.max
    BY <1>0, <2>1, <2>2, AdjustEffect
  <2> QED BY <1>0, <2>2, <2>3 DEF Reachable
<1>2. ASSUME StartWrite PROVE IInv'
  <2>1. d' = d /\ inflight' = dimmer_target(d) /\ dimmer_due(d)
    BY <1>2 DEF StartWrite
  <2>2. dimmer_target(d) \in 0..d.max /\ dimmer_target(d) = Wanted(d)
    BY <1>0, <2>1, DueTarget
  <2> QED BY <1>0, <2>1, <2>2 DEF DimmerType
<1>3. ASSUME WriteDone PROVE IInv'
  <2>1. inflight \in 0..d.max /\ inflight \in Nat /\ Wanted(d) \in 0..d.max
    BY <1>0, <1>3 DEF WriteDone
  <2>2. d' = dimmer_commit(d, inflight) /\ inflight' = NoWrite
    BY <1>3 DEF WriteDone
  <2>3. d' \in DimmerType /\ d'.max = d.max /\ Wanted(d)' = Wanted(d)
    BY <1>0, <2>1, <2>2, CommitEffect
  <2> QED BY <2>1, <2>2, <2>3 DEF Reachable
<1>4. ASSUME WriteFailed PROVE IInv'
  BY <1>0, <1>4, SettledEffect DEF WriteFailed, Reachable
<1>5. CASE UNCHANGED vars
  BY <1>5 DEF vars, Reachable, Wanted
<1> QED BY <1>1, <1>2, <1>3, <1>4, <1>5 DEF Next

\* The dimmer keeps its shape and no write is ever negative, whatever the
\* display reports and however presses and writes interleave.
THEOREM TypeCorrect == Spec => []TypeOK
<1>1. Spec => []IInv
  BY InitInv, StepInv, PTL DEF Spec
<1> QED BY <1>1, PTL DEF IInv

\* "Holding a key can't accumulate a runaway delta past the limits"
\* (dimmer_adjust), also when the presses land during a write.
THEOREM NeverRunsAway == Spec => []NoRunaway
<1>1. Spec => []IInv
  BY InitInv, StepInv, PTL DEF Spec
<1> QED BY <1>1, PTL DEF IInv

\* The second early return of dimmer_due is dead code: no pending delta is ever
\* stranded because its target happens to equal what is applied.
THEOREM NothingStranded == Spec => []PendingMeansDue
<1>1. ASSUME IInv PROVE PendingMeansDue
  BY <1>1, DueTarget DEF IInv, TypeOK, NoRunaway, PendingMeansDue
<1>2. Spec => []IInv
  BY InitInv, StepInv, PTL DEF Spec
<1> QED BY <1>1, <1>2, PTL

\* No multiple of den is closer to max than the rounded share.
LEMMA RoundedShareIsNearest ==
    ASSUME NEW max \in Nat, NEW den \in Nat \ {0}, NEW n \in Nat
    PROVE  Miss(RoundedShare(max, den), max, den) <= Miss(n, max, den)
  BY ShareIsNearest DEF Miss

\* A press moves by the nearest whole step, and never by nothing, on every
\* display (dimmer_delta_for_fraction).
THEOREM StepsAreNearest == Spec => []StepIsNearest
<1>1. ASSUME IInv PROVE StepIsNearest
  <2> SUFFICES ASSUME NEW direction \in {-1, 1}
      PROVE LET magnitude == direction * Step(direction)
            IN  /\ magnitude >= 1
                /\ \/ magnitude = 1
                   \/ \A n \in 0..d.max :
                         Miss(magnitude, d.max, StepDen) <= Miss(n, d.max, StepDen)
    BY DEF StepIsNearest
  <2>1. d.max \in Nat
    BY <1>1 DEF IInv, TypeOK, DimmerType
  <2> DEFINE m == RoundedShare(d.max, StepDen)
             magnitude == IF m = 0 THEN 1 ELSE m
  <2>2. m \in Nat
    BY <2>1, StepDenAssumption, RoundedShareBounds
  <2>3. direction * Step(direction) = magnitude
    <3>1. Step(direction) = direction * magnitude
      BY DEF Step, dimmer_delta_for_fraction
    <3> HIDE DEF m
    <3>2. magnitude \in Nat
      BY <2>2
    <3> HIDE DEF magnitude
    <3> QED BY <3>1, <3>2
  <2>4. ASSUME m # 0, NEW n \in 0..d.max
        PROVE Miss(m, d.max, StepDen) <= Miss(n, d.max, StepDen)
    <3>1. n \in Nat
      BY <2>1
    <3> QED BY <2>1, <3>1, StepDenAssumption, RoundedShareIsNearest
  <2> HIDE DEF m
  <2>5. magnitude >= 1
    BY <2>2
  <2>6. CASE m = 0
    BY <2>3, <2>6
  <2>7. CASE m # 0
    BY <2>3, <2>4, <2>5, <2>7
  <2> QED BY <2>6, <2>7
<1>2. Spec => []IInv
  BY InitInv, StepInv, PTL DEF Spec
<1> QED BY <1>1, <1>2, PTL

-----------------------------------------------------------------------------
(* The dimmer implements the knob.                                         *)

LEMMA KnobInit == Init => K!Init
<1> SUFFICES ASSUME Init PROVE K!Init
  OBVIOUS
<1>1. d \in DimmerType
  BY InitInv DEF IInv, TypeOK
<1>2. d.pending_delta = 0 /\ inflight = NoWrite
  BY DEF Init, dimmer_init
<1> QED BY <1>1, <1>2, StepIsAStep DEF K!Init, Wanted, DimmerType

LEMMA KnobStep == IInv /\ [Next]_vars => [K!Next]_(K!vars)
<1> SUFFICES ASSUME IInv, [Next]_vars PROVE [K!Next]_(K!vars)
  OBVIOUS
<1>0. d \in DimmerType /\ inflight \in Nat \cup {NoWrite}
  BY DEF IInv, TypeOK
<1> USE DEF K!Next, K!vars
<1>1. ASSUME NEW direction \in {-1, 1}, Press(direction) PROVE K!Turn(direction)
  <2> DEFINE goal == Wanted(d) + direction * Step(1)
             landing == clamp_brightness(goal, d.max)
  <2>1. Wanted(d) + Step(direction) = goal /\ goal \in Int /\ Step(direction) \in Int
    BY <1>0, StepIsAStep DEF Wanted, DimmerType
  <2>2. d' = dimmer_adjust(d, Step(direction)) /\ inflight' = inflight
    BY <1>1 DEF Press
  <2>3. landing \in 0..d.max
    BY <1>0, <2>1, ClampOnScale DEF DimmerType
  <2>4. \A u \in 0..d.max : K!Distance(landing, goal) <= K!Distance(u, goal)
    BY <1>0, <2>1, ClampNearest DEF DimmerType
  <2>5. /\ d'.current = d.current
        /\ d'.max = d.max
        /\ Wanted(d)' = landing
    BY <1>0, <2>1, <2>2, AdjustEffect
  <2>6. Step(1)' = Step(1)
    BY <2>5 DEF Step
  <2>7. K!Nearest(Wanted(d)', goal)
    BY <2>3, <2>4, <2>5 DEF K!Nearest
  <2> QED BY <2>2, <2>5, <2>6, <2>7 DEF K!Turn
<1>2. ASSUME StartWrite PROVE K!Start
  <2>1. dimmer_target(d) = Wanted(d) /\ dimmer_target(d) # d.current
    BY <1>0, <1>2, DueTarget DEF StartWrite, IInv, NoRunaway
  <2> QED BY <1>2, <2>1 DEF StartWrite, K!Start, Step
<1>3. ASSUME WriteDone PROVE K!Arrive
  <2>1. inflight \in Nat
    BY <1>0, <1>3 DEF WriteDone
  <2>2. /\ d'.current = inflight
        /\ d'.max = d.max
        /\ Wanted(d)' = Wanted(d)
    BY <1>0, <1>3, <2>1, CommitEffect DEF WriteDone
  <2> QED BY <1>3, <2>2 DEF WriteDone, K!Arrive, Step
<1>4. ASSUME WriteFailed PROVE K!GiveUp
  <2>1. /\ d'.current = d.current
        /\ d'.max = d.max
        /\ Wanted(d)' = d.current
    BY <1>0, <1>4, SettledEffect DEF WriteFailed
  <2> QED BY <1>4, <2>1 DEF WriteFailed, K!GiveUp, Step
<1>5. CASE UNCHANGED vars
  BY <1>5 DEF vars, Wanted, Step
<1> QED BY <1>1, <1>2, <1>3, <1>4, <1>5 DEF Next

\* dimmer.h's contract: presses during a write are preserved, a failed write
\* abandons the batch and nothing else, and every write goes where the user
\* wanted the display when it started -- for every max, reading and step size.
THEOREM ImplementsKnob == Spec => IsKnob
<1>1. Spec => []IInv
  BY InitInv, StepInv, PTL DEF Spec
<1>2. Spec => K!Init /\ [][K!Next]_(K!vars)
  BY <1>1, KnobInit, KnobStep, PTL DEF Spec
<1> QED BY <1>2 DEF IsKnob, K!Spec
=============================================================================
