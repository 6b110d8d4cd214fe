--------------------------- MODULE DimmerProtocol ---------------------------
(***************************************************************************)
(* One dimmer driven the way dimmer.h lets its owner drive it: presses may *)
(* land at any time, also while the (slow) write of an earlier target is   *)
(* in flight; a write ends in dimmer_commit when the display took the      *)
(* value and in dimmer_settled when it did not.                            *)
(***************************************************************************)
EXTENDS Dimmer

CONSTANTS
  Readings,    \* the <<current, max>> pairs a display may report
  StepDen      \* a press is the fraction 1/StepDen of the range (16 in the code)

ASSUME ReadingsAssumption == Readings \subseteq Nat \X Nat
ASSUME StepDenAssumption == StepDen \in Nat \ {0}

NoWrite == -1

VARIABLES
  d,           \* the dimmer
  inflight     \* the target being written, or NoWrite

vars == <<d, inflight>>

Step(direction) == dimmer_delta_for_fraction(d.max, direction, StepDen)

-----------------------------------------------------------------------------

Init ==
    /\ \E r \in Readings : d = dimmer_init(r[1], r[2])
    /\ inflight = NoWrite

Press(direction) ==
    /\ d' = dimmer_adjust(d, Step(direction))
    /\ UNCHANGED inflight

StartWrite ==
    /\ inflight = NoWrite
    /\ dimmer_due(d)
    /\ inflight' = dimmer_target(d)
    /\ UNCHANGED d

WriteDone ==
    /\ inflight # NoWrite
    /\ d' = dimmer_commit(d, inflight)
    /\ inflight' = NoWrite

WriteFailed ==
    /\ inflight # NoWrite
    /\ d' = dimmer_settled(d)
    /\ inflight' = NoWrite

Next ==
    \/ \E direction \in {-1, 1} : Press(direction)
    \/ StartWrite
    \/ WriteDone
    \/ WriteFailed

Spec == Init /\ [][Next]_vars

-----------------------------------------------------------------------------

\* The dimmer keeps its shape and a display is never asked for a negative
\* brightness (dimmer_t and the int passed to ops->set).
TypeOK ==
    /\ d \in DimmerType
    /\ inflight \in Nat \cup {NoWrite}

\* However presses, commits and failures interleave with a write in flight,
\* neither the accumulated target nor the value on the wire leaves 0..max:
\* "holding a key can't accumulate a runaway delta past the limits"
\* (dimmer_adjust).  The last conjunct is what makes a commit safe when presses
\* during the write have brought the target back to where it started.
NoRunaway ==
    /\ Reachable(Wanted(d), d)
    /\ inflight # NoWrite => inflight \in 0..d.max /\ Wanted(d) \in 0..d.max

\* dimmer_due has two early returns, for "nothing pending" and for "the target
\* is what is already applied".  The second is never the one that decides: a
\* pending delta is always a write to be made, so none is left stranded.
PendingMeansDue == d.pending_delta # 0 <=> dimmer_due(d)

\* How far k is from max/den, in units of 1/den.
Miss(k, max, den) == IF k * den < max THEN max - k * den ELSE k * den - max

\* A press moves a display by the whole step closest to its share of the range,
\* and never by nothing (dimmer_delta_for_fraction).
StepIsNearest ==
    \A direction \in {-1, 1} :
        LET magnitude == direction * Step(direction)
        IN  /\ magnitude >= 1
            /\ \/ magnitude = 1
               \/ \A n \in 0..d.max :
                     Miss(magnitude, d.max, StepDen) <= Miss(n, d.max, StepDen)

\* What dimmer.h promises without mentioning deltas: presses that land during a
\* write are preserved, a failed write abandons the batch, and the display only
\* ever moves to where the user wanted it when the write started.
K == INSTANCE Knob WITH level <- d.current, wanted <- Wanted(d), moving <- inflight,
                        top <- d.max, step <- Step(1), AtRest <- NoWrite
IsKnob == K!Spec
=============================================================================
