-------------------------------- MODULE Knob --------------------------------
(***************************************************************************)
(* What a dimmer promises, without deltas: a knob with a scale 0..top that *)
(* remembers where it is wanted, and a slow motor that takes the display   *)
(* there.  Turning the knob while the motor moves is never lost; a motor   *)
(* that fails puts the knob back where the display is.                     *)
(***************************************************************************)
EXTENDS Integers

CONSTANT AtRest        \* the value of "moving" when the motor is off

VARIABLES
  level,               \* what the display shows
  wanted,              \* where the knob points
  moving,              \* where the motor is going, or AtRest
  top,                 \* the end of the scale
  step                 \* how far one turn goes

vars == <<level, wanted, moving, top, step>>

Distance(a, b) == IF a < b THEN b - a ELSE a - b

\* v is the point of the scale closest to x.
Nearest(v, x) ==
    /\ v \in 0..top
    /\ \A u \in 0..top : Distance(v, x) <= Distance(u, x)

Init ==
    /\ level \in Nat /\ top \in Nat /\ step \in Nat \ {0}
    /\ wanted = level
    /\ moving = AtRest

Turn(direction) ==
    /\ Nearest(wanted', wanted + direction * step)
    /\ UNCHANGED <<level, moving, top, step>>

Start ==
    /\ moving = AtRest
    /\ wanted # level
    /\ moving' = wanted
    /\ UNCHANGED <<level, wanted, top, step>>

Arrive ==
    /\ moving # AtRest
    /\ level' = moving
    /\ moving' = AtRest
    /\ UNCHANGED <<wanted, top, step>>

GiveUp ==
    /\ moving # AtRest
    /\ wanted' = level
    /\ moving' = AtRest
    /\ UNCHANGED <<level, top, step>>

Next ==
    \/ \E direction \in {-1, 1} : Turn(direction)
    \/ Start
    \/ Arrive
    \/ GiveUp

Spec == Init /\ [][Next]_vars
=============================================================================
