------------------------------ MODULE KnobBank ------------------------------
(***************************************************************************)
(* What the display controller promises (display_controller.h), without    *)
(* handles, deltas or passes: a bank of knobs, one per display, turned all *)
(* together, each by a share of its own scale; one slow motor that takes   *)
(* one display after the other where its knob points; and, while the motor *)
(* rests, an exchange of the bank that keeps the knobs of the displays     *)
(* that stay and points a new one at what its display shows.               *)
(***************************************************************************)
EXTENDS Integers

CONSTANTS
  AtRest,              \* the value of "moving" when the motor is off
  StepDen              \* a turn goes 1/StepDen of a knob's scale

VARIABLES
  bank,                \* a function from display to [level, wanted, top]
  moving               \* [id, target] on the way, or AtRest

vars == <<bank, moving>>

Distance(a, b) == IF a < b THEN b - a ELSE a - b

\* v is the point of the scale 0..top closest to x.
Nearest(v, x, top) ==
    /\ v \in 0..top
    /\ \A u \in 0..top : Distance(v, x) <= Distance(u, x)

\* n is a whole step, at least 1, as close as can be to 1/StepDen of the scale.
IsStep(n, top) ==
    /\ n \in 1..(top + 1)
    /\ \A k \in 1..(top + 1) :
          Distance(n * StepDen, top) <= Distance(k * StepDen, top)

Turned(knob, turned, direction) ==
    /\ turned.level = knob.level
    /\ turned.top = knob.top
    /\ \E n \in 1..(knob.top + 1) :
          /\ IsStep(n, knob.top)
          /\ Nearest(turned.wanted, knob.wanted + direction * n, knob.top)

Init ==
    /\ bank = <<>>
    /\ moving = AtRest

Turn(direction) ==
    /\ DOMAIN bank' = DOMAIN bank
    /\ \A id \in DOMAIN bank : Turned(bank[id], bank'[id], direction)
    /\ UNCHANGED moving

Start(id) ==
    /\ moving = AtRest
    /\ bank[id].wanted # bank[id].level
    /\ moving' = [id |-> id, target |-> bank[id].wanted]
    /\ UNCHANGED bank

Arrive ==
    /\ moving # AtRest
    /\ bank' = [bank EXCEPT ![moving.id].level = moving.target]
    /\ moving' = AtRest

GiveUp ==
    /\ moving # AtRest
    /\ bank' = [bank EXCEPT ![moving.id].wanted = bank[moving.id].level]
    /\ moving' = AtRest

Exchange ==
    /\ moving = AtRest
    /\ \A id \in DOMAIN bank' :
          IF id \in DOMAIN bank THEN bank'[id] = bank[id]
                                ELSE bank'[id].wanted = bank'[id].level
    /\ UNCHANGED moving

Next ==
    \/ \E direction \in {-1, 1} : Turn(direction)
    \/ \E id \in DOMAIN bank : Start(id)
    \/ Arrive
    \/ GiveUp
    \/ Exchange

Spec == Init /\ [][Next]_vars
=============================================================================
