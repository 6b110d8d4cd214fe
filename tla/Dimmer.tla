------------------------------- MODULE Dimmer -------------------------------
(***************************************************************************)
(* The functions of dimmer.c, one per display: a dimmer remembers the      *)
(* brightness last applied and a delta that is still to be applied.  Every *)
(* operator takes a dimmer and returns the dimmer the function leaves      *)
(* behind.                                                                 *)
(*                                                                         *)
(* Brightness values come from 16-bit VCP fields, so the C ints never      *)
(* overflow and are plain integers here.  A fraction of the range is the   *)
(* exact rational sign/den: 1/16 and max/16 are exact in a double.         *)
(***************************************************************************)
EXTENDS Integers

DimmerType == [current : Nat, max : Nat, pending_delta : Int]

\* A faulty clamp: no floor.
clamp_ceiling_only(value, max) ==
    IF value > max THEN max ELSE value

clamp_brightness(value, max) ==
    IF value < 0 THEN 0 ELSE IF value > max THEN max ELSE value

\* Where the presses accumulated so far want the display to be.
Wanted(d) == d.current + d.pending_delta

\* A display may report a current value above its max; until the first press
\* nothing is pending, and from then on the target stays on the scale.
Reachable(target, dimmer) ==
    \/ dimmer.pending_delta = 0 /\ target = dimmer.current
    \/ target \in 0..dimmer.max

dimmer_init(current, max) ==
    [current |-> current, max |-> max, pending_delta |-> 0]

\* A faulty dimmer_adjust: the delta accumulates without being projected.
adjust_unclamped(d, delta) ==
    [d EXCEPT !.pending_delta = @ + delta]

dimmer_adjust(d, delta) ==
    [d EXCEPT !.pending_delta = clamp_brightness(Wanted(d) + delta, d.max) - d.current]

\* The value dimmer_due stores in *target_out ...
dimmer_target(d) == clamp_brightness(Wanted(d), d.max)

\* ... when it returns 1.
dimmer_due(d) ==
    /\ d.pending_delta # 0
    /\ dimmer_target(d) # d.current

\* A faulty dimmer_commit: forgets the presses that landed during the write.
commit_clears(d, applied) ==
    [d EXCEPT !.pending_delta = 0, !.current = applied]

dimmer_commit(d, applied) ==
    [current |-> applied,
     max |-> d.max,
     pending_delta |-> d.pending_delta - (applied - d.current)]

dimmer_settled(d) == [d EXCEPT !.pending_delta = 0]

dimmer_max(d) == d.max

\* Nearest integer to max/den; ties round away from zero, as lround does.
RoundedShare(max, den) == (2 * max + den) \div (2 * den)

\* A faulty conversion: truncates, and lets a step collapse to nothing.
delta_truncated(max, sign, den) == sign * (max \div den)

dimmer_delta_for_fraction(max, sign, den) ==
    LET magnitude == RoundedShare(max, den)
    IN  sign * (IF magnitude = 0 THEN 1 ELSE magnitude)
=============================================================================
