-------------------------- MODULE MCDimmerProtocol --------------------------
(* A display of every maximum up to 9, reporting any current value up to one *)
(* above it, so that rails, a zero scale and an out-of-range report occur.   *)
EXTENDS DimmerProtocol

MCReadings == {r \in (0..10) \X (0..9) : r[1] <= r[2] + 1}
=============================================================================
