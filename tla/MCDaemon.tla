------------------------------ MODULE MCDaemon ------------------------------
(* The daemon over one or two displays whose range is one press.             *)
EXTENDS Daemon, TLC

CONSTANTS left, right

Models == [m \in Displays |-> m]
Alike == [m \in Displays |-> "same"]
Maxima == [m \in Displays |-> DefaultMax]

\* The two displays are alike, and the order of a list of them is state.
Swap == Permutations(Displays)
=============================================================================
