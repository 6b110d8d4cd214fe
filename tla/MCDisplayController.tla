------------------------ MODULE MCDisplayController ------------------------
(* Two external displays, and in one run a built-in panel.  Ranges are       *)
(* scaled down and a press is a part of them, so that the rails, the middle  *)
(* and a batch of two presses are all within reach.                          *)
EXTENDS DisplayController

CONSTANTS left, right, panel

\* Distinct models, and the case of two monitors of one model (which is every
\* case on Windows and NetBSD, where the ids read 0).
DistinctModels == [m \in Displays |-> m]
SameModels == [m \in Displays |-> "same"]

UnequalMax == [m \in Displays |-> CASE m = left -> 3 [] m = right -> 1 [] OTHER -> 0]
EqualMax == [m \in Displays |-> DefaultMax]
=============================================================================
