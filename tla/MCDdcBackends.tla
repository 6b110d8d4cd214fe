--------------------------- MODULE MCDdcBackends ---------------------------
(* Three monitors -- one with a maximum beyond a byte and one that reports a *)
(* maximum of 0 -- that take each other's place at one port, and the panel   *)
(* of a laptop at another, on every platform.                                *)
EXTENDS DdcBackends, TLC

CONSTANTS desk, wide, blank, panel, former, latter

MCScale == [m \in Monitors |-> CASE m = desk -> 100 [] m = wide -> 400 [] OTHER -> 0]
MCGarbage == {[current |-> -1, max |-> 0], [current |-> 90, max |-> 110]}

\* The names of the enumerations only tell them apart.
Renamed == Permutations(Rounds)
=============================================================================
