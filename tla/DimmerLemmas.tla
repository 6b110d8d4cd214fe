---------------------------- MODULE DimmerLemmas ----------------------------
(***************************************************************************)
(* What the functions of dimmer.c return, for every dimmer: the facts that *)
(* the proofs about one dimmer and about a set of them both rest on.       *)
(***************************************************************************)
EXTENDS Dimmer, TLAPS

\* clamp_brightness lands on the scale, wherever it starts from.
LEMMA ClampOnScale ==
    ASSUME NEW x \in Int, NEW max \in Nat
    PROVE  clamp_brightness(x, max) \in 0..max
BY DEF clamp_brightness

\* It leaves alone what is on the scale already.
LEMMA ClampIdentity ==
    ASSUME NEW max \in Nat, NEW x \in 0..max
    PROVE  clamp_brightness(x, max) = x
BY DEF clamp_brightness

\* The rounded share is within half a step of the exact one.
LEMMA RoundedShareBounds ==
    ASSUME NEW max \in Nat, NEW den \in Nat \ {0}
    PROVE  /\ RoundedShare(max, den) \in Nat
           /\ 2 * den * RoundedShare(max, den) <= 2 * max + den
           /\ 2 * max + den < 2 * den * RoundedShare(max, den) + 2 * den
<1> DEFINE a == 2 * max + den
           b == 2 * den
<1>1. a \in Nat /\ b \in Nat /\ b > 0
  OBVIOUS
<1>2. /\ a \div b \in Nat
      /\ b * (a \div b) <= a
      /\ a < b * (a \div b) + b
  <2> HIDE DEF a, b
  <2>1. a = (b * (a \div b)) + (a % b) /\ (a % b) \in 0..(b - 1)
    BY <1>1
  <2>2. a \div b \in Int
    BY <1>1
  <2>3. a \div b >= 0
    BY <1>1, <2>1, <2>2
  <2> QED BY <1>1, <2>1, <2>2, <2>3
<1> QED BY <1>2 DEF RoundedShare

\* No multiple of den is closer to max than the rounded share.
LEMMA ShareIsNearest ==
    ASSUME NEW max \in Nat, NEW den \in Nat \ {0}, NEW n \in Nat
    PROVE  LET p == RoundedShare(max, den) * den
               q == n * den
           IN  (IF p < max THEN max - p ELSE p - max) <= (IF q < max THEN max - q ELSE q - max)
<1> DEFINE m == RoundedShare(max, den)
<1>1. m \in Nat /\ 2 * den * m <= 2 * max + den /\ 2 * max + den < 2 * den * m + 2 * den
  BY RoundedShareBounds
<1> HIDE DEF m
<1>2. PICK p \in Nat : p = m * den /\ 2 * p <= 2 * max + den /\ 2 * max < 2 * p + den
  BY <1>1, Z3
<1>3. PICK q \in Nat : q = n * den
  BY Z3
<1>4. n < m => q + den <= p
  <2> SUFFICES ASSUME n < m PROVE q + den <= p
    OBVIOUS
  <2>1. PICK k \in Nat : m = n + 1 + k
    <3>1. m - n - 1 \in Nat /\ m = n + 1 + (m - n - 1)
      BY <1>1
    <3> QED BY <3>1
  <2>2. p = q + den + k * den /\ k * den \in Nat
    BY <1>2, <1>3, <2>1, Z3
  <2> QED BY <2>2, <1>3
<1>5. n > m => p + den <= q
  <2> SUFFICES ASSUME n > m PROVE p + den <= q
    OBVIOUS
  <2>1. PICK k \in Nat : n = m + 1 + k
    <3>1. n - m - 1 \in Nat /\ n = m + 1 + (n - m - 1)
      BY <1>1
    <3> QED BY <3>1
  <2>2. q = p + den + k * den /\ k * den \in Nat
    BY <1>1, <1>2, <1>3, <2>1, Z3
  <2> QED BY <2>2, <1>2
<1>6. (IF p < max THEN max - p ELSE p - max) <= (IF q < max THEN max - q ELSE q - max)
  <2>1. CASE n = m
    BY <2>1, <1>2, <1>3
  <2>2. CASE n < m
    BY <2>2, <1>2, <1>3, <1>4
  <2>3. CASE n > m
    BY <2>3, <1>2, <1>3, <1>5
  <2> QED BY <2>1, <2>2, <2>3, <1>1
<1> QED BY <1>2, <1>3, <1>6 DEF m

\* dimmer_delta_for_fraction never returns 0 for a press ("a nonzero fraction
\* never collapses to a no-op step"), and up and down are the same size.
LEMMA DeltaIsAStep ==
    ASSUME NEW max \in Nat, NEW den \in Nat \ {0}
    PROVE  /\ dimmer_delta_for_fraction(max, 1, den) \in Nat \ {0}
           /\ dimmer_delta_for_fraction(max, -1, den) = - dimmer_delta_for_fraction(max, 1, den)
<1>1. RoundedShare(max, den) \in Nat
  BY RoundedShareBounds
<1> QED BY <1>1 DEF dimmer_delta_for_fraction

\* dimmer_commit moves the delta by exactly what was applied.
LEMMA CommitEffect ==
    ASSUME NEW dim \in DimmerType, NEW applied \in Nat
    PROVE  /\ dimmer_commit(dim, applied) \in DimmerType
           /\ dimmer_commit(dim, applied).current = applied
           /\ dimmer_commit(dim, applied).max = dim.max
           /\ Wanted(dimmer_commit(dim, applied)) = Wanted(dim)
BY DEF dimmer_commit, Wanted, DimmerType

\* A press lands on the scale, whatever its size and wherever it starts from.
LEMMA AdjustEffect ==
    ASSUME NEW dim \in DimmerType, NEW delta \in Int
    PROVE  /\ dimmer_adjust(dim, delta) \in DimmerType
           /\ dimmer_adjust(dim, delta).current = dim.current
           /\ dimmer_adjust(dim, delta).max = dim.max
           /\ Wanted(dimmer_adjust(dim, delta)) = clamp_brightness(Wanted(dim) + delta, dim.max)
           /\ Wanted(dimmer_adjust(dim, delta)) \in 0..dim.max
<1> DEFINE landing == clamp_brightness(Wanted(dim) + delta, dim.max)
<1>1. landing \in 0..dim.max
  <2>1. Wanted(dim) + delta \in Int /\ dim.max \in Nat
    BY DEF Wanted, DimmerType
  <2> QED BY <2>1, ClampOnScale
<1>2. dimmer_adjust(dim, delta) = [dim EXCEPT !.pending_delta = landing - dim.current]
  BY DEF dimmer_adjust
<1> HIDE DEF landing
<1>3. dimmer_adjust(dim, delta) \in DimmerType
  BY <1>1, <1>2 DEF DimmerType
<1>4. /\ dimmer_adjust(dim, delta).current = dim.current
      /\ dimmer_adjust(dim, delta).max = dim.max
      /\ Wanted(dimmer_adjust(dim, delta)) = landing
  BY <1>1, <1>2 DEF DimmerType, Wanted
<1> QED BY <1>1, <1>3, <1>4 DEF landing

\* dimmer_settled goes back to what is applied.
LEMMA SettledEffect ==
    ASSUME NEW dim \in DimmerType
    PROVE  /\ dimmer_settled(dim) \in DimmerType
           /\ dimmer_settled(dim).current = dim.current
           /\ dimmer_settled(dim).max = dim.max
           /\ dimmer_settled(dim).pending_delta = 0
           /\ Wanted(dimmer_settled(dim)) = dim.current
BY DEF dimmer_settled, Wanted, DimmerType

\* A write that is due goes to where the display is wanted, which is on the scale
\* and is not where the display is.
LEMMA DueTarget ==
    ASSUME NEW dim \in DimmerType, Reachable(Wanted(dim), dim)
    PROVE  /\ dim.pending_delta # 0 <=> dimmer_due(dim)
           /\ dimmer_due(dim) => /\ dimmer_target(dim) = Wanted(dim)
                                 /\ dimmer_target(dim) \in 0..dim.max
                                 /\ dimmer_target(dim) # dim.current
<1>1. CASE dim.pending_delta = 0
  BY <1>1 DEF dimmer_due
<1>2. CASE dim.pending_delta # 0
  <2>1. Wanted(dim) \in 0..dim.max /\ dim.max \in Nat
    BY <1>2 DEF Reachable, DimmerType
  <2>2. dimmer_target(dim) = Wanted(dim)
    BY <2>1, ClampIdentity DEF dimmer_target
  <2>3. Wanted(dim) # dim.current
    BY <1>2 DEF Wanted, DimmerType
  <2> QED BY <1>2, <2>1, <2>2, <2>3 DEF dimmer_due
<1> QED BY <1>1, <1>2

\* Presses, commits of what was due, and failures keep a dimmer from running away.
LEMMA StaysReachable ==
    ASSUME NEW dim \in DimmerType, Reachable(Wanted(dim), dim)
    PROVE  /\ \A delta \in Int :
                Reachable(Wanted(dimmer_adjust(dim, delta)), dimmer_adjust(dim, delta))
           /\ dimmer_due(dim) =>
                Reachable(Wanted(dimmer_commit(dim, dimmer_target(dim))),
                          dimmer_commit(dim, dimmer_target(dim)))
           /\ Reachable(Wanted(dimmer_settled(dim)), dimmer_settled(dim))
<1>1. ASSUME NEW delta \in Int
      PROVE  Reachable(Wanted(dimmer_adjust(dim, delta)), dimmer_adjust(dim, delta))
  BY AdjustEffect DEF Reachable
<1>2. ASSUME dimmer_due(dim)
      PROVE  Reachable(Wanted(dimmer_commit(dim, dimmer_target(dim))),
                       dimmer_commit(dim, dimmer_target(dim)))
  <2>1. dimmer_target(dim) \in 0..dim.max /\ dimmer_target(dim) = Wanted(dim)
    BY <1>2, DueTarget
  <2>2. dimmer_target(dim) \in Nat
    BY <2>1 DEF DimmerType
  <2> QED BY <2>1, <2>2, CommitEffect DEF Reachable
<1>3. Reachable(Wanted(dimmer_settled(dim)), dimmer_settled(dim))
  BY SettledEffect DEF Reachable
<1> QED BY <1>1, <1>2, <1>3
=============================================================================
