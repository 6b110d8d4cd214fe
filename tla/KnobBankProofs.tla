--------------------------- MODULE KnobBankProofs ---------------------------
(***************************************************************************)
(* The display controller implements the bank of knobs, for any displays,  *)
(* steps, limits on handles and faults: initial states map to initial      *)
(* states, and every step to a step or a stutter.                          *)
(***************************************************************************)
EXTENDS DisplayControllerProofs

-----------------------------------------------------------------------------
(* The step of a press.                                                    *)

\* dimmer_delta_for_fraction is the whole step, other than none, that is closest to
\* its share of the range.
LEMMA DeltaIsAKnobStep ==
    ASSUME NEW top \in Nat
    PROVE  B!IsStep(dimmer_delta_for_fraction(top, 1, StepDen), top)
<1> DEFINE m == RoundedShare(top, StepDen)
           n == IF m = 0 THEN 1 ELSE m
<1>1. /\ m \in Nat
      /\ 2 * StepDen * m <= 2 * top + StepDen
      /\ 2 * top + StepDen < 2 * StepDen * m + 2 * StepDen
  BY RoundedShareBounds, StepAssumption
<1>2. dimmer_delta_for_fraction(top, 1, StepDen) = n
  BY <1>1 DEF dimmer_delta_for_fraction
<1>3. ASSUME m # 0, NEW k \in Nat
      PROVE  B!Distance(m * StepDen, top) <= B!Distance(k * StepDen, top)
  BY ShareIsNearest, StepAssumption DEF B!Distance
<1> HIDE DEF m
<1>4. m <= top + 1
  <2>1. PICK den \in Nat \ {0} : den = StepDen
    BY StepAssumption
  <2>2. SUFFICES ASSUME m > top + 1 PROVE FALSE
    BY <1>1
  <2>3. PICK k \in Nat : m = top + 2 + k
    <3>1. m - top - 2 \in Nat /\ m = top + 2 + (m - top - 2)
      BY <1>1, <2>2
    <3> QED BY <3>1
  <2>4. PICK p \in Nat : p = den * (top + k)
    BY Z3
  <2>5. p >= top
    BY <2>4, Z3
  <2>6. den * m = p + 2 * den
    BY <2>3, <2>4, Z3
  <2>7. 2 * (den * m) <= 2 * top + den
    BY <1>1, <2>1
  <2> QED
    BY <2>1, <2>5, <2>6, <2>7
<1>5. ASSUME m = 0, NEW k \in 1..(top + 1)
      PROVE  B!Distance(1 * StepDen, top) <= B!Distance(k * StepDen, top)
  <2>1. PICK den \in Nat \ {0} : den = StepDen
    BY StepAssumption
  <2>2. 2 * top < den
    BY <1>1, <1>5, <2>1
  <2>3. PICK q \in Nat : q = k * den /\ q >= den
    BY <1>5, Z3
  <2> QED
    BY <2>1, <2>2, <2>3 DEF B!Distance
<1>6. n \in 1..(top + 1)
  BY <1>1, <1>4
<1>7. ASSUME NEW k \in 1..(top + 1)
      PROVE  B!Distance(n * StepDen, top) <= B!Distance(k * StepDen, top)
  <2>1. CASE m = 0
    BY <1>5, <2>1
  <2>2. CASE m # 0
    <3>1. n = m /\ k \in Nat
      BY <2>2
    <3> QED
      BY <1>3, <2>2, <3>1
  <2> QED
    BY <2>1, <2>2
<1> HIDE DEF n
<1> QED
  BY <1>2, <1>6, <1>7 DEF B!IsStep

\* It picks the point of the scale closest to where it was asked to go.
LEMMA ClampIsNearest ==
    ASSUME NEW x \in Int, NEW top \in Nat
    PROVE  B!Nearest(clamp_brightness(x, top), x, top)
<1>1. clamp_brightness(x, top) \in 0..top
  BY ClampOnScale
<1>2. \A u \in 0..top : B!Distance(clamp_brightness(x, top), x) <= B!Distance(u, x)
  BY DEF clamp_brightness, B!Distance
<1> QED
  BY <1>1, <1>2 DEF B!Nearest

\* What a press does to one display is what a turn does to its knob.
LEMMA PressTurns ==
    ASSUME NEW dim \in DimmerType, NEW direction \in {-1, 1}
    PROVE  LET pressed == dimmer_adjust(dim, delta_of(dimmer_max(dim), direction))
           IN  B!Turned([level |-> dim.current, wanted |-> Wanted(dim), top |-> dim.max],
                        [level |-> pressed.current, wanted |-> Wanted(pressed), top |-> pressed.max],
                        direction)
<1> DEFINE n == dimmer_delta_for_fraction(dim.max, 1, StepDen)
           delta == delta_of(dimmer_max(dim), direction)
           pressed == dimmer_adjust(dim, delta)
           knob == [level |-> dim.current, wanted |-> Wanted(dim), top |-> dim.max]
           turned == [level |-> pressed.current, wanted |-> Wanted(pressed), top |-> pressed.max]
<1>1. dim.max \in Nat /\ Wanted(dim) \in Int
  BY DEF DimmerType, Wanted
<1>2. n \in Nat \ {0} /\ delta = direction * n
  <2>1. /\ n \in Nat \ {0}
        /\ dimmer_delta_for_fraction(dim.max, -1, StepDen) = - n
    BY <1>1, DeltaIsAStep, StepAssumption
  <2>2. delta = dimmer_delta_for_fraction(dim.max, direction, StepDen)
    BY DEF delta_of, dimmer_max
  <2> HIDE DEF n, delta
  <2> QED
    BY <2>1, <2>2 DEF n
<1>3. B!IsStep(n, dim.max)
  BY <1>1, DeltaIsAKnobStep
<1>4. n \in 1..(dim.max + 1)
  BY <1>3 DEF B!IsStep
<1> HIDE DEF n, delta
<1>5. delta \in Int
  BY <1>2
<1>6. /\ pressed.current = dim.current
      /\ pressed.max = dim.max
      /\ Wanted(pressed) = clamp_brightness(Wanted(dim) + delta, dim.max)
  BY <1>5, AdjustEffect
<1>7. B!Nearest(Wanted(pressed), Wanted(dim) + direction * n, dim.max)
  <2>1. Wanted(dim) + delta \in Int
    BY <1>1, <1>5
  <2> QED
    BY <1>1, <1>2, <1>6, <2>1, ClampIsNearest
<1> HIDE DEF pressed
<1>8. B!Turned(knob, turned, direction)
  BY <1>3, <1>4, <1>6, <1>7 DEF B!Turned
<1> QED
  BY <1>8 DEF pressed, delta

-----------------------------------------------------------------------------
(* The steps.                                                              *)

\* A knob of the bank is a dimmer without its delta.
LEMMA KnobOf ==
    /\ DOMAIN Bank = DOMAIN displays
    /\ \A id \in DOMAIN displays :
          Bank[id] = [level |-> displays[id].dim.current,
                      wanted |-> Wanted(displays[id].dim),
                      top |-> displays[id].dim.max]
  BY DEF Bank

LEMMA KnobOfNext ==
    /\ DOMAIN Bank' = DOMAIN displays'
    /\ \A id \in DOMAIN displays' :
          Bank'[id] = [level |-> displays'[id].dim.current,
                       wanted |-> Wanted(displays'[id].dim),
                       top |-> displays'[id].dim.max]
  BY DEF Bank

LEMMA NewKnob ==
    ASSUME NEW m, NEW unread, m \in Displays, IInv
    PROVE  Wanted(ReadDimmer(m, unread)) = ReadDimmer(m, unread).current
<1>1. shown[m] \in Nat /\ DefaultMax \in Nat /\ DisplayMax[m] \in Nat
  BY StepAssumption, DisplaysAssumption DEF IInv, TypeOK
<1> QED
  BY <1>1 DEF ReadDimmer, dimmer_init, Wanted

\* The motor turns while a write is in flight.
LEMMA MotorMoves ==
    ASSUME IInv, writing # NoWrite
    PROVE  /\ Motor = [id |-> writing.id, target |-> writing.target]
           /\ Motor # NoWrite
<1>1. Motor = [id |-> writing.id, target |-> writing.target]
  BY DEF Motor
<1>2. DOMAIN NoWrite = {"id", "ctx", "target"}
  BY DEF NoWrite
<1>3. DOMAIN [id |-> writing.id, target |-> writing.target] = {"id", "target"}
  OBVIOUS
<1>4. "ctx" \notin {"id", "target"} /\ "ctx" \in {"id", "ctx", "target"}
  OBVIOUS
<1> QED
  BY <1>1, <1>2, <1>3, <1>4

LEMMA AdjustTurns ==
    ASSUME IInv, NEW direction \in {-1, 1}, controller_adjust(direction)
    PROVE  B!Turn(direction)
<1>1. /\ DOMAIN displays' = DOMAIN displays
      /\ \A id \in DOMAIN displays :
            displays'[id].dim = dimmer_adjust(displays[id].dim,
                                              delta_of(dimmer_max(displays[id].dim), direction))
  BY DEF controller_adjust, IInv, TypeOK, Entry
<1>2. ASSUME NEW id \in DOMAIN displays PROVE B!Turned(Bank[id], Bank'[id], direction)
  <2>1. displays[id].dim \in DimmerType
    BY DEF IInv, TypeOK, Entry
  <2> QED
    BY <1>1, <2>1, KnobOf, KnobOfNext, PressTurns
<1>3. UNCHANGED Motor
  BY DEF controller_adjust, pass, Motor
<1>4. DOMAIN Bank' = DOMAIN Bank
  BY <1>1, KnobOf, KnobOfNext
<1> QED
  BY <1>2, <1>3, <1>4, KnobOf DEF B!Turn

LEMMA SetStarts == ASSUME IInv, NEW id \in todo, SetStart(id) PROVE B!Start(id)
<1>1. id \in DOMAIN displays /\ dimmer_due(displays[id].dim) /\ writing = NoWrite
  BY DEF SetStart, NextDue, IInv, TypeOK
<1>2. displays[id].dim \in DimmerType /\ Reachable(Wanted(displays[id].dim), displays[id].dim)
  BY <1>1 DEF IInv, TypeOK, Entry, NoneRunsAway
<1>3. /\ dimmer_target(displays[id].dim) = Wanted(displays[id].dim)
      /\ dimmer_target(displays[id].dim) # displays[id].dim.current
  BY <1>1, <1>2, DueTarget
<1>4. /\ writing' = [id |-> id, ctx |-> displays[id].ctx, target |-> Wanted(displays[id].dim)]
      /\ displays' = displays
  BY <1>3 DEF SetStart, set
<1>5. Motor = NoWrite
  BY <1>1 DEF Motor
<1>6. Motor' = [id |-> id, target |-> Wanted(displays[id].dim)]
  <2>1. id # <<>>
    BY <1>1 DEF IInv, TypeOK, Ids
  <2>2. writing' # NoWrite
    BY <1>4, <2>1 DEF NoWrite
  <2> QED
    BY <1>4, <2>2 DEF Motor
<1>7. Bank' = Bank
  BY <1>4 DEF Bank
<1> QED
  BY <1>1, <1>3, <1>5, <1>6, <1>7, KnobOf DEF B!Start

LEMMA SetArrives == ASSUME IInv, SetDone PROVE B!Arrive
<1> DEFINE dim == displays[writing.id].dim
<1>1. writing # NoWrite /\ writing' = NoWrite
  BY DEF SetDone
<1>2. writing.id \in DOMAIN displays /\ dim \in DimmerType /\ writing.target \in Nat
  BY <1>1, InFlight
<1>3. /\ DOMAIN displays' = DOMAIN displays
      /\ displays'[writing.id].dim = dimmer_commit(dim, writing.target)
      /\ \A id \in DOMAIN displays \ {writing.id} : displays'[id] = displays[id]
  BY <1>2 DEF SetDone, IInv, TypeOK, Entry
<1>4. /\ displays'[writing.id].dim.current = writing.target
      /\ displays'[writing.id].dim.max = dim.max
      /\ Wanted(displays'[writing.id].dim) = Wanted(dim)
  BY <1>2, <1>3, CommitEffect
<1>5. Bank' = [Bank EXCEPT ![writing.id].level = writing.target]
  <2> DEFINE after == [Bank EXCEPT ![writing.id].level = writing.target]
  <2>1. DOMAIN after = DOMAIN displays /\ DOMAIN Bank' = DOMAIN displays
    BY <1>3, KnobOf, KnobOfNext
  <2>2. ASSUME NEW id \in DOMAIN displays PROVE Bank'[id] = after[id]
    <3>1. CASE id = writing.id
      BY <1>2, <1>3, <1>4, <3>1, KnobOf, KnobOfNext
    <3>2. CASE id # writing.id
      BY <1>3, <3>2, KnobOf, KnobOfNext
    <3> QED
      BY <3>1, <3>2
  <2>3. Bank' = [id \in DOMAIN displays |-> Bank'[id]]
    BY <1>3 DEF Bank
  <2>4. after = [id \in DOMAIN displays |-> after[id]]
    BY KnobOf DEF Bank
  <2>5. [id \in DOMAIN displays |-> Bank'[id]] = [id \in DOMAIN displays |-> after[id]]
    <3> HIDE DEF after
    <3> QED
      BY <2>2
  <2>6. Bank' = after
    <3> HIDE DEF after
    <3> QED
      BY <2>3, <2>4, <2>5
  <2> QED
    BY <2>6
<1>6. Motor' = NoWrite
  BY <1>1 DEF Motor
<1>7. Motor # NoWrite /\ Motor.id = writing.id /\ Motor.target = writing.target
  BY <1>1, MotorMoves
<1>8. Bank' = [Bank EXCEPT ![Motor.id].level = Motor.target]
  BY <1>5, <1>7
<1> QED
  BY <1>6, <1>7, <1>8 DEF B!Arrive

LEMMA SetGivesUp == ASSUME IInv, SetFails PROVE B!GiveUp
<1> DEFINE dim == displays[writing.id].dim
<1>1. writing # NoWrite /\ writing' = NoWrite
  BY DEF SetFails
<1>2. writing.id \in DOMAIN displays /\ dim \in DimmerType
  BY <1>1, InFlight
<1>3. /\ DOMAIN displays' = DOMAIN displays
      /\ displays'[writing.id].dim = dimmer_settled(dim)
      /\ \A id \in DOMAIN displays \ {writing.id} : displays'[id] = displays[id]
  BY <1>2 DEF SetFails, IInv, TypeOK, Entry
<1>4. /\ displays'[writing.id].dim.current = dim.current
      /\ displays'[writing.id].dim.max = dim.max
      /\ Wanted(displays'[writing.id].dim) = dim.current
  BY <1>2, <1>3, SettledEffect
<1>5. Bank' = [Bank EXCEPT ![writing.id].wanted = Bank[writing.id].level]
  <2> DEFINE after == [Bank EXCEPT ![writing.id].wanted = Bank[writing.id].level]
  <2>1. DOMAIN after = DOMAIN displays /\ DOMAIN Bank' = DOMAIN displays
    BY <1>3, KnobOf, KnobOfNext
  <2>2. ASSUME NEW id \in DOMAIN displays PROVE Bank'[id] = after[id]
    <3>1. CASE id = writing.id
      BY <1>2, <1>3, <1>4, <3>1, KnobOf, KnobOfNext
    <3>2. CASE id # writing.id
      BY <1>3, <3>2, KnobOf, KnobOfNext
    <3> QED
      BY <3>1, <3>2
  <2>3. Bank' = [id \in DOMAIN displays |-> Bank'[id]]
    BY <1>3 DEF Bank
  <2>4. after = [id \in DOMAIN displays |-> after[id]]
    BY KnobOf DEF Bank
  <2>5. [id \in DOMAIN displays |-> Bank'[id]] = [id \in DOMAIN displays |-> after[id]]
    <3> HIDE DEF after
    <3> QED
      BY <2>2
  <2>6. Bank' = after
    <3> HIDE DEF after
    <3> QED
      BY <2>3, <2>4, <2>5
  <2> QED
    BY <2>6
<1>6. Motor' = NoWrite
  BY <1>1 DEF Motor
<1>7. Motor # NoWrite /\ Motor.id = writing.id
  BY <1>1, MotorMoves
<1>8. Bank' = [Bank EXCEPT ![Motor.id].wanted = Bank[Motor.id].level]
  BY <1>5, <1>7
<1> QED
  BY <1>6, <1>7, <1>8 DEF B!GiveUp

LEMMA OpenExchanges ==
    ASSUME IInv, ctrl = "null", NEW broken, NEW unread, controller_open(broken, unread)
    PROVE  B!Exchange
<1>1. displays = <<>> /\ writing = NoWrite
  BY DEF IInv, BetweenCalls
<1>2. ASSUME NEW id \in DOMAIN displays'
      PROVE  Wanted(displays'[id].dim) = displays'[id].dim.current
  <2>1. PICK m : m \in Displays /\ displays'[id].dim = ReadDimmer(m, unread)
    BY <1>2, SourcesAreNew DEF controller_open, IInv
  <2> QED
    BY <2>1, NewKnob
<1>3. DOMAIN Bank = {}
  BY <1>1, KnobOf
<1>4. Motor = NoWrite /\ Motor' = Motor
  BY <1>1 DEF controller_open, pass, Motor
<1> QED
  BY <1>2, <1>3, <1>4, KnobOfNext DEF B!Exchange

LEMMA ReconcileExchanges ==
    ASSUME IInv, Idle, NEW broken, NEW unread, controller_reconcile(broken, unread)
    PROVE  B!Exchange
<1>1. writing = NoWrite
  BY DEF IInv, BetweenCalls, Idle
<1>2. ASSUME NEW id \in DOMAIN displays', id \in DOMAIN displays
      PROVE  displays'[id].dim = displays[id].dim
  BY <1>2 DEF controller_reconcile
<1>3. ASSUME NEW id \in DOMAIN displays', id \notin DOMAIN displays
      PROVE  Wanted(displays'[id].dim) = displays'[id].dim.current
  <2>1. PICK m : m \in Displays /\ displays'[id].dim = ReadDimmer(m, unread)
    BY <1>3, SourcesAreNew DEF controller_reconcile, IInv
  <2> QED
    BY <2>1, NewKnob
<1>4. Motor = NoWrite /\ Motor' = Motor
  BY <1>1 DEF controller_reconcile, pass, Motor
<1> QED
  BY <1>2, <1>3, <1>4, KnobOf, KnobOfNext DEF B!Exchange

LEMMA CloseExchanges == ASSUME IInv, Idle, controller_close PROVE B!Exchange
<1>1. writing = NoWrite
  BY DEF IInv, BetweenCalls, Idle
<1>2. DOMAIN Bank' = {}
  BY KnobOfNext DEF controller_close
<1>3. Motor = NoWrite /\ Motor' = Motor
  BY <1>1 DEF controller_close, pass, Motor
<1> QED
  BY <1>2, <1>3 DEF B!Exchange

\* A knob does not notice that a pass begins or ends, or what happens outside.
LEMMA KnobsRest == UNCHANGED <<displays, writing>> => UNCHANGED B!vars
  BY DEF B!vars, Bank, Motor

LEMMA BankStep == IInv /\ [Next]_vars => [B!Next]_(B!vars)
<1> SUFFICES ASSUME IInv, [Next]_vars PROVE [B!Next]_(B!vars)
  OBVIOUS
<1> USE DEF B!Next
<1>1. ASSUME NEW broken, NEW unread, ctrl = "null", controller_open(broken, unread)
      PROVE  B!Next
  BY <1>1, OpenExchanges
<1>2. ASSUME NEW direction \in {-1, 1}, controller_adjust(direction) PROVE B!Next
  BY <1>2, AdjustTurns
<1>3. ASSUME ServiceCall PROVE UNCHANGED B!vars
  BY <1>3, KnobsRest DEF ServiceCall, set
<1>4. ASSUME NEW id \in todo, SetStart(id) PROVE B!Next
  <2>1. id \in DOMAIN Bank
    BY KnobOf DEF IInv, TypeOK
  <2> QED
    BY <1>4, <2>1, SetStarts
<1>5. ASSUME SetDone PROVE B!Next
  BY <1>5, SetArrives
<1>6. ASSUME SetFails PROVE B!Next
  BY <1>6, SetGivesUp
<1>7. ASSUME ServiceReturn PROVE UNCHANGED B!vars
  BY <1>7, KnobsRest DEF ServiceReturn, set
<1>8. ASSUME NEW broken, NEW unread, Idle, controller_reconcile(broken, unread)
      PROVE  B!Next
  BY <1>8, ReconcileExchanges
<1>9. ASSUME Idle, controller_close PROVE B!Next
  BY <1>9, CloseExchanges
<1>10. ASSUME Hotplug PROVE UNCHANGED B!vars
  BY <1>10, KnobsRest DEF Hotplug, set, pass
<1>11. ASSUME NEW m, Osd(m) PROVE UNCHANGED B!vars
  BY <1>11, KnobsRest DEF Osd, set, pass
<1>12. CASE UNCHANGED vars
  BY <1>12, KnobsRest DEF vars
<1> HIDE DEF B!Next
<1> QED
  BY <1>1, <1>2, <1>3, <1>4, <1>5, <1>6, <1>7, <1>8, <1>9, <1>10, <1>11, <1>12 DEF Next

\* display_controller.h: presses turn all displays by a share of their own range,
\* those that land during a write are kept, a write that fails gives up one
\* display's batch alone, and a reconcile keeps the displays that stay -- for every
\* number of displays, every range and step, and whatever fails.
THEOREM ImplementsKnobBank == Spec => IsBank
<1>1. Init => B!Init
  BY DEF Init, B!Init, Bank, Motor
<1> QED
  BY <1>1, BankStep, Invariant, PTL DEF Spec, IsBank, B!Spec
=============================================================================
