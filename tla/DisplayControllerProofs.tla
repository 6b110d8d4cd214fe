----------------------- MODULE DisplayControllerProofs -----------------------
(***************************************************************************)
(* Proofs about the set of controlled displays, for any number of displays *)
(* of any range, any step, any limit on handles and any choice of faults.  *)
(*                                                                         *)
(* The inductive invariant is the conjunction of what the runs check, with *)
(* BetweenCalls: HandlesValid alone is not inductive, because a set that   *)
(* returns needs its entry to be there still.                              *)
(***************************************************************************)
EXTENDS DisplayController, DimmerLemmas, FiniteSetTheorems

IInv == TypeOK /\ HandlesValid /\ NoneRunsAway /\ BetweenCalls

\* What enumeration returns is new and distinct: every handle is one the process
\* did not hold, on an external display, under an id that carries its model.
LEMMA SourcesAreNew ==
    ASSUME TypeOK, NEW broken
    PROVE  LET sources == ddc_enumerate_sources(broken)
           IN  /\ DOMAIN sources \subseteq Ids
               /\ \A id \in DOMAIN sources :
                     /\ sources[id] \in Handles
                     /\ sources[id] \notin open
                     /\ sources[id][1] \in Displays \ BuiltIn
                     /\ id[1] = Model[sources[id][1]]
               /\ \A a, b \in DOMAIN sources : sources[a][1] = sources[b][1] => a = b
<1> DEFINE candidates == {i \in DOMAIN plugged : controllable(plugged[i], broken)}
           found == {i \in candidates :
                       Cardinality(open) + Cardinality({j \in candidates : j < i}) < MaxOpen}
           sources == [id \in {id_of(i) : i \in found} |-> NewHandle(plugged[id[2]])]
<1>1. ddc_enumerate_sources(broken) = sources
  BY DEF ddc_enumerate_sources
<1>a. \A i \in found : /\ i \in DOMAIN plugged
                       /\ plugged[i] \notin BuiltIn
                       /\ FreeSlots(plugged[i]) # {}
  BY DEF controllable
<1> HIDE DEF found
<1>2. PICK n \in 0..Cardinality(Displays) :
        /\ plugged \in [1..n -> Displays]
        /\ \A i, j \in 1..n : plugged[i] = plugged[j] => i = j
  BY DEF TypeOK, Arrangements
<1>3. found \subseteq 1..n
  BY <1>a, <1>2
<1>4. ASSUME NEW i \in found
      PROVE  /\ NewHandle(plugged[i]) \in Handles
             /\ NewHandle(plugged[i]) \notin open
             /\ NewHandle(plugged[i])[1] = plugged[i]
  <2> DEFINE free == FreeSlots(plugged[i])
             slot == CHOOSE s \in Slots : s \in free
  <2>1. PICK s \in Slots : s \in free
    BY <1>a DEF FreeSlots
  <2>2. slot \in free
    BY <2>1
  <2>3. NewHandle(plugged[i]) = <<plugged[i], slot>>
    BY DEF NewHandle
  <2>4. plugged[i] \in Displays
    BY <1>2, <1>3
  <2>5. slot \in Slots /\ <<plugged[i], slot>> \notin open
    <3> HIDE DEF slot
    <3> QED BY <2>2 DEF FreeSlots
  <2> HIDE DEF slot
  <2> QED BY <2>3, <2>4, <2>5 DEF Handles
<1>5. ASSUME NEW id \in DOMAIN sources
      PROVE  \E i \in found : id = id_of(i) /\ id[2] = i /\ id[1] = Model[plugged[i]]
                              /\ sources[id] = NewHandle(plugged[i])
  BY DEF id_of
<1>6. DOMAIN sources \subseteq Ids
  <2> SUFFICES ASSUME NEW id \in DOMAIN sources PROVE id \in Ids
    OBVIOUS
  <2>1. PICK i \in found : id = id_of(i)
    BY <1>5
  <2>2. i \in 1..Cardinality(Displays) /\ plugged[i] \in Displays
    <3>1. i \in 1..n /\ n \in 0..Cardinality(Displays) /\ i \in Nat /\ n \in Nat
      BY <1>2, <1>3
    <3>2. Cardinality(Displays) \in Nat
      BY DisplaysAssumption, FS_CardinalityType
    <3> QED BY <1>2, <3>1, <3>2
  <2> QED BY <2>1, <2>2 DEF id_of, Ids
<1>7. ASSUME NEW id \in DOMAIN sources
      PROVE  /\ sources[id] \in Handles
             /\ sources[id] \notin open
             /\ sources[id][1] \in Displays \ BuiltIn
             /\ id[1] = Model[sources[id][1]]
  <2>1. PICK i \in found : id[1] = Model[plugged[i]] /\ sources[id] = NewHandle(plugged[i])
    BY <1>5
  <2>2. plugged[i] \in Displays \ BuiltIn
    BY <1>a, <1>2, <1>3
  <2> HIDE DEF sources, found
  <2> QED BY <1>4, <2>1, <2>2
<1>8. ASSUME NEW a \in DOMAIN sources, NEW b \in DOMAIN sources, sources[a][1] = sources[b][1]
      PROVE  a = b
  <2>1. PICK i \in found : a = id_of(i) /\ sources[a] = NewHandle(plugged[i])
    BY <1>5
  <2>2. PICK j \in found : b = id_of(j) /\ sources[b] = NewHandle(plugged[j])
    BY <1>5
  <2>3. plugged[i] = plugged[j]
    BY <1>4, <1>8, <2>1, <2>2
  <2> QED BY <1>2, <1>3, <2>1, <2>2, <2>3
<1> HIDE DEF sources
<1> QED BY <1>1, <1>6, <1>7, <1>8

\* A dimmer made from a reading is well-formed and wants what it shows.
LEMMA ReadDimmerType ==
    ASSUME TypeOK, NEW m \in Displays, NEW unread
    PROVE  /\ ReadDimmer(m, unread) \in DimmerType
           /\ Reachable(Wanted(ReadDimmer(m, unread)), ReadDimmer(m, unread))
<1>1. shown[m] \in Nat /\ DisplayMax[m] \in Nat /\ DefaultMax \in Nat
  BY DisplaysAssumption, StepAssumption DEF TypeOK
<1> QED BY <1>1 DEF ReadDimmer, dimmer_init, DimmerType, Reachable, Wanted

\* A set that is built from new handles, each with a sane dimmer, is a valid one.
\* Opening and reconciling both end here.
LEMMA NewSetIsValid ==
    ASSUME IInv, NEW broken,
           LET sources == ddc_enumerate_sources(broken)
           IN  /\ DOMAIN displays' = DOMAIN sources
               /\ displays' = [id \in DOMAIN sources |-> displays'[id]]
               /\ \A id \in DOMAIN sources :
                     /\ displays'[id] \in Entry
                     /\ displays'[id].ctx = sources[id]
                     /\ Reachable(Wanted(displays'[id].dim), displays'[id].dim)
                     /\ sources[id] \in open'
               /\ open' \subseteq open \cup HandlesOf(sources),
           UNCHANGED <<bus, pass>>,
           applied = NoPass,
           ctrl' = "open"
    PROVE  IInv'
<1> DEFINE sources == ddc_enumerate_sources(broken)
<1>1. /\ DOMAIN sources \subseteq Ids
      /\ \A id \in DOMAIN sources :
            /\ sources[id] \in Handles
            /\ sources[id][1] \in Displays \ BuiltIn
            /\ id[1] = Model[sources[id][1]]
      /\ \A a, b \in DOMAIN sources : sources[a][1] = sources[b][1] => a = b
  BY SourcesAreNew DEF IInv
<1> HIDE DEF sources
<1>2. /\ DOMAIN displays' = DOMAIN sources
      /\ displays' = [id \in DOMAIN sources |-> displays'[id]]
      /\ \A id \in DOMAIN sources :
            /\ displays'[id] \in Entry
            /\ displays'[id].ctx = sources[id]
            /\ Reachable(Wanted(displays'[id].dim), displays'[id].dim)
            /\ sources[id] \in open'
      /\ open' \subseteq open \cup HandlesOf(sources)
  BY DEF sources
<1>3. todo = {} /\ writing = NoWrite
  BY DEF IInv, BetweenCalls
<1>4. todo' = {} /\ writing' = NoWrite /\ applied' = NoPass
  BY <1>3 DEF pass
<1>5. TypeOK'
  <2>1. plugged' \in Arrangements /\ shown' \in [Displays -> Nat]
    BY DEF IInv, TypeOK, bus
  <2>2. open' \subseteq Handles
    BY <1>1, <1>2 DEF IInv, TypeOK, HandlesOf
  <2>3. DOMAIN displays' \subseteq Ids /\ displays' \in [DOMAIN displays' -> Entry]
    BY <1>1, <1>2
  <2> QED BY <1>4, <2>1, <2>2, <2>3 DEF TypeOK
<1>6. HandlesValid'
  BY <1>1, <1>2, <1>4 DEF HandlesValid
<1>7. NoneRunsAway'
  BY <1>2, <1>4 DEF NoneRunsAway, Reachable, Wanted
<1>8. BetweenCalls'
  BY <1>1, <1>2, <1>4 DEF BetweenCalls
<1> QED BY <1>5, <1>6, <1>7, <1>8 DEF IInv

LEMMA InitInv == Init => IInv
<1> SUFFICES ASSUME Init PROVE IInv
  OBVIOUS
<1>1. DOMAIN displays = {} /\ displays = <<>> /\ todo = {} /\ writing = NoWrite
      /\ applied = NoPass /\ open = {} /\ ctrl = "null" /\ plugged \in Arrangements
  BY DEF Init
<1>2. shown \in [Displays -> Nat]
  BY DisplaysAssumption DEF Init, ShownLevels
<1>3. displays \in [DOMAIN displays -> Entry]
  BY <1>1
<1>4. TypeOK
  BY <1>1, <1>2, <1>3 DEF TypeOK
<1>5. HandlesValid /\ NoneRunsAway /\ BetweenCalls
  BY <1>1 DEF HandlesValid, NoneRunsAway, BetweenCalls
<1> QED BY <1>4, <1>5 DEF IInv

LEMMA OpenInv ==
    ASSUME IInv, NEW broken, NEW unread, ctrl = "null", controller_open(broken, unread)
    PROVE  IInv'
<1> DEFINE sources == ddc_enumerate_sources(broken)
<1>1. \A id \in DOMAIN sources : sources[id] \in Handles /\ sources[id][1] \in Displays
  BY SourcesAreNew DEF IInv
<1>2. /\ displays' = [id \in DOMAIN sources |->
           [ctx |-> sources[id], dim |-> ReadDimmer(sources[id][1], unread)]]
      /\ open' = open \cup HandlesOf(sources)
      /\ ctrl' = "open" /\ UNCHANGED <<bus, pass>>
  BY DEF controller_open
<1>3. applied = NoPass
  BY DEF IInv, BetweenCalls
<1> HIDE DEF sources
<1>4. \A id \in DOMAIN sources :
         /\ ReadDimmer(sources[id][1], unread) \in DimmerType
         /\ Reachable(Wanted(ReadDimmer(sources[id][1], unread)),
                      ReadDimmer(sources[id][1], unread))
  BY <1>1, ReadDimmerType DEF IInv
<1>5. \A id \in DOMAIN sources :
         /\ displays'[id] \in Entry
         /\ displays'[id].ctx = sources[id]
         /\ Reachable(Wanted(displays'[id].dim), displays'[id].dim)
         /\ sources[id] \in open'
  BY <1>1, <1>2, <1>4 DEF Entry, HandlesOf
<1>6. DOMAIN displays' = DOMAIN sources /\ displays' = [id \in DOMAIN sources |-> displays'[id]]
  BY <1>2
<1> QED BY <1>2, <1>3, <1>5, <1>6, NewSetIsValid DEF sources

LEMMA ReconcileInv ==
    ASSUME IInv, NEW broken, NEW unread, Idle, controller_reconcile(broken, unread)
    PROVE  IInv'
<1> DEFINE fresh == ddc_enumerate_sources(broken)
<1>1. \A id \in DOMAIN fresh :
         fresh[id] \in Handles /\ fresh[id] \notin open /\ fresh[id][1] \in Displays
  BY SourcesAreNew DEF IInv
<1>2. /\ displays' = [id \in DOMAIN fresh |->
           [ctx |-> fresh[id],
            dim |-> IF id \in DOMAIN displays THEN displays[id].dim
                    ELSE ReadDimmer(fresh[id][1], unread)]]
      /\ open' = (open \cup HandlesOf(fresh)) \ closed_by(fresh)
      /\ ctrl' = ctrl /\ UNCHANGED <<bus, pass>>
  BY DEF controller_reconcile
<1>3. applied = NoPass /\ ctrl' = "open"
  BY <1>2 DEF Idle
<1> HIDE DEF fresh
<1>4. \A id \in DOMAIN fresh :
         /\ ReadDimmer(fresh[id][1], unread) \in DimmerType
         /\ Reachable(Wanted(ReadDimmer(fresh[id][1], unread)), ReadDimmer(fresh[id][1], unread))
  BY <1>1, ReadDimmerType DEF IInv
<1>5. \A id \in DOMAIN displays :
         /\ displays[id].dim \in DimmerType
         /\ Reachable(Wanted(displays[id].dim), displays[id].dim)
         /\ displays[id].ctx \in open
  BY DEF IInv, TypeOK, Entry, NoneRunsAway, HandlesValid
<1>6. closed_by(fresh) \subseteq open
  BY <1>5 DEF closed_by
<1>7. ASSUME NEW id \in DOMAIN fresh
      PROVE  /\ displays'[id] \in Entry
             /\ displays'[id].ctx = fresh[id]
             /\ Reachable(Wanted(displays'[id].dim), displays'[id].dim)
             /\ fresh[id] \in open'
  <2>1. fresh[id] \in open'
    BY <1>1, <1>2, <1>6 DEF HandlesOf
  <2>2. CASE id \in DOMAIN displays
    <3>1. displays'[id] = [ctx |-> fresh[id], dim |-> displays[id].dim]
      BY <1>2, <2>2
    <3> QED BY <1>1, <1>5, <2>1, <2>2, <3>1 DEF Entry
  <2>3. CASE id \notin DOMAIN displays
    <3>1. displays'[id] = [ctx |-> fresh[id], dim |-> ReadDimmer(fresh[id][1], unread)]
      BY <1>2, <2>3
    <3> QED BY <1>1, <1>4, <2>1, <3>1 DEF Entry
  <2> QED BY <2>2, <2>3
<1>8. DOMAIN displays' = DOMAIN fresh /\ displays' = [id \in DOMAIN fresh |-> displays'[id]]
  BY <1>2
<1>9. open' \subseteq open \cup HandlesOf(fresh)
  BY <1>2
<1> QED BY <1>2, <1>3, <1>7, <1>8, <1>9, NewSetIsValid DEF fresh

\* A call that only changes dimmers keeps everything else of the invariant.
LEMMA SameHandles ==
    ASSUME IInv,
           DOMAIN displays' = DOMAIN displays,
           displays' = [id \in DOMAIN displays |-> displays'[id]],
           \A id \in DOMAIN displays :
              /\ displays'[id] = [displays[id] EXCEPT !.dim = displays'[id].dim]
              /\ displays'[id].dim \in DimmerType
              /\ Reachable(Wanted(displays'[id].dim), displays'[id].dim),
           shown' \in [Displays -> Nat],
           ctrl = "open",
           UNCHANGED <<plugged, open, ctrl, todo>>,
           writing' = NoWrite,
           applied' \in {NoPass} \cup Nat,
           applied' = NoPass => todo = {}
    PROVE  IInv'
<1>1. \A id \in DOMAIN displays : displays[id] \in Entry
  BY DEF IInv, TypeOK
<1>2. \A id \in DOMAIN displays :
         displays'[id] \in Entry /\ displays'[id].ctx = displays[id].ctx
  BY <1>1 DEF Entry
<1>3. TypeOK'
  BY <1>2 DEF IInv, TypeOK
<1>4. HandlesValid'
  BY <1>2 DEF IInv, HandlesValid
<1>5. NoneRunsAway'
  BY DEF NoneRunsAway, Reachable, Wanted
<1>6. BetweenCalls'
  BY <1>2 DEF IInv, BetweenCalls
<1> QED BY <1>3, <1>4, <1>5, <1>6 DEF IInv

LEMMA AdjustInv ==
    ASSUME IInv, NEW direction \in {-1, 1}, Idle, controller_adjust(direction)
    PROVE  IInv'
<1>1. displays' = [id \in DOMAIN displays |->
         [displays[id] EXCEPT !.dim =
            dimmer_adjust(displays[id].dim, delta_of(dimmer_max(displays[id].dim), direction))]]
  BY DEF controller_adjust
<1>2. ASSUME NEW id \in DOMAIN displays
      PROVE  /\ displays'[id] = [displays[id] EXCEPT !.dim = displays'[id].dim]
             /\ displays'[id].dim \in DimmerType
             /\ Reachable(Wanted(displays'[id].dim), displays'[id].dim)
  <2> DEFINE dim == displays[id].dim
             delta == delta_of(dimmer_max(dim), direction)
  <2>1. displays[id] \in Entry /\ dim \in DimmerType /\ Reachable(Wanted(dim), dim)
    BY DEF IInv, TypeOK, Entry, NoneRunsAway
  <2>2. dim.max \in Nat
    BY <2>1 DEF DimmerType
  <2>3. delta \in Int
    <3>1. /\ dimmer_delta_for_fraction(dim.max, 1, StepDen) \in Nat \ {0}
          /\ dimmer_delta_for_fraction(dim.max, -1, StepDen)
               = - dimmer_delta_for_fraction(dim.max, 1, StepDen)
      BY <2>2, StepAssumption, DeltaIsAStep
    <3> QED BY <3>1 DEF delta_of, dimmer_max
  <2>4. /\ dimmer_adjust(dim, delta) \in DimmerType
        /\ Reachable(Wanted(dimmer_adjust(dim, delta)), dimmer_adjust(dim, delta))
    <3> HIDE DEF dim, delta
    <3> QED BY <2>1, <2>3, AdjustEffect, StaysReachable
  <2>5. displays'[id] = [displays[id] EXCEPT !.dim = dimmer_adjust(dim, delta)]
    BY <1>1
  <2>6. displays'[id].dim = dimmer_adjust(dim, delta)
    BY <2>1, <2>5 DEF Entry
  <2> QED BY <2>4, <2>5, <2>6
<1>3. DOMAIN displays' = DOMAIN displays /\ displays' = [id \in DOMAIN displays |-> displays'[id]]
  BY <1>1
<1>4. UNCHANGED <<plugged, shown, open, ctrl, todo, writing, applied>>
  BY DEF controller_adjust, bus, pass
<1>5. ctrl = "open" /\ applied = NoPass /\ writing = NoWrite /\ todo = {}
  BY DEF Idle, IInv, BetweenCalls
<1> QED BY <1>2, <1>3, <1>4, <1>5, SameHandles DEF IInv, TypeOK

\* What the state looks like when a set returns.
LEMMA InFlight ==
    ASSUME IInv, writing # NoWrite
    PROVE  /\ writing \in [id : Ids, ctx : Handles, target : Nat]
           /\ writing.id \in DOMAIN displays
           /\ writing.ctx = displays[writing.id].ctx
           /\ writing.ctx[1] \in Displays
           /\ displays[writing.id] \in Entry
           /\ displays[writing.id].dim \in DimmerType
           /\ dimmer_due(displays[writing.id].dim)
           /\ writing.target = dimmer_target(displays[writing.id].dim)
           /\ ctrl = "open"
           /\ applied \in Nat
BY DEF IInv, TypeOK, HandlesValid, NoneRunsAway, BetweenCalls, Entry, Handles

\* Replacing one dimmer of the set by a sane one.
LEMMA OneDimmer ==
    ASSUME IInv, NEW x \in DOMAIN displays, NEW dim \in DimmerType,
           Reachable(Wanted(dim), dim),
           displays' = [displays EXCEPT ![x].dim = dim]
    PROVE  /\ DOMAIN displays' = DOMAIN displays
           /\ displays' = [id \in DOMAIN displays |-> displays'[id]]
           /\ \A id \in DOMAIN displays :
                 /\ displays'[id] = [displays[id] EXCEPT !.dim = displays'[id].dim]
                 /\ displays'[id].dim \in DimmerType
                 /\ Reachable(Wanted(displays'[id].dim), displays'[id].dim)
           /\ displays'[x].dim = dim
           /\ \A id \in DOMAIN displays \ {x} : displays'[id] = displays[id]
<1>1. displays \in [DOMAIN displays -> Entry]
  BY DEF IInv, TypeOK
<1>2. DOMAIN displays' = DOMAIN displays /\ displays' = [id \in DOMAIN displays |-> displays'[id]]
  BY <1>1
<1>3. displays'[x] = [displays[x] EXCEPT !.dim = dim] /\ displays'[x].dim = dim
  BY <1>1 DEF Entry
<1>4. \A id \in DOMAIN displays \ {x} :
         /\ displays'[id] = displays[id]
         /\ displays'[id] = [displays[id] EXCEPT !.dim = displays'[id].dim]
         /\ displays'[id].dim \in DimmerType
         /\ Reachable(Wanted(displays'[id].dim), displays'[id].dim)
  BY <1>1 DEF Entry, IInv, NoneRunsAway
<1> QED BY <1>2, <1>3, <1>4

LEMMA SetDoneInv == ASSUME IInv, SetDone PROVE IInv'
<1> DEFINE dim == displays[writing.id].dim
           committed == dimmer_commit(dim, writing.target)
<1>0. writing # NoWrite
  BY DEF SetDone
<1>1. /\ writing.target \in Nat
      /\ writing.id \in DOMAIN displays
      /\ writing.ctx[1] \in Displays
      /\ dim \in DimmerType
      /\ dimmer_due(dim)
      /\ writing.target = dimmer_target(dim)
      /\ ctrl = "open"
      /\ applied \in Nat
  BY <1>0, InFlight
<1>2. displays' = [displays EXCEPT ![writing.id].dim = committed]
  BY DEF SetDone
<1>3. shown' \in [Displays -> Nat]
  BY <1>1 DEF SetDone, IInv, TypeOK
<1>4. committed \in DimmerType /\ Reachable(Wanted(committed), committed)
  <2>1. Reachable(Wanted(dim), dim)
    BY <1>1 DEF IInv, NoneRunsAway
  <2> HIDE DEF dim
  <2> QED BY <1>1, <2>1, CommitEffect, StaysReachable
<1>5. UNCHANGED <<plugged, open, ctrl, todo>> /\ writing' = NoWrite /\ applied' \in Nat
  BY <1>1 DEF SetDone
<1>6. applied' # NoPass
  BY <1>5 DEF NoPass
<1> HIDE DEF committed
<1> QED BY <1>1, <1>2, <1>3, <1>4, <1>5, <1>6, OneDimmer, SameHandles

LEMMA SetFailsInv == ASSUME IInv, SetFails PROVE IInv'
<1> DEFINE dim == displays[writing.id].dim
           settled == dimmer_settled(dim)
<1>0. writing # NoWrite
  BY DEF SetFails
<1>1. writing.id \in DOMAIN displays /\ dim \in DimmerType /\ ctrl = "open" /\ applied \in Nat
  BY <1>0, InFlight
<1>2. displays' = [displays EXCEPT ![writing.id].dim = settled]
  BY DEF SetFails
<1>3. settled \in DimmerType /\ Reachable(Wanted(settled), settled)
  <2> HIDE DEF dim
  <2> QED BY <1>1, SettledEffect DEF Reachable
<1>4. UNCHANGED <<plugged, shown, open, ctrl, todo, applied>> /\ writing' = NoWrite
  BY DEF SetFails, bus
<1>5. applied' # NoPass /\ applied' \in Nat /\ shown' \in [Displays -> Nat]
  BY <1>1, <1>4 DEF NoPass, IInv, TypeOK
<1> HIDE DEF settled
<1> QED BY <1>1, <1>2, <1>3, <1>4, <1>5, OneDimmer, SameHandles

LEMMA SetStartInv == ASSUME IInv, NEW id \in todo, SetStart(id), applied # NoPass PROVE IInv'
<1>1. /\ id \in DOMAIN displays
      /\ dimmer_due(displays[id].dim)
      /\ writing' = [id |-> id, ctx |-> displays[id].ctx,
                     target |-> dimmer_target(displays[id].dim)]
      /\ todo' \subseteq todo
      /\ UNCHANGED <<plugged, shown, open, displays, ctrl, applied>>
  BY DEF SetStart, NextDue, IInv, TypeOK, bus, set
<1>2. displays[id] \in Entry /\ Reachable(Wanted(displays[id].dim), displays[id].dim)
  BY <1>1 DEF IInv, TypeOK, NoneRunsAway
<1>3. displays[id].dim \in DimmerType /\ displays[id].ctx \in Handles
  BY <1>2 DEF Entry
<1>4. dimmer_target(displays[id].dim) \in Nat
  <2> DEFINE dim == displays[id].dim
  <2>1. dimmer_target(dim) \in 0..dim.max
    <3> HIDE DEF dim
    <3> QED BY <1>1, <1>2, <1>3, DueTarget DEF dim
  <2>2. dim.max \in Nat
    BY <1>3 DEF DimmerType
  <2> QED BY <2>1, <2>2
<1>5. writing' \in [id : Ids, ctx : Handles, target : Nat]
  BY <1>1, <1>3, <1>4 DEF IInv, TypeOK
<1>6. TypeOK'
  BY <1>1, <1>5 DEF IInv, TypeOK
<1>7. writing'.id = id /\ writing'.ctx = displays[id].ctx
      /\ writing'.target = dimmer_target(displays[id].dim)
  BY <1>1
<1>8. HandlesValid'
  BY <1>1, <1>7 DEF IInv, HandlesValid
<1>9. NoneRunsAway'
  BY <1>1, <1>7 DEF IInv, NoneRunsAway
<1>10. BetweenCalls'
  BY <1>1 DEF IInv, BetweenCalls
<1> QED BY <1>6, <1>8, <1>9, <1>10 DEF IInv

LEMMA CloseInv == ASSUME IInv, Idle, controller_close PROVE IInv'
<1>1. /\ open' \subseteq open /\ displays' = <<>> /\ ctrl' = "freed"
      /\ UNCHANGED <<plugged, shown, todo, writing, applied>>
  BY DEF controller_close, bus, pass
<1>2. applied = NoPass /\ todo = {} /\ writing = NoWrite
  BY DEF Idle, IInv, BetweenCalls
<1>3. DOMAIN displays' = {} /\ displays' \in [DOMAIN displays' -> Entry]
  BY <1>1
<1>4. TypeOK'
  BY <1>1, <1>2, <1>3 DEF IInv, TypeOK
<1>5. HandlesValid' /\ NoneRunsAway' /\ BetweenCalls'
  BY <1>1, <1>2, <1>3 DEF HandlesValid, NoneRunsAway, BetweenCalls
<1> QED BY <1>4, <1>5 DEF IInv

\* Starting and ending a pass, and everything that happens outside, touch neither
\* the set nor the write in flight.
LEMMA OthersInv ==
    ASSUME IInv,
           UNCHANGED <<open, displays, ctrl, writing>>,
           plugged' \in Arrangements,
           shown' \in [Displays -> Nat],
           todo' \subseteq DOMAIN displays,
           applied' \in {NoPass} \cup Nat,
           applied' = NoPass => todo' = {} /\ writing = NoWrite,
           ctrl # "open" => applied' = NoPass
    PROVE  IInv'
<1>1. TypeOK'
  BY DEF IInv, TypeOK
<1>2. HandlesValid' /\ NoneRunsAway' /\ BetweenCalls'
  BY DEF IInv, HandlesValid, NoneRunsAway, BetweenCalls
<1> QED BY <1>1, <1>2 DEF IInv

LEMMA StepInv == IInv /\ [Next]_vars => IInv'
<1> SUFFICES ASSUME IInv, [Next]_vars PROVE IInv'
  OBVIOUS
<1>0. /\ TypeOK
      /\ ctrl # "open" => applied = NoPass
      /\ applied = NoPass => todo = {} /\ writing = NoWrite
  BY DEF IInv, BetweenCalls
<1>1. ASSUME NEW broken \in Broken, NEW unread \in Unread,
             ctrl = "null", controller_open(broken, unread)
      PROVE  IInv'
  BY <1>1, OpenInv
<1>2. ASSUME NEW direction \in {-1, 1}, Idle, controller_adjust(direction) PROVE IInv'
  BY <1>2, AdjustInv
<1>3. ASSUME Idle, ServiceCall PROVE IInv'
  <2>1. UNCHANGED <<plugged, shown, open, displays, ctrl, writing>>
        /\ todo' = DOMAIN displays /\ applied' = 0 /\ ctrl = "open"
    BY <1>3 DEF ServiceCall, bus, set, Idle
  <2> QED BY <1>0, <2>1, OthersInv DEF TypeOK, NoPass
<1>4. ASSUME NEW id \in todo, SetStart(id) PROVE IInv'
  BY <1>0, <1>4, SetStartInv
<1>5. ASSUME SetDone PROVE IInv'
  BY <1>5, SetDoneInv
<1>6. ASSUME SetFails PROVE IInv'
  BY <1>6, SetFailsInv
<1>7. ASSUME ServiceReturn PROVE IInv'
  BY <1>0, <1>7, OthersInv DEF ServiceReturn, bus, set, TypeOK
<1>8. ASSUME NEW broken \in Broken, NEW unread \in Unread,
             Idle, controller_reconcile(broken, unread)
      PROVE  IInv'
  BY <1>8, ReconcileInv
<1>9. ASSUME Idle, controller_close PROVE IInv'
  BY <1>9, CloseInv
<1>10. ASSUME Hotplug PROVE IInv'
  BY <1>0, <1>10, OthersInv DEF Hotplug, set, pass, TypeOK
<1>11. ASSUME NEW m \in Displays, Osd(m) PROVE IInv'
  <2>1. PICK level \in 0..DisplayMax[m] : shown' = [shown EXCEPT ![m] = level]
    BY <1>11 DEF Osd
  <2>2. level \in Nat
    BY DisplaysAssumption
  <2>3. shown' \in [Displays -> Nat]
    BY <1>0, <2>1, <2>2 DEF TypeOK
  <2>4. UNCHANGED <<plugged, open, displays, ctrl, todo, writing, applied>>
    BY <1>11 DEF Osd, set, pass
  <2> QED BY <1>0, <2>3, <2>4, OthersInv DEF TypeOK
<1>12. CASE UNCHANGED vars
  BY <1>0, <1>12, OthersInv DEF vars, TypeOK
<1> QED BY <1>1, <1>2, <1>3, <1>4, <1>5, <1>6, <1>7, <1>8, <1>9, <1>10, <1>11, <1>12 DEF Next

LEMMA Invariant == Spec => []IInv
BY InitInv, StepInv, PTL DEF Spec

\* The set, its handles and the pass over it keep their shape.
THEOREM TypeCorrect == Spec => []TypeOK
BY Invariant, PTL DEF IInv

\* Whatever is plugged, unplugged or failing: every controlled display is external
\* and reached through an open handle of its own, and the write in flight goes
\* through the handle of the dimmer it will be committed to.
THEOREM HandlesStayValid == Spec => []HandlesValid
BY Invariant, PTL DEF IInv

\* No dimmer of the set runs away, and a write is still the due one when it
\* returns.
THEOREM NoDimmerRunsAway == Spec => []NoneRunsAway
BY Invariant, PTL DEF IInv

-----------------------------------------------------------------------------
(* What a dimmer believes of its display.                                  *)

\* Displays report distinct models, answer the second read and are not changed
\* behind the daemon's back, by their buttons or through a handle that was opened for
\* another one.
Honest ==
    /\ \A m, n \in Displays : Model[m] = Model[n] => m = n
    /\ "get" \notin Faults
    /\ "osd" \notin Faults
    /\ "moved" \notin Faults

\* The belief of one dimmer about one display.
Tracks(dim, m) == dim.current = shown[m] /\ dim.max = DisplayMax[m]

LEMMA ReadTracks ==
    ASSUME Honest, NEW m \in Displays, NEW unread \in Unread
    PROVE  Tracks(ReadDimmer(m, unread), m)
<1>1. unread = {}
  BY DEF Honest, Unread
<1> QED BY <1>1 DEF ReadDimmer, dimmer_init, Tracks

LEMMA TracksAfterOpen ==
    ASSUME Honest, IInv, NEW broken, NEW unread \in Unread, controller_open(broken, unread)
    PROVE  LevelTracksHardware'
<1> DEFINE sources == ddc_enumerate_sources(broken)
<1>1. \A id \in DOMAIN sources : sources[id][1] \in Displays
  BY SourcesAreNew DEF IInv
<1>2. /\ displays' = [id \in DOMAIN sources |->
           [ctx |-> sources[id], dim |-> ReadDimmer(sources[id][1], unread)]]
      /\ shown' = shown
  BY DEF controller_open, bus
<1> HIDE DEF sources
<1>3. \A id \in DOMAIN sources :
         Tracks(ReadDimmer(sources[id][1], unread), sources[id][1])
  BY <1>1, ReadTracks
<1> QED BY <1>2, <1>3 DEF LevelTracksHardware, Tracks

\* A matched id is a matched display: ids carry models, and models are distinct.
LEMMA TracksAfterReconcile ==
    ASSUME Honest, IInv, LevelTracksHardware,
           NEW broken, NEW unread \in Unread, controller_reconcile(broken, unread)
    PROVE  LevelTracksHardware'
<1> DEFINE fresh == ddc_enumerate_sources(broken)
<1>1. \A id \in DOMAIN fresh :
         fresh[id][1] \in Displays /\ id[1] = Model[fresh[id][1]]
  BY SourcesAreNew DEF IInv
<1>2. /\ displays' = [id \in DOMAIN fresh |->
           [ctx |-> fresh[id],
            dim |-> IF id \in DOMAIN displays THEN displays[id].dim
                    ELSE ReadDimmer(fresh[id][1], unread)]]
      /\ shown' = shown
  BY DEF controller_reconcile, bus
<1> HIDE DEF fresh
<1>3. ASSUME NEW id \in DOMAIN fresh PROVE Tracks(displays'[id].dim, fresh[id][1])
  <2>1. CASE id \in DOMAIN displays
    <3>1. displays[id].ctx[1] \in Displays /\ id[1] = Model[displays[id].ctx[1]]
      BY <2>1 DEF IInv, TypeOK, BetweenCalls, Entry, Handles
    <3>2. displays[id].ctx[1] = fresh[id][1]
      BY <1>1, <3>1 DEF Honest
    <3>3. displays'[id].dim = displays[id].dim
      BY <1>2, <2>1
    <3> QED BY <2>1, <3>2, <3>3 DEF LevelTracksHardware, Tracks
  <2>2. CASE id \notin DOMAIN displays
    <3>1. displays'[id].dim = ReadDimmer(fresh[id][1], unread)
      BY <1>2, <2>2
    <3> QED BY <1>1, <3>1, ReadTracks
  <2> QED BY <2>1, <2>2
<1> QED BY <1>2, <1>3 DEF LevelTracksHardware, Tracks

LEMMA TracksAfterAdjust ==
    ASSUME IInv, LevelTracksHardware, NEW direction \in {-1, 1}, controller_adjust(direction)
    PROVE  LevelTracksHardware'
<1>1. displays' = [id \in DOMAIN displays |->
         [displays[id] EXCEPT !.dim =
            dimmer_adjust(displays[id].dim, delta_of(dimmer_max(displays[id].dim), direction))]]
      /\ shown' = shown
  BY DEF controller_adjust, bus
<1>2. ASSUME NEW id \in DOMAIN displays
      PROVE  /\ displays'[id].ctx = displays[id].ctx
             /\ displays'[id].dim.current = displays[id].dim.current
             /\ displays'[id].dim.max = displays[id].dim.max
  <2>1. displays[id] \in Entry
    BY DEF IInv, TypeOK
  <2>2. displays'[id] = [displays[id] EXCEPT !.dim =
            dimmer_adjust(displays[id].dim, delta_of(dimmer_max(displays[id].dim), direction))]
    BY <1>1
  <2>3. displays[id].dim \in DimmerType
    BY <2>1 DEF Entry
  <2>4. \A delta : /\ dimmer_adjust(displays[id].dim, delta).current = displays[id].dim.current
                   /\ dimmer_adjust(displays[id].dim, delta).max = displays[id].dim.max
    BY <2>3 DEF dimmer_adjust, DimmerType
  <2> QED BY <2>1, <2>2, <2>4 DEF Entry
<1>3. DOMAIN displays' = DOMAIN displays
  BY <1>1
<1> QED BY <1>1, <1>2, <1>3 DEF LevelTracksHardware

\* The display took the value and the dimmer commits it; no other dimmer is about
\* that display.
LEMMA TracksAfterSetDone ==
    ASSUME Honest, IInv, LevelTracksHardware, SetDone
    PROVE  LevelTracksHardware'
<1> DEFINE x == writing.id
           committed == dimmer_commit(displays[x].dim, writing.target)
<1>0. writing # NoWrite
  BY DEF SetDone
<1>1. /\ writing.target \in Nat
      /\ x \in DOMAIN displays
      /\ writing.ctx = displays[x].ctx
      /\ writing.ctx[1] \in Displays
      /\ displays[x].dim \in DimmerType
      /\ dimmer_due(displays[x].dim)
      /\ writing.target = dimmer_target(displays[x].dim)
  BY <1>0, InFlight
<1>2. /\ displays' = [displays EXCEPT ![x].dim = committed]
      /\ shown' = [shown EXCEPT ![writing.ctx[1]] = writing.target]
  BY DEF SetDone, Reached, Honest
<1>3. /\ committed \in DimmerType
      /\ committed.current = writing.target
      /\ committed.max = displays[x].dim.max
      /\ Reachable(Wanted(committed), committed)
  <2>1. Reachable(Wanted(displays[x].dim), displays[x].dim)
    BY <1>1 DEF IInv, NoneRunsAway
  <2> DEFINE dim == displays[x].dim
  <2> HIDE DEF dim, x
  <2> QED BY <1>1, <2>1, CommitEffect, StaysReachable DEF dim
<1> HIDE DEF committed
<1>4. /\ DOMAIN displays' = DOMAIN displays
      /\ displays'[x].dim = committed
      /\ \A id \in DOMAIN displays \ {x} : displays'[id] = displays[id]
      /\ displays'[x] = [displays[x] EXCEPT !.dim = displays'[x].dim]
  BY <1>1, <1>2, <1>3, OneDimmer
<1>5. displays'[x].ctx = displays[x].ctx
  BY <1>1, <1>4 DEF IInv, TypeOK, Entry
<1>6. shown \in [Displays -> Nat]
  BY DEF IInv, TypeOK
<1>7. ASSUME NEW id \in DOMAIN displays
      PROVE  /\ displays'[id].dim.current = shown'[displays'[id].ctx[1]]
             /\ displays'[id].dim.max = DisplayMax[displays'[id].ctx[1]]
  <2>1. CASE id = x
    BY <1>1, <1>2, <1>3, <1>4, <1>5, <1>6, <2>1 DEF LevelTracksHardware
  <2>2. CASE id # x
    <3>1. displays[id].ctx[1] # writing.ctx[1] /\ displays[id].ctx[1] \in Displays
      BY <1>1, <2>2 DEF IInv, HandlesValid, TypeOK, Entry, Handles
    <3>2. displays'[id] = displays[id]
      BY <1>4, <2>2
    <3> QED BY <1>2, <1>6, <3>1, <3>2 DEF LevelTracksHardware
  <2> QED BY <2>1, <2>2
<1> QED BY <1>4, <1>7 DEF LevelTracksHardware

LEMMA TracksAfterSetFails ==
    ASSUME IInv, LevelTracksHardware, SetFails
    PROVE  LevelTracksHardware'
<1> DEFINE x == writing.id
           settled == dimmer_settled(displays[x].dim)
<1>0. writing # NoWrite
  BY DEF SetFails
<1>1. x \in DOMAIN displays /\ displays[x] \in Entry /\ displays[x].dim \in DimmerType
  BY <1>0, InFlight
<1>2. displays' = [displays EXCEPT ![x].dim = settled] /\ shown' = shown
  BY DEF SetFails, bus
<1>3. /\ settled \in DimmerType
      /\ settled.current = displays[x].dim.current
      /\ settled.max = displays[x].dim.max
      /\ Reachable(Wanted(settled), settled)
  <2> DEFINE dim == displays[x].dim
  <2> HIDE DEF dim
  <2> QED BY <1>1, SettledEffect DEF Reachable, dim
<1> HIDE DEF settled
<1>4. /\ DOMAIN displays' = DOMAIN displays
      /\ displays'[x].dim = settled
      /\ \A id \in DOMAIN displays \ {x} : displays'[id] = displays[id]
      /\ displays'[x] = [displays[x] EXCEPT !.dim = displays'[x].dim]
  BY <1>1, <1>2, <1>3, OneDimmer
<1>5. displays'[x].ctx = displays[x].ctx
  BY <1>1, <1>4 DEF Entry
<1> QED BY <1>1, <1>2, <1>3, <1>4, <1>5 DEF LevelTracksHardware

LEMMA TracksStep ==
    ASSUME Honest
    PROVE  IInv /\ LevelTracksHardware /\ [Next]_vars => LevelTracksHardware'
<1> SUFFICES ASSUME IInv, LevelTracksHardware, [Next]_vars PROVE LevelTracksHardware'
  OBVIOUS
<1>1. ASSUME NEW broken \in Broken, NEW unread \in Unread, controller_open(broken, unread)
      PROVE  LevelTracksHardware'
  BY <1>1, TracksAfterOpen
<1>2. ASSUME NEW direction \in {-1, 1}, controller_adjust(direction) PROVE LevelTracksHardware'
  BY <1>2, TracksAfterAdjust
<1>3. ASSUME SetDone PROVE LevelTracksHardware'
  BY <1>3, TracksAfterSetDone
<1>4. ASSUME SetFails PROVE LevelTracksHardware'
  BY <1>4, TracksAfterSetFails
<1>5. ASSUME NEW broken \in Broken, NEW unread \in Unread, controller_reconcile(broken, unread)
      PROVE  LevelTracksHardware'
  BY <1>5, TracksAfterReconcile
<1>6. ASSUME controller_close PROVE LevelTracksHardware'
  <2>1. DOMAIN displays' = {}
    BY <1>6 DEF controller_close
  <2> QED BY <2>1 DEF LevelTracksHardware
<1>7. ASSUME NEW m \in Displays, Osd(m) PROVE LevelTracksHardware'
  BY <1>7 DEF Osd, Honest
<1>8. CASE UNCHANGED <<shown, displays>>
  BY <1>8 DEF LevelTracksHardware
<1>9. ServiceCall \/ (\E id \in todo : SetStart(id)) \/ ServiceReturn \/ Hotplug \/ UNCHANGED vars
      => UNCHANGED <<shown, displays>>
  BY DEF ServiceCall, SetStart, ServiceReturn, Hotplug, vars, bus, set
<1> QED BY <1>1, <1>2, <1>3, <1>4, <1>5, <1>6, <1>7, <1>8, <1>9 DEF Next

\* A dimmer's belief about its display -- level and maximum -- stays true across
\* failing writes, hotplug and reconciliation by id, for honest displays.
THEOREM BeliefsAreTrue ==
    ASSUME Honest
    PROVE  Spec => []LevelTracksHardware
<1>1. Init => LevelTracksHardware
  <2> SUFFICES ASSUME Init PROVE LevelTracksHardware
    OBVIOUS
  <2>1. DOMAIN displays = {}
    BY DEF Init
  <2> QED BY <2>1 DEF LevelTracksHardware
<1>2. IInv /\ LevelTracksHardware /\ [Next]_vars => LevelTracksHardware'
  BY TracksStep
<1> QED BY <1>1, <1>2, Invariant, PTL DEF Spec

\* So no honest display is ever asked for more than its maximum.
THEOREM SetsStayInRange ==
    ASSUME Honest
    PROVE  Spec => []SetsInRange
<1>1. ASSUME IInv, LevelTracksHardware PROVE SetsInRange
  <2> SUFFICES ASSUME writing # NoWrite PROVE writing.target <= DisplayMax[writing.ctx[1]]
    BY DEF SetsInRange
  <2> DEFINE dim == displays[writing.id].dim
  <2>1. /\ writing.id \in DOMAIN displays
        /\ writing.ctx = displays[writing.id].ctx
        /\ dim \in DimmerType
        /\ dimmer_due(dim)
        /\ writing.target = dimmer_target(dim)
        /\ Reachable(Wanted(dim), dim)
    BY <1>1, InFlight DEF IInv, NoneRunsAway
  <2>2. dim.max = DisplayMax[writing.ctx[1]]
    BY <1>1, <2>1 DEF LevelTracksHardware
  <2> HIDE DEF dim
  <2>3. dimmer_target(dim) \in 0..dim.max
    BY <2>1, DueTarget
  <2> QED BY <2>1, <2>2, <2>3
<1>2. Spec => []LevelTracksHardware
  BY BeliefsAreTrue
<1> QED BY <1>1, <1>2, Invariant, PTL

-----------------------------------------------------------------------------
(* Offsets.                                                                *)

\* A press that ends off the rails went its whole step.
LEMMA PressOffRails ==
    ASSUME NEW dim \in DimmerType, NEW direction \in {-1, 1},
           LET pressed == dimmer_adjust(dim, delta_of(dimmer_max(dim), direction))
           IN  OffRails(pressed)
    PROVE  LET pressed == dimmer_adjust(dim, delta_of(dimmer_max(dim), direction))
           IN  Wanted(pressed) - Wanted(dim) = delta_of(dim.max, direction)
<1> DEFINE delta == delta_of(dim.max, direction)
           pressed == dimmer_adjust(dim, delta)
<1>1. dim.max \in Nat /\ Wanted(dim) \in Int /\ dimmer_max(dim) = dim.max
  BY DEF DimmerType, Wanted, dimmer_max
<1>2. delta \in Int
  BY <1>1, DeltaIsAStep, StepAssumption DEF delta_of
<1>3. OffRails(pressed)
  BY <1>1
<1> HIDE DEF delta
<1>4. pressed.max = dim.max /\ Wanted(pressed) = clamp_brightness(Wanted(dim) + delta, dim.max)
  BY <1>2, AdjustEffect
<1>5. Wanted(pressed) = Wanted(dim) + delta
  BY <1>1, <1>2, <1>3, <1>4 DEF OffRails, clamp_brightness
<1>6. Wanted(pressed) - Wanted(dim) = delta
  BY <1>1, <1>2, <1>5
<1> QED
  BY <1>1, <1>6 DEF delta

\* Where two dimmers stay, after a step.
OffsetKept(a, b) ==
    /\ displays[a].dim.max = displays[b].dim.max
    /\ OffRails(displays'[a].dim)
    /\ OffRails(displays'[b].dim)
    /\ ~ SetFailed
    => Wanted(displays'[a].dim) - Wanted(displays'[b].dim)
         = Wanted(displays[a].dim) - Wanted(displays[b].dim)

LEMMA OffsetAfterAdjust ==
    ASSUME IInv, NEW direction \in {-1, 1}, controller_adjust(direction),
           NEW a \in DOMAIN displays, NEW b \in DOMAIN displays
    PROVE  OffsetKept(a, b)
<1> SUFFICES ASSUME displays[a].dim.max = displays[b].dim.max,
                    OffRails(displays'[a].dim), OffRails(displays'[b].dim)
             PROVE  Wanted(displays'[a].dim) - Wanted(displays'[b].dim)
                      = Wanted(displays[a].dim) - Wanted(displays[b].dim)
  BY DEF OffsetKept
<1>1. ASSUME NEW id \in {a, b}
      PROVE  /\ Wanted(displays'[id].dim) - Wanted(displays[id].dim)
                  = delta_of(displays[id].dim.max, direction)
             /\ Wanted(displays[id].dim) \in Int /\ Wanted(displays'[id].dim) \in Int
  <2>1. displays[id].dim \in DimmerType
    BY DEF IInv, TypeOK, Entry
  <2>2. displays'[id].dim = dimmer_adjust(displays[id].dim,
                                          delta_of(dimmer_max(displays[id].dim), direction))
    BY DEF controller_adjust, IInv, TypeOK, Entry
  <2>3. OffRails(displays'[id].dim)
    OBVIOUS
  <2>4. Wanted(displays[id].dim) \in Int
    BY <2>1 DEF Wanted, DimmerType
  <2>5. Wanted(displays'[id].dim) \in Int
    BY <2>3 DEF OffRails
  <2> QED
    BY <2>1, <2>2, <2>3, <2>4, <2>5, PressOffRails
<1> QED
  BY <1>1

LEMMA OffsetAfterSetDone ==
    ASSUME IInv, SetDone, NEW a \in DOMAIN displays, NEW b \in DOMAIN displays
    PROVE  OffsetKept(a, b)
<1>1. ASSUME NEW id \in {a, b} PROVE Wanted(displays'[id].dim) = Wanted(displays[id].dim)
  <2>1. writing.id \in DOMAIN displays /\ writing.target \in Nat
    BY InFlight DEF SetDone
  <2>2. CASE id = writing.id
    <3>1. displays[id].dim \in DimmerType
      BY DEF IInv, TypeOK, Entry
    <3>2. displays'[id].dim = dimmer_commit(displays[id].dim, writing.target)
      BY <2>1, <2>2 DEF SetDone, IInv, TypeOK, Entry
    <3> QED
      BY <2>1, <3>1, <3>2, CommitEffect
  <2>3. CASE id # writing.id
    BY <2>1, <2>3 DEF SetDone, IInv, TypeOK
  <2> QED
    BY <2>2, <2>3
<1> QED
  BY <1>1 DEF OffsetKept

\* "Offsets between displays are preserved": whatever the step -- presses in either
\* direction, writes that return while others press, another order of the displays,
\* a reconcile with failures -- two displays of one range stay as far apart as they
\* were, the rails and failed writes excepted.
THEOREM OffsetsArePreserved == Spec => OffsetsKept
<1>1. ASSUME IInv, [Next]_vars, NEW a \in DOMAIN displays \cap DOMAIN displays',
             NEW b \in DOMAIN displays \cap DOMAIN displays'
      PROVE  OffsetKept(a, b)
  <2>1. (displays' = displays) => OffsetKept(a, b)
    BY DEF OffsetKept
  <2>2. ASSUME NEW broken, NEW unread, ctrl = "null", controller_open(broken, unread)
        PROVE  OffsetKept(a, b)
    BY <1>1, <2>2 DEF IInv, BetweenCalls
  <2>3. ASSUME NEW direction \in {-1, 1}, controller_adjust(direction) PROVE OffsetKept(a, b)
    BY <1>1, <2>3, OffsetAfterAdjust
  <2>4. CASE ServiceCall
    BY <2>1, <2>4 DEF ServiceCall, set
  <2>5. ASSUME NEW id \in todo, SetStart(id) PROVE OffsetKept(a, b)
    BY <2>1, <2>5 DEF SetStart, set
  <2>6. CASE SetDone
    BY <1>1, <2>6, OffsetAfterSetDone
  <2>7. CASE SetFails
    BY <2>7 DEF SetFails, SetFailed, OffsetKept
  <2>8. CASE ServiceReturn
    BY <2>1, <2>8 DEF ServiceReturn, set
  <2>9. ASSUME NEW broken, NEW unread, controller_reconcile(broken, unread)
        PROVE  OffsetKept(a, b)
    <3>1. ASSUME NEW id \in DOMAIN displays \cap DOMAIN displays'
          PROVE  displays'[id].dim = displays[id].dim
      BY <2>9 DEF controller_reconcile
    <3> QED
      BY <1>1, <3>1 DEF OffsetKept
  <2>10. CASE controller_close
    BY <1>1, <2>10 DEF controller_close
  <2>11. CASE Hotplug
    BY <2>1, <2>11 DEF Hotplug, set
  <2>12. ASSUME NEW m, Osd(m) PROVE OffsetKept(a, b)
    BY <2>1, <2>12 DEF Osd, set
  <2>13. CASE UNCHANGED vars
    BY <2>1, <2>13 DEF vars
  <2> QED
    BY <1>1, <2>2, <2>3, <2>4, <2>5, <2>6, <2>7, <2>8, <2>9, <2>10, <2>11, <2>12, <2>13 DEF Next
<1> DEFINE Kept == \A a, b \in DOMAIN displays \cap DOMAIN displays' :
         /\ displays[a].dim.max = displays[b].dim.max
         /\ OffRails(displays'[a].dim)
         /\ OffRails(displays'[b].dim)
         /\ ~ SetFailed
         => Wanted(displays'[a].dim) - Wanted(displays'[b].dim)
              = Wanted(displays[a].dim) - Wanted(displays[b].dim)
<1>2. IInv /\ [Next]_vars => [Kept]_vars
  BY <1>1 DEF OffsetKept
<1> QED
  BY <1>2, Invariant, PTL DEF Spec, OffsetsKept
=============================================================================
