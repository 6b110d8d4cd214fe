------------------------- MODULE DdcBackendsProofs -------------------------
(***************************************************************************)
(* What becomes of a number on its way through bytes, for every number;    *)
(* and the safety of the DDC provider over its backends, for any monitors, *)
(* ports, scales, platforms and values, cables being moved at will and      *)
(* sources of earlier enumerations being held.                             *)
(***************************************************************************)
EXTENDS DdcBackends, TLAPS

Word == {number \in Nat : number < 65536}
Bytes == [hi : 0..255, lo : 0..255]

\* The two fields of a request are bytes, whatever the caller asks for
\* (ddc_src_set masks both).
THEOREM PackedFits == ASSUME NEW value \in Nat PROVE Packed(value) \in Bytes
  BY SMT DEF Packed, Bytes, Byte

\* A brightness or a maximum of at most 16 bits comes out of ddc_src_set and
\* ddc_src_get as it went in.
THEOREM RoundTrip == ASSUME NEW value \in Word PROVE Unpacked(Packed(value)) = value
<1>0. value \in Int /\ 0 <= value /\ value < 65536
  BY DEF Word
<1>1. (value \div 256) \in Int /\ 0 <= value \div 256 /\ value \div 256 <= 255
  BY <1>0, SMT
<1>2. (value \div 256) % 256 = value \div 256
  BY <1>1, SMT
<1>3. ((value \div 256) * 256) + (value % 256) = value
  BY <1>0, SMT
<1>4. Unpacked(Packed(value)) = (((value \div 256) % 256) * 256) + (value % 256)
  BY DEF Packed, Unpacked, Byte
<1> QED
  BY <1>2, <1>3, <1>4

\* Every reply is a number of 16 bits, and no two replies are the same number.
THEOREM RepliesDiffer ==
    ASSUME NEW a \in Bytes, NEW b \in Bytes
    PROVE  /\ Unpacked(a) \in Word
           /\ Unpacked(a) = Unpacked(b) => a = b
<1>1. PICK ah \in 0..255, al \in 0..255 : a = [hi |-> ah, lo |-> al]
  BY DEF Bytes
<1>2. PICK bh \in 0..255, bl \in 0..255 : b = [hi |-> bh, lo |-> bl]
  BY DEF Bytes
<1>3. Unpacked(a) = (ah * 256) + al /\ Unpacked(b) = (bh * 256) + bl
  BY <1>1, <1>2 DEF Unpacked, Byte
<1>4. (ah * 256) + al = (bh * 256) + bl => ah = bh /\ al = bl
  BY SMT
<1>5. (ah * 256) + al \in Int /\ 0 <= (ah * 256) + al /\ (ah * 256) + al < 65536
  BY SMT
<1>6. Unpacked(a) \in Word
  BY <1>3, <1>5 DEF Word
<1>7. Unpacked(a) = Unpacked(b) => a = b
  BY <1>1, <1>2, <1>3, <1>4, Zenon
<1> QED
  BY <1>6, <1>7

\* What m1ddc's backend hands on is a level and a maximum that the dimmer can
\* divide by.
THEOREM SaneIsUsable ==
    ASSUME NEW current \in Int, NEW max \in Int
    PROVE  LET reading == Sane([current |-> current, max |-> max])
           IN  reading.current \in Nat /\ reading.max \in Nat \ {0}
  BY DEF Sane

\* Two makers whose names are three letters never share a number, so that the names
\* of their displays differ (eisa_id_from_mfg; the number is a part of the name).
THEOREM MakersDiffer ==
    ASSUME NEW a \in [1..3 -> 1..26], NEW b \in [1..3 -> 1..26],
           eisa_id_from_mfg(a) = eisa_id_from_mfg(b)
    PROVE  a = b
<1>1. \A m \in [1..3 -> 1..26] : eisa_id_from_mfg(m) = (m[1] * 1024) + (m[2] * 32) + m[3]
  BY DEF eisa_id_from_mfg
<1>2. \A m \in [1..3 -> 1..26] : m[1] \in 1..26 /\ m[2] \in 1..26 /\ m[3] \in 1..26
  BY SMT
<1>3. PICK a1 \in 1..26, a2 \in 1..26, a3 \in 1..26,
           b1 \in 1..26, b2 \in 1..26, b3 \in 1..26 :
         /\ a1 = a[1] /\ a2 = a[2] /\ a3 = a[3]
         /\ b1 = b[1] /\ b2 = b[2] /\ b3 = b[3]
  BY <1>2, Zenon
<1>4. (a1 * 1024) + (a2 * 32) + a3 = (b1 * 1024) + (b2 * 32) + b3
  <2>1. PICK number : number = eisa_id_from_mfg(a) /\ number = eisa_id_from_mfg(b)
    BY Zenon
  <2>2. number = (a1 * 1024) + (a2 * 32) + a3
    BY <1>1, <1>3, <2>1
  <2>3. number = (b1 * 1024) + (b2 * 32) + b3
    BY <1>1, <1>3, <2>1
  <2> QED
    BY <2>2, <2>3
<1>5. a1 = b1 /\ a2 = b2 /\ a3 = b3
  BY <1>4, SMT
<1>6. ASSUME NEW i \in 1..3 PROVE a[i] = b[i]
  <2>1. i = 1 \/ i = 2 \/ i = 3
    BY SMT
  <2> QED
    BY <2>1, <1>3, <1>5, Zenon
<1>7. a = [i \in 1..3 |-> a[i]] /\ b = [i \in 1..3 |-> b[i]]
  BY Zenon
<1> QED
  BY <1>6, <1>7, Zenon

-----------------------------------------------------------------------------
(* The inductive invariant.                                                *)

\* The handles of one enumeration and the refs still to be looked at come from one
\* list, which names every port and every monitor once; only the default service may
\* lead elsewhere.
SameList(a, b) == a.object.round = b.object.round
ListApart ==
    /\ opened \notin sources
    /\ opened # None => opened.object.round = round
    /\ \A r, s \in list : r.port = s.port \/ r.monitor = s.monitor => r = s
    /\ \A r \in list, h \in InUse : h.object # [round |-> round, port |-> r.port]
    /\ \A r \in list, h \in InUse :
          ~ h.fallback /\ h.object.round = round => r.monitor # h.monitor
    /\ \A a, b \in InUse :
          ~ a.fallback /\ ~ b.fallback /\ SameList(a, b) /\ a.monitor = b.monitor => a = b

\* What keeps the panel out, per platform: its port is not listed, the display
\* that is marked as built in is skipped, or it does not answer the probe.
PanelApart ==
    /\ platform # "m1ddc" => \A h \in InUse : h.port = h.object.port /\ ~ h.fallback
    /\ platform \notin macOS \cup {"windows"} /\ ~ answers =>
          (\A r \in list : r.port # PanelPort) /\ (\A h \in InUse : h.port # PanelPort)
    /\ platform \in macOS => \A h \in InUse : ~ h.fallback => h.monitor \notin BuiltIn
    /\ platform = "windows" /\ ~ answers => \A h \in sources : h.monitor \notin BuiltIn

IInv ==
    /\ TypeOK
    /\ ObjectsAccounted
    /\ ListApart
    /\ PanelApart
    /\ VcpFaithful

-----------------------------------------------------------------------------
(* Where a handle leads, and what comes back.                              *)

LEMMA OnePlace ==
    ASSUME attached \in Arrangements
    PROVE  /\ \A p \in Ports : attached[p] \in Monitors \cup {None}
           /\ \A p, q \in Ports : attached[p] = attached[q] /\ attached[p] # None => p = q
           /\ \A p \in Ports : attached[p] \in BuiltIn => p = PanelPort
           /\ PanelPort \in Ports /\ attached[PanelPort] \in BuiltIn \cup {None}
  BY PortsAssumption DEF Arrangements

\* Physical monitors, display ids and services follow the monitor, if they lead
\* anywhere; a bus and the mock stay at the port.
LEMMA ReachedEffect ==
    ASSUME attached \in Arrangements, NEW h \in HandleType
    PROVE  /\ Reached(h) \in Monitors \cup {None}
           /\ platform \in {"windows", "ddcctl", "m1ddc"} => Reached(h) \in {h.monitor, None}
           /\ platform \notin {"windows", "ddcctl", "m1ddc"} => Reached(h) = attached[h.port]
<1>0. h.port \in Ports /\ h.monitor \in Monitors /\ attached[h.port] \in Monitors \cup {None}
  BY OnePlace DEF HandleType
<1>1. CASE platform \in {"windows", "ddcctl"}
  <2>1. Reached(h) = IF Plugged(h.monitor) THEN h.monitor ELSE None
    BY <1>1 DEF Reached
  <2> QED
    BY <1>0, <1>1, <2>1
<1>2. CASE platform = "m1ddc"
  <2>1. Reached(h) = IF attached[h.port] = h.monitor THEN h.monitor ELSE None
    BY <1>2 DEF Reached
  <2> QED
    BY <1>0, <1>2, <2>1
<1>3. CASE platform \notin {"windows", "ddcctl", "m1ddc"}
  <2>1. Reached(h) = attached[h.port]
    BY <1>3 DEF Reached
  <2> QED
    BY <1>0, <1>3, <2>1
<1> QED
  BY <1>1, <1>2, <1>3

\* Opening gives a handle on the display, unless it is the default service.
LEMMA HandlesEffect ==
    ASSUME attached \in Arrangements, round \in Rounds,
           NEW ref \in [port : Ports, monitor : Monitors], NEW h \in Handles(ref)
    PROVE  /\ h \in HandleType
           /\ h.object = [round |-> round, port |-> ref.port]
           /\ ~ h.fallback => h.monitor = ref.monitor
           /\ platform # "m1ddc" => h.port = ref.port /\ ~ h.fallback
<1> DEFINE object == [round |-> round, port |-> ref.port]
           own == [object |-> object, port |-> ref.port, monitor |-> ref.monitor, fallback |-> FALSE]
<1>0. object \in ObjectType
  BY DEF ObjectType
<1>1. CASE platform = "m1ddc"
  <2>1. h \in Services(ref)
    BY <1>1 DEF Handles
  <2>2. PICK p \in Ports, fallback \in BOOLEAN :
          /\ attached[p] # None
          /\ h = [object |-> object, port |-> p, monitor |-> attached[p], fallback |-> fallback]
          /\ ~ fallback => attached[p] = ref.monitor
    BY <2>1, MonitorsAssumption DEF Services, Handle, Occupied
  <2>3. attached[p] \in Monitors
    BY <2>2, OnePlace
  <2> HIDE DEF object
  <2>4. h \in HandleType
    BY <1>0, <2>2, <2>3 DEF HandleType
  <2>5. h.object = object /\ (~ h.fallback => h.monitor = ref.monitor)
    BY <2>2
  <2> QED
    BY <1>1, <2>4, <2>5 DEF object
<1>2. CASE platform # "m1ddc"
  <2>1. Handles(ref) \subseteq {own}
    BY <1>2 DEF Handles
  <2>2. h = own
    BY <2>1
  <2> HIDE DEF object
  <2>3. h \in HandleType
    BY <1>0, <2>2 DEF HandleType
  <2> QED
    BY <2>2, <2>3 DEF object
<1> QED
  BY <1>1, <1>2

LEMMA WordIsRange == Word = 0..((Byte * Byte) - 1)
<1>1. PICK b \in Nat, square \in Nat : b = Byte /\ square = b * b
  BY SMT DEF Byte
<1>2. ASSUME NEW number \in Nat PROVE number < 65536 <=> number < square
  BY <1>1 DEF Byte
<1>3. ASSUME NEW number PROVE number \in Word <=> number \in Nat /\ number < square
  BY <1>2 DEF Word
<1>4. ASSUME NEW number PROVE number \in Nat /\ number < square <=> number \in 0..(square - 1)
  OBVIOUS
<1> QED
  BY <1>1, <1>3, <1>4, Zenon

\* A number of 16 bits that is read through all bytes, and through one.
LEMMA ReadBack ==
    ASSUME NEW value \in 0..((Byte * Byte) - 1)
    PROVE  /\ Unpacked(Packed(value)) = value
           /\ Unpacked(LowByte(Packed(value))) = value % 256
<1>1. value \in Word
  BY DEF Byte, Word
<1>2. Unpacked(Packed(value)) = value
  BY <1>1, RoundTrip
<1>3. value % 256 \in Int
  BY <1>1 DEF Word
<1>4. Unpacked(LowByte(Packed(value))) = (0 * 256) + (value % 256)
  BY DEF Unpacked, LowByte, Packed, Byte
<1> QED
  BY <1>2, <1>3, <1>4

\* A number that fits into the positive half of a signed field comes out of it.
LEMMA SignedFits ==
    ASSUME NEW half \in Nat \ {0}, NEW number \in 0..(half - 1)
    PROVE  Signed(number, half) = number
<1>1. PICK size \in Nat \ {0} : size = 2 * half /\ number < size
  OBVIOUS
<1>2. number % size = number
  BY <1>1
<1> QED
  BY <1>1, <1>2 DEF Signed

\* A number that fits is received as it was told.
LEMMA ReceivedEffect ==
    ASSUME NEW number \in 0..((Byte * Byte) - 1), Fits(number)
    PROVE  Received(number) = number
<1>1. /\ number \in Nat
      /\ Unpacked(Packed(number)) = number
      /\ Unpacked(LowByte(Packed(number))) = number % 256
  <2>1. number \in Word
    BY WordIsRange
  <2> QED
    BY <2>1, ReadBack DEF Word
<1>2. CASE platform = "ddcctl"
  <2>1. number < 256
    BY <1>2 DEF Fits, Byte
  <2>2. number % 256 = number
    BY <1>1, <2>1
  <2> QED
    BY <1>1, <1>2, <2>2 DEF Received
<1>3. CASE platform = "m1ddc"
  <2>1. Half \in Nat \ {0}
    BY HalfAssumption DEF Byte
  <2>2. number \in 0..(Half - 1)
    BY <1>1, <1>3, <2>1 DEF Fits
  <2>3. Signed(number, Half) = number
    BY <2>1, <2>2, SignedFits
  <2> QED
    BY <1>3, <2>3 DEF Received
<1>4. CASE platform \notin {"ddcctl", "m1ddc"}
  BY <1>1, <1>4 DEF Received
<1> QED
  BY <1>2, <1>3, <1>4

\* What a link that works brings back: a panel that is mute answers only through
\* m1ddc, and what is told arrives if it fits, a maximum of 0 being replaced by m1ddc's
\* backend.
LEMMA ReadingsEffect ==
    ASSUME attached \in Arrangements, shown \in [Monitors -> 0..((Byte * Byte) - 1)],
           NEW h \in HandleType, NEW r \in Readings(h)
    PROVE  LET m == Reached(h)
           IN  /\ m \in Monitors
               /\ m \in BuiltIn => answers \/ platform = "m1ddc"
               /\ (platform = "m1ddc" => m \notin BuiltIn) =>
                    /\ Fits(shown[m]) => r.current = shown[m]
                    /\ Fits(Scale[m]) =>
                         r.max = (IF platform = "m1ddc" /\ Scale[m] = 0 THEN 100 ELSE Scale[m])
<1> DEFINE m == Reached(h)
           reply == [current |-> Received(shown[m]), max |-> Received(Scale[m])]
<1>1. m \in Monitors \cup {None}
  BY ReachedEffect
<1>2. m # None
  <2>1. m = None => Readings(h) = {}
    BY DEF Readings
  <2> QED
    BY <2>1
<1>3. m \in Monitors
  BY <1>1, <1>2
<1>4. m \in BuiltIn => answers \/ platform = "m1ddc"
  <2>1. m # None /\ m \in BuiltIn /\ platform # "m1ddc" /\ ~ answers => Readings(h) = {}
    BY DEF Readings
  <2> QED
    BY <1>2, <2>1
<1>5. shown[m] \in 0..((Byte * Byte) - 1) /\ Scale[m] \in 0..((Byte * Byte) - 1)
  BY <1>3, MonitorsAssumption
<1>6. /\ Fits(shown[m]) => Received(shown[m]) = shown[m]
      /\ Fits(Scale[m]) => Received(Scale[m]) = Scale[m]
  BY <1>5, ReceivedEffect
<1>7. ASSUME platform # "m1ddc"
      PROVE  /\ Fits(shown[m]) => r.current = shown[m]
             /\ Fits(Scale[m]) => r.max = Scale[m]
  <2>1. r = reply
    BY <1>2, <1>4, <1>7 DEF Readings
  <2> QED
    BY <1>6, <2>1
<1>8. ASSUME platform = "m1ddc", m \notin BuiltIn
      PROVE  /\ Fits(shown[m]) => r.current = shown[m]
             /\ Fits(Scale[m]) => r.max = (IF Scale[m] = 0 THEN 100 ELSE Scale[m])
  <2>1. r = Sane(reply)
    BY <1>2, <1>8 DEF Readings
  <2>2. PICK level \in Nat, top \in Nat : level = shown[m] /\ top = Scale[m]
    BY <1>5
  <2>3. /\ r.current = IF Received(shown[m]) < 0 THEN 0 ELSE Received(shown[m])
        /\ r.max = IF Received(Scale[m]) <= 0 THEN 100 ELSE Received(Scale[m])
    BY <2>1 DEF Sane
  <2> HIDE DEF m
  <2>4. Fits(level) => r.current = level
    BY <1>6, <2>2, <2>3
  <2>5. Fits(top) => r.max = IF top = 0 THEN 100 ELSE top
    BY <1>6, <2>2, <2>3
  <2> QED
    BY <2>2, <2>4, <2>5
<1> HIDE DEF m, reply
<1>9. (platform = "m1ddc" => m \notin BuiltIn) =>
        /\ Fits(shown[m]) => r.current = shown[m]
        /\ Fits(Scale[m]) =>
             r.max = (IF platform = "m1ddc" /\ Scale[m] = 0 THEN 100 ELSE Scale[m])
  BY <1>7, <1>8
<1> USE DEF m
<1> QED
  BY <1>3, <1>4, <1>9

-----------------------------------------------------------------------------
(* The steps.                                                              *)

LEMMA InitInv == Init => IInv
<1> SUFFICES ASSUME Init PROVE IInv
  OBVIOUS
<1> USE DEF Init
<1>1. InUse = {}
  BY DEF InUse
<1>2. TypeOK
  <2>1. shown \in [Monitors -> 0..((Byte * Byte) - 1)]
    BY ValuesAssumption, Zenon
  <2>2. answers \in BOOLEAN
    OBVIOUS
  <2> QED
    BY <2>1, <2>2 DEF TypeOK
<1>3. ObjectsAccounted
  BY <1>1 DEF ObjectsAccounted
<1>4. ListApart /\ PanelApart
  BY <1>1 DEF ListApart, PanelApart
<1>5. VcpFaithful
  BY DEF VcpFaithful, NoCall
<1> QED
  BY <1>2, <1>3, <1>4, <1>5 DEF IInv

\* What a call brought stays true as long as nothing is plugged, set or forgotten.
LEMMA CallStays ==
    ASSUME VcpFaithful, UNCHANGED <<platform, outside>>, call' \in {call, NoCall}
    PROVE  VcpFaithful'
<1>1. CASE call' = call
  <2>1. \A h : Reached(h)' = Reached(h)
    BY Zenon DEF Reached, Plugged, outside
  <2>2. \A number : Fits(number)' = Fits(number)
    BY DEF Fits
  <2> QED
    BY <1>1, <2>1, <2>2 DEF VcpFaithful, outside
<1>2. CASE call' = NoCall
  BY <1>2 DEF VcpFaithful, NoCall
<1> QED
  BY <1>1, <1>2

\* A new list: every port that it names holds another monitor, and no source held is
\* of its enumeration.
LEMMA ListInv == ASSUME IInv, ddc_implementation_get_display_info_list PROVE IInv'
<1> USE DEF IInv
<1>1. /\ ~ Enumerating
      /\ round' \in Rounds \ {h.object.round : h \in sources}
      /\ list' = {[port |-> p, monitor |-> attached[p]] : p \in {q \in Ports : Listed(q)}}
      /\ objects' = objects \cup (IF platform = "windows"
                                  THEN {[round |-> round', port |-> ref.port] : ref \in list'}
                                  ELSE {})
      /\ call' = NoCall
      /\ UNCHANGED <<platform, answers, attached, shown, opened, sources>>
  BY DEF ddc_implementation_get_display_info_list, machine, outside
<1>2. list = {} /\ opened = None /\ InUse = sources /\ InUse' = InUse
  BY <1>1 DEF Enumerating, InUse
<1>3. attached \in Arrangements
  BY DEF TypeOK
<1>4. ASSUME NEW r \in list'
      PROVE  /\ r \in [port : Ports, monitor : Monitors]
             /\ r.monitor = attached[r.port]
             /\ attached[r.port] # None
             /\ platform \notin macOS \cup {"windows"} /\ ~ answers => r.port # PanelPort
  <2>1. PICK p \in Ports : Listed(p) /\ r = [port |-> p, monitor |-> attached[p]]
    BY <1>1
  <2>2. attached[p] # None /\ attached[p] \in Monitors
    BY <1>3, <2>1, OnePlace DEF Listed
  <2>3. platform \notin macOS \cup {"windows"} /\ ~ answers => p # PanelPort
    BY <1>3, <2>1, <2>2, OnePlace DEF Listed
  <2> QED
    BY <2>1, <2>2, <2>3
<1>5. TypeOK'
  <2>1. ASSUME NEW r \in list' PROVE [round |-> round', port |-> r.port] \in ObjectType
    BY <1>1, <1>4 DEF ObjectType
  <2>2. objects' \subseteq ObjectType
    BY <1>1, <2>1 DEF TypeOK
  <2>3. list' \subseteq [port : Ports, monitor : Monitors]
    BY <1>4
  <2> QED
    BY <1>1, <2>2, <2>3 DEF TypeOK
<1>6. ObjectsAccounted'
  BY <1>1, <1>2 DEF ObjectsAccounted, HasObject
<1>7. \A h \in InUse : h.object.round # round'
  BY <1>1, <1>2
<1>8. ListApart'
  <2>1. \A r, s \in list' : r.port = s.port \/ r.monitor = s.monitor => r = s
    BY <1>3, <1>4, OnePlace
  <2>2. ASSUME NEW r \in list', NEW h \in InUse
        PROVE  h.object # [round |-> round', port |-> r.port] /\ h.object.round # round'
    <3>1. [round |-> round', port |-> r.port].round = round'
      OBVIOUS
    <3> QED
      BY <1>7, <3>1
  <2> QED
    BY <1>1, <1>2, <2>1, <2>2 DEF ListApart, SameList
<1>9. PanelApart'
  BY <1>1, <1>2, <1>4 DEF PanelApart, macOS
<1>10. VcpFaithful'
  BY <1>1, CallStays DEF outside
<1> QED
  BY <1>5, <1>6, <1>8, <1>9, <1>10

\* Looking at a ref takes it off the list, whatever comes of it.
LEMMA LookInv ==
    ASSUME IInv, NEW ref \in list, NextRef(ref),
           BuiltInRef(ref) \/ platform \notin {"windows", "mock"},
           UNCHANGED <<machine, outside, round, opened, sources, objects, call>>
    PROVE  IInv'
<1> USE DEF IInv
<1>1. /\ list' = list \ {ref}
      /\ UNCHANGED <<platform, answers, attached, shown, round, opened, sources, objects, call>>
      /\ InUse' = InUse
      /\ platform # "windows"
  BY DEF NextRef, machine, outside, InUse, BuiltInRef, macOS
<1>2. TypeOK'
  BY <1>1 DEF TypeOK
<1>3. ObjectsAccounted'
  BY <1>1 DEF ObjectsAccounted, HasObject
<1>4. ListApart' /\ PanelApart'
  <2>1. ListApart'
    BY <1>1 DEF ListApart, SameList
  <2>2. PanelApart'
    BY <1>1 DEF PanelApart, macOS
  <2> QED
    BY <2>1, <2>2
<1>5. VcpFaithful'
  BY <1>1, CallStays DEF outside
<1> QED
  BY <1>2, <1>3, <1>4, <1>5

\* An opened display moves from the list to the handles, its object with it.
LEMMA OpenInv ==
    ASSUME IInv, NEW ref \in list, ddc_implementation_open_display(ref)
    PROVE  IInv'
<1> USE DEF IInv
<1> DEFINE h == opened'
           object == [round |-> round, port |-> ref.port]
<1>1. /\ opened = None
      /\ list' = list \ {ref}
      /\ ~ BuiltInRef(ref)
      /\ h \in Handles(ref)
      /\ objects' = objects \cup (IF HasObject THEN {h.object} ELSE {})
      /\ UNCHANGED <<platform, answers, attached, shown, round, sources, call>>
  BY DEF ddc_implementation_open_display, NextRef, machine, outside
<1>2. ref \in [port : Ports, monitor : Monitors] /\ attached \in Arrangements /\ round \in Rounds
  BY DEF TypeOK
<1>3. /\ h \in HandleType
      /\ h.object = object
      /\ ~ h.fallback => h.monitor = ref.monitor
      /\ platform # "m1ddc" => h.port = ref.port /\ ~ h.fallback
  BY <1>1, <1>2, HandlesEffect
<1>4. h # None /\ h.object \in ObjectType
  BY <1>3, NoneAssumption DEF HandleType
<1>5. object.round = round /\ object.port = ref.port
  OBVIOUS
<1> HIDE DEF h
<1>6. InUse = sources /\ InUse' = sources \cup {h}
  BY <1>1, <1>4 DEF InUse, h
<1>7. TypeOK'
  BY <1>1, <1>2, <1>3, <1>4 DEF TypeOK, h
<1>8. \A a \in InUse : a.object # object
  BY DEF ListApart
<1>9. ObjectsAccounted'
  <2> HIDE DEF object
  <2>1. \A a, b \in InUse' : a.object = b.object => a = b
    BY <1>3, <1>6, <1>8 DEF ObjectsAccounted
  <2>2. {a.object : a \in InUse'} = {a.object : a \in InUse} \cup {object}
    BY <1>3, <1>6
  <2>3. {[round |-> round, port |-> r.port] : r \in list} =
        {[round |-> round, port |-> r.port] : r \in list'} \cup {object}
    BY <1>1 DEF object
  <2>4. HasObject' = HasObject /\ (platform = "windows" => HasObject)
    BY <1>1 DEF HasObject
  <2> DEFINE held == {a.object : a \in InUse}
             waiting == {[round |-> round, port |-> r.port] : r \in list}
  <2>5. objects = (IF HasObject THEN held ELSE {}) \cup (IF platform = "windows" THEN waiting ELSE {})
    BY DEF ObjectsAccounted
  <2>6. held' = held \cup {object} /\ waiting = waiting' \cup {object}
    BY <1>1, <2>2, <2>3
  <2> HIDE DEF held, waiting
  <2>7. objects' = (IF HasObject THEN held' ELSE {}) \cup (IF platform = "windows" THEN waiting' ELSE {})
    BY <1>1, <1>3, <2>4, <2>5, <2>6
  <2> USE DEF held, waiting
  <2>8. objects' = ((IF HasObject THEN held ELSE {}) \cup (IF platform = "windows" THEN waiting ELSE {}))'
    BY <1>1, <2>4, <2>7
  <2> QED
    BY <2>1, <2>8 DEF ObjectsAccounted
<1>10. ListApart'
  <2> HIDE DEF object
  <2>1. h \notin sources
    BY <1>3, <1>6, <1>8
  <2>2. \A r, s \in list' : r.port = s.port \/ r.monitor = s.monitor => r = s
    BY <1>1 DEF ListApart
  <2>3. ASSUME NEW r \in list', NEW a \in InUse'
        PROVE  /\ a.object # [round |-> round, port |-> r.port]
               /\ ~ a.fallback /\ a.object.round = round => r.monitor # a.monitor
    <3>1. CASE a \in InUse
      BY <1>1, <3>1 DEF ListApart
    <3>2. CASE a = h
      <4>1. r \in list /\ r # ref
        BY <1>1
      <4>2. r.port # ref.port /\ r.monitor # ref.monitor
        BY <4>1 DEF ListApart
      <4>3. [round |-> round, port |-> r.port].port = r.port
        OBVIOUS
      <4> QED
        BY <1>3, <1>5, <3>2, <4>2, <4>3
    <3> QED
      BY <1>6, <3>1, <3>2
  <2>4. ASSUME NEW a \in InUse', NEW b \in InUse',
               ~ a.fallback, ~ b.fallback, SameList(a, b), a.monitor = b.monitor
        PROVE  a = b
    <3>1. \A c \in InUse : ~ c.fallback /\ c.object.round = round => c.monitor # ref.monitor
      BY DEF ListApart
    <3>2. h.object.round = round
      BY <1>3, <1>5
    <3>3. a \in InUse \/ a = h
      BY <1>6
    <3>4. b \in InUse \/ b = h
      BY <1>6
    <3> QED
      BY <1>3, <2>4, <3>1, <3>2, <3>3, <3>4 DEF ListApart, SameList
  <2>5. opened'.object.round = round
    BY <1>3, <1>5 DEF h
  <2>6. opened' \notin sources'
    BY <1>1, <2>1 DEF h
  <2>7. round' = round
    BY <1>1
  <2> QED
    BY <2>2, <2>3, <2>4, <2>5, <2>6, <2>7 DEF ListApart, SameList
<1>11. PanelApart'
  BY <1>1, <1>3, <1>5, <1>6 DEF PanelApart, macOS, BuiltInRef
<1>12. VcpFaithful'
  BY <1>1, CallStays DEF outside
<1> QED
  BY <1>7, <1>9, <1>10, <1>11, <1>12

\* A display that answers on Windows is not a mute panel.
LEMMA AnswersInv == ASSUME IInv, ProbeAnswers PROVE IInv'
<1> USE DEF IInv
<1>1. /\ opened # None
      /\ sources' = sources \cup {opened}
      /\ opened' = None
      /\ UNCHANGED <<platform, answers, attached, shown, round, list, objects, call>>
  BY DEF ProbeAnswers, machine, outside
<1>2. opened \in HandleType /\ attached \in Arrangements
  BY <1>1 DEF TypeOK
<1>3. InUse' = InUse /\ opened \in InUse
  BY <1>1 DEF InUse
<1>4. TypeOK'
  BY <1>1, <1>2 DEF TypeOK
<1>5. ObjectsAccounted'
  BY <1>1, <1>3 DEF ObjectsAccounted, HasObject
<1>6. platform = "windows" /\ ~ answers => opened.monitor \notin BuiltIn
  <2>1. PICK r : r \in Readings(opened)
    BY DEF ProbeAnswers
  <2>2. /\ Reached(opened) \in Monitors
        /\ Reached(opened) \in BuiltIn => answers \/ platform = "m1ddc"
    BY <1>2, <2>1, ReadingsEffect DEF TypeOK
  <2>3. platform = "windows" => Reached(opened) \in {opened.monitor, None}
    BY <1>2, ReachedEffect
  <2> QED
    BY <2>2, <2>3, MonitorsAssumption
<1>7. ListApart' /\ PanelApart'
  <2>1. opened' \notin sources'
    BY <1>1, <1>2, NoneAssumption DEF TypeOK
  <2>2. ListApart'
    BY <1>1, <1>3, <2>1 DEF ListApart, SameList
  <2>3. PanelApart'
    BY <1>1, <1>3, <1>6 DEF PanelApart, macOS
  <2> QED
    BY <2>2, <2>3
<1>8. VcpFaithful'
  BY <1>1, CallStays DEF outside
<1> QED
  BY <1>4, <1>5, <1>7, <1>8

\* A handle that is given up takes its own object along and no other's.
LEMMA GiveUpInv ==
    ASSUME IInv, NEW h \in InUse,
           \A a \in InUse' : a \in InUse \ {h},
           \A a \in InUse \ {h} : a \in InUse',
           h.object.round = round \/ list = {},
           opened' \in {opened, None}, sources' \subseteq sources,
           objects' = objects \ {h.object}, call' \in {call, NoCall},
           UNCHANGED <<machine, outside, round, list>>
    PROVE  IInv'
<1> USE DEF IInv
<1>1. InUse' = InUse \ {h} /\ UNCHANGED <<platform, answers, attached, shown, round, list>>
  BY Zenon DEF machine, outside
<1>2. TypeOK'
  BY <1>1 DEF TypeOK
<1>3. ObjectsAccounted'
  <2>1. {a.object : a \in InUse'} = {a.object : a \in InUse} \ {h.object}
    BY <1>1 DEF ObjectsAccounted
  <2>2. h.object \notin {[round |-> round, port |-> r.port] : r \in list}
    BY DEF ListApart
  <2>3. HasObject' = HasObject
    BY <1>1 DEF HasObject
  <2>4. \A a, b \in InUse' : a.object = b.object => a = b
    BY <1>1 DEF ObjectsAccounted
  <2> QED
    BY <1>1, <2>1, <2>2, <2>3, <2>4 DEF ObjectsAccounted
<1>4. ListApart'
  <2>1. opened' \notin sources'
    BY NoneAssumption DEF TypeOK, ListApart
  <2> QED
    BY <1>1, <2>1 DEF ListApart, SameList
<1>5. PanelApart'
  BY <1>1 DEF PanelApart, macOS
<1>6. VcpFaithful'
  BY <1>1, CallStays DEF outside
<1> QED
  BY <1>2, <1>3, <1>4, <1>5, <1>6

\* A get brings what is shown, as far as it fits.
LEMMA GetInv == ASSUME IInv, NEW h \in sources, Get(h) PROVE IInv'
<1> USE DEF IInv
<1>1. UNCHANGED <<platform, answers, attached, shown, round, list, opened, sources, objects>>
  BY DEF Get, machine, outside
<1>2. PICK r \in Readings(h) : call' = [what |-> "get", via |-> h, reading |-> r]
  BY DEF Get
<1>3. h \in HandleType /\ attached \in Arrangements /\ InUse' = InUse
  BY <1>1 DEF TypeOK, InUse
<1>4. TypeOK' /\ ObjectsAccounted' /\ ListApart' /\ PanelApart'
  <2>1. TypeOK'
    BY <1>1 DEF TypeOK
  <2>2. ObjectsAccounted'
    BY <1>1, <1>3 DEF ObjectsAccounted, HasObject
  <2>3. ListApart'
    BY <1>1, <1>3 DEF ListApart, SameList
  <2>4. PanelApart'
    BY <1>1, <1>3 DEF PanelApart, macOS
  <2> QED
    BY <2>1, <2>2, <2>3, <2>4
<1>5. Reached(h)' = Reached(h)
  BY <1>1, Zenon DEF Reached, Plugged
<1>6. \A number : Fits(number)' = Fits(number)
  BY <1>1 DEF Fits
<1> DEFINE m == Reached(h)
<1>7. (platform = "m1ddc" => m \notin BuiltIn) =>
        /\ Fits(shown[m]) => r.current = shown[m]
        /\ Fits(Scale[m]) =>
             r.max = (IF platform = "m1ddc" /\ Scale[m] = 0 THEN 100 ELSE Scale[m])
  BY <1>3, ReadingsEffect DEF TypeOK
<1> HIDE DEF m
<1>8. VcpFaithful'
  BY <1>1, <1>2, <1>5, <1>6, <1>7 DEF VcpFaithful, m
<1> QED
  BY <1>4, <1>8

\* A value that the backend takes is written as it is.
LEMMA WrittenEffect ==
    ASSUME NEW value \in Values, Accepted(Unpacked(Packed(value)))
    PROVE  /\ value \in 0..((Byte * Byte) - 1)
           /\ Written(Unpacked(Packed(value))) = value
<1>1. value \in 0..((Byte * Byte) - 1)
  BY ValuesAssumption
<1>2. value \in Nat /\ Unpacked(Packed(value)) = value
  <2>1. value \in Word
    BY <1>1, WordIsRange
  <2> QED
    BY <2>1, RoundTrip DEF Word
<1>3. platform = "ddcctl" => value <= 100
  BY <1>2 DEF Accepted, macOS
<1>4. Written(value) = value
  BY <1>2, <1>3 DEF Written, Byte
<1> QED
  BY <1>1, <1>2, <1>4

\* A set shows what was asked, or nothing changes.
LEMMA SetInv ==
    ASSUME IInv, NEW h \in sources, NEW value \in Values, Set(h, value)
    PROVE  IInv'
<1> USE DEF IInv
<1> DEFINE m == Reached(h)
           asked == Unpacked(Packed(value))
<1>1. /\ UNCHANGED <<platform, answers, attached, round, list, opened, sources, objects>>
      /\ call'.what = "set" /\ call'.via = h /\ call'.value = value
      /\ \/ /\ ~ call'.ok
            /\ UNCHANGED shown
         \/ /\ Accepted(asked)
            /\ m # None
            /\ shown' = [shown EXCEPT ![m] = Written(asked)]
  BY DEF Set, machine
<1>2. h \in HandleType /\ InUse' = InUse /\ m' = m /\ m \in Monitors \cup {None}
  <2>1. h \in HandleType /\ InUse' = InUse /\ m' = m
    BY <1>1, Zenon DEF TypeOK, InUse, Reached, Plugged
  <2> QED
    BY <2>1, ReachedEffect DEF TypeOK
<1>3. Accepted(asked) => value \in 0..((Byte * Byte) - 1) /\ Written(asked) = value
  BY WrittenEffect
<1> HIDE DEF m, asked
<1>4. \/ ~ call'.ok /\ shown' = shown
      \/ /\ value \in 0..((Byte * Byte) - 1)
         /\ m \in Monitors
         /\ shown' = [shown EXCEPT ![m] = value]
  BY <1>1, <1>2, <1>3
<1>5. TypeOK'
  <2>1. shown' \in [Monitors -> 0..((Byte * Byte) - 1)]
    BY <1>4, Zenon DEF TypeOK
  <2> QED
    BY <1>1, <2>1 DEF TypeOK
<1>6. ObjectsAccounted'
  BY <1>1, <1>2 DEF ObjectsAccounted, HasObject
<1>7. ListApart' /\ PanelApart'
  <2>1. ListApart'
    BY <1>1, <1>2 DEF ListApart, SameList
  <2>2. PanelApart'
    BY <1>1, <1>2 DEF PanelApart, macOS
  <2> QED
    BY <2>1, <2>2
<1>8. VcpFaithful'
  <2>1. call'.ok => shown'[m] = value
    BY <1>4 DEF TypeOK
  <2>2. Reached(h)' = m
    BY <1>2 DEF m
  <2> QED
    BY <1>1, <2>1, <2>2 DEF VcpFaithful
<1> QED
  BY <1>5, <1>6, <1>7, <1>8

LEMMA HotplugInv == ASSUME IInv, Hotplug PROVE IInv'
<1> USE DEF IInv
<1>1. /\ attached' \in Arrangements
      /\ call' = NoCall
      /\ UNCHANGED <<platform, answers, shown, round, list, opened, sources, objects>>
  BY DEF Hotplug, machine
<1>2. InUse' = InUse
  BY <1>1 DEF InUse
<1>3. TypeOK'
  BY <1>1 DEF TypeOK, Arrangements
<1>4. ObjectsAccounted'
  BY <1>1, <1>2 DEF ObjectsAccounted, HasObject
<1>5. ListApart'
  BY <1>1, <1>2 DEF ListApart, SameList
<1>6. PanelApart'
  BY <1>1, <1>2 DEF PanelApart, macOS
<1>7. VcpFaithful'
  BY <1>1 DEF VcpFaithful, NoCall
<1> QED
  BY <1>3, <1>4, <1>5, <1>6, <1>7

LEMMA StepInv == IInv /\ [Next]_vars => IInv'
<1> SUFFICES ASSUME IInv, [Next]_vars PROVE IInv'
  OBVIOUS
<1>1. CASE ddc_implementation_get_display_info_list
  BY <1>1, ListInv
<1>2. ASSUME NEW ref \in list, SkipBuiltIn(ref) PROVE IInv'
  BY <1>2, LookInv DEF SkipBuiltIn
<1>3. ASSUME NEW ref \in list, ddc_implementation_open_display(ref) PROVE IInv'
  BY <1>3, OpenInv
<1>4. ASSUME NEW ref \in list, OpenFails(ref) PROVE IInv'
  BY <1>4, LookInv DEF OpenFails
<1>5. CASE ProbeAnswers
  BY <1>5, AnswersInv
<1>6. CASE ProbeFails
  <2>1. opened # None /\ opened' = None /\ sources' = sources /\ objects' = objects \ {opened.object}
    BY <1>6 DEF ProbeFails
  <2>2. opened \in InUse
    BY <2>1 DEF InUse
  <2>3. InUse' = InUse \ {opened} /\ opened.object.round = round
    BY <2>1 DEF InUse, IInv, ListApart
  <2> QED
    BY <1>6, <2>1, <2>2, <2>3, GiveUpInv DEF ProbeFails
<1>7. ASSUME NEW h \in sources, Get(h) PROVE IInv'
  BY <1>7, GetInv
<1>8. ASSUME NEW h \in sources, NEW value \in Values, Set(h, value) PROVE IInv'
  BY <1>8, SetInv
<1>9. ASSUME NEW h \in sources, ddc_implementation_close_display(h) PROVE IInv'
  <2>1. /\ opened = None /\ opened' = None
        /\ sources' = sources \ {h}
        /\ objects' = objects \ {h.object}
        /\ list = {}
    BY <1>9 DEF ddc_implementation_close_display, Enumerating
  <2>2. h \in InUse /\ InUse' = InUse \ {h}
    BY <2>1 DEF InUse
  <2> QED
    BY <1>9, <2>1, <2>2, GiveUpInv DEF ddc_implementation_close_display
<1>10. CASE Hotplug
  BY <1>10, HotplugInv
<1>11. CASE UNCHANGED vars
  <2>1. /\ UNCHANGED <<platform, answers, attached, shown, round, list, opened, sources, objects, call>>
        /\ InUse' = InUse
    BY <1>11, Zenon DEF vars, machine, outside, InUse
  <2>2. TypeOK' /\ ObjectsAccounted'
    BY <2>1 DEF IInv, TypeOK, ObjectsAccounted, HasObject, Arrangements
  <2>3. ListApart' /\ PanelApart'
    BY <2>1 DEF IInv, ListApart, SameList, PanelApart, macOS
  <2>4. VcpFaithful'
    BY <2>1, CallStays DEF IInv, outside
  <2> QED
    BY <2>2, <2>3, <2>4 DEF IInv
<1> QED
  BY <1>1, <1>2, <1>3, <1>4, <1>5, <1>6, <1>7, <1>8, <1>9, <1>10, <1>11 DEF Next

LEMMA Invariant == Spec => []IInv
  BY InitInv, StepInv, PTL DEF Spec

-----------------------------------------------------------------------------
(* The theorems.                                                           *)

\* The variables keep their types, among them what the monitors show: no set leaves
\* the 16 bits.
THEOREM TypeCorrect == Spec => []TypeOK
<1>1. IInv => TypeOK
  BY DEF IInv
<1> QED
  BY <1>1, Invariant, PTL

\* Whatever fails in an enumeration, and whenever cables are moved, one object of the
\* operating system is held for every source, for the display that is probed and, on
\* Windows, for every display still to be looked at -- and no more.
THEOREM NothingLeaks == Spec => []ObjectsAccounted
<1>1. IInv => ObjectsAccounted
  BY DEF IInv
<1> QED
  BY <1>1, Invariant, PTL

\* Two sources of one enumeration never reach one monitor, the default service of
\* m1ddc apart: buses lead from different ports, and everything else follows different
\* monitors.
THEOREM NoPressIsFeltTwice == Spec => []OneSourcePerMonitor
<1>1. ASSUME IInv, NEW a \in sources, NEW b \in sources, a.object.round = b.object.round,
             Reached(a) = Reached(b), Reached(a) # None, ~ a.fallback, ~ b.fallback
      PROVE  a = b
  <2>1. /\ a \in HandleType /\ b \in HandleType /\ a \in InUse /\ b \in InUse
        /\ attached \in Arrangements
    BY <1>1 DEF IInv, TypeOK, InUse
  <2>2. CASE platform \in {"windows", "ddcctl", "m1ddc"}
    <3>1. Reached(a) = a.monitor /\ Reached(b) = b.monitor
      BY <1>1, <2>1, <2>2, ReachedEffect
    <3> QED
      BY <1>1, <2>1, <3>1 DEF IInv, ListApart, SameList
  <2>3. CASE platform \notin {"windows", "ddcctl", "m1ddc"}
    <3>1. Reached(a) = attached[a.port] /\ Reached(b) = attached[b.port]
      BY <2>1, <2>3, ReachedEffect
    <3>2. a.port = b.port
      BY <1>1, <2>1, <3>1, OnePlace DEF HandleType
    <3>3. a.object.port = b.object.port
      <4>1. PanelApart /\ platform # "m1ddc"
        BY <1>1, <2>3 DEF IInv
      <4>2. a.port = a.object.port /\ b.port = b.object.port
        BY <2>1, <4>1 DEF PanelApart
      <4> QED
        BY <3>2, <4>2
    <3>4. a.object \in ObjectType /\ b.object \in ObjectType
      BY <2>1 DEF HandleType
    <3>5. a.object = b.object
      BY <1>1, <3>3, <3>4 DEF ObjectType
    <3> QED
      BY <1>1, <2>1, <3>5 DEF IInv, ObjectsAccounted
  <2> QED
    BY <2>2, <2>3
<1>2. IInv => OneSourcePerMonitor
  BY <1>1 DEF OneSourcePerMonitor
<1> QED
  BY <1>2, Invariant, PTL

\* A source reaches the panel only through the default service of m1ddc or, off macOS,
\* if the panel itself speaks DDC: on Linux and NetBSD a mute one is not listed, on
\* Windows it fails the probe, and on macOS it is skipped whatever it does.
THEOREM MutePanelIsLeftAlone == Spec => []PanelLeftAlone
<1>1. ASSUME IInv, NEW h \in sources, Reached(h) \in BuiltIn, ~ h.fallback
      PROVE  answers /\ platform \notin macOS
  <2>1. h \in HandleType /\ h \in InUse /\ attached \in Arrangements /\ Reached(h) # None
    BY <1>1, MonitorsAssumption DEF IInv, TypeOK, InUse
  <2>2. CASE platform \in {"windows", "ddcctl", "m1ddc"}
    <3>1. Reached(h) = h.monitor
      BY <2>1, <2>2, ReachedEffect
    <3> QED
      BY <1>1, <2>1, <2>2, <3>1 DEF IInv, PanelApart, macOS
  <2>3. CASE platform \notin {"windows", "ddcctl", "m1ddc"}
    <3>1. Reached(h) = attached[h.port] /\ h.port \in Ports
      BY <2>1, <2>3, ReachedEffect DEF HandleType
    <3>2. h.port = PanelPort
      BY <1>1, <2>1, <3>1, OnePlace
    <3> QED
      BY <1>1, <2>1, <2>3, <3>2 DEF IInv, PanelApart, macOS
  <2> QED
    BY <2>2, <2>3
<1>2. IInv => PanelLeftAlone
  BY <1>1 DEF PanelLeftAlone
<1> QED
  BY <1>2, Invariant, PTL

\* What the last get told is what the monitor shows and its maximum, so far as the
\* number fits into the backend's field (a byte of ddcctl, the positive half of m1ddc's
\* signed field, 16 bits elsewhere); and what the last set that succeeded asked for is
\* what the monitor shows, fit or not.
THEOREM WhatFitsIsShown == Spec => []VcpFaithful
<1>1. IInv => VcpFaithful
  BY DEF IInv
<1> QED
  BY <1>1, Invariant, PTL
=============================================================================
