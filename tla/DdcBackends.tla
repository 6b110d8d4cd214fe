---------------------------- MODULE DdcBackends ----------------------------
(***************************************************************************)
(* The DDC provider (ddc/abstraction.c) over the backends that implement   *)
(* ddc/implementation.h: libddcutil on Linux, the I2C ioctls of NetBSD,    *)
(* physical monitors on Windows, m1ddc and ddcctl on macOS, and the mock   *)
(* of the tests.  One enumeration is many calls here, and cables may move  *)
(* between any two of them.                                                *)
(*                                                                         *)
(* The owner enumerates while it holds sources of earlier enumerations     *)
(* (controller_reconcile), so that a display may be open several times.    *)
(*                                                                         *)
(* Outside the program: which monitor is at which port, what it shows,     *)
(* whether a link answers, and whether the panel of the laptop speaks DDC. *)
(***************************************************************************)
EXTENDS Vcp

CONSTANTS
  Platforms,   \* of "linux", "netbsd", "windows", "m1ddc", "ddcctl" and "mock"
  Monitors,    \* external monitors and the panel
  BuiltIn,     \* the panel, as a set
  Scale,       \* Scale[m]: the maximum of monitor m
  Ports,       \* a set of numbers
  PanelPort,   \* the port of the panel
  Values,      \* the brightness values that are tried
  Half,        \* a field of m1ddc's reply holds numbers from -Half to Half - 1
  Garbage,     \* what m1ddc reads from a panel
  Rounds,      \* names for the enumerations of which sources are held at once
  None         \* no monitor, no handle

ASSUME PortsAssumption == Ports \subseteq Nat /\ PanelPort \in Ports
ASSUME MonitorsAssumption ==
    /\ BuiltIn \subseteq Monitors
    /\ None \notin Monitors
    /\ Scale \in [Monitors -> 0..((Byte * Byte) - 1)]
ASSUME ValuesAssumption == Values \subseteq 0..((Byte * Byte) - 1)
ASSUME HalfAssumption == Half \in 101..(128 * Byte)

\* A handle: its object in the operating system (which enumeration opened it, and
\* for which port), where it leads, and whether it is the default service of m1ddc
\* instead of the display's own.
ObjectType == [round : Rounds, port : Ports]
HandleType == [object : ObjectType, port : Ports, monitor : Monitors, fallback : BOOLEAN]
ASSUME NoneAssumption == None \notin HandleType

VARIABLES
  platform,    \* never changes
  answers,     \* whether the panel speaks DDC (no matter to m1ddc); never changes
  attached,    \* attached[p]: the monitor at port p, or None
  shown,       \* shown[m]: the brightness that m shows
  round,       \* the enumeration that is going on, or was the last
  list,        \* the refs of a list of displays still to be looked at
  opened,      \* the handle that is being probed, or None
  sources,     \* the handles of the sources found
  objects,     \* the file descriptors, services and physical monitors held
  call         \* the last get or set and what came of it

machine == <<platform, answers>>
outside == <<attached, shown>>
vars == <<machine, outside, round, list, opened, sources, objects, call>>

macOS == {"m1ddc", "ddcctl"}
NoCall == [what |-> "none"]

Arrangements ==
    {a \in [Ports -> Monitors \cup {None}] :
        \A p, q \in Ports :
            /\ a[p] = a[q] /\ a[p] # None => p = q
            /\ a[p] \in BuiltIn => p = PanelPort
            /\ p = PanelPort => a[p] \in BuiltIn \cup {None}}

Plugged(m) == \E p \in Ports : attached[p] = m

-----------------------------------------------------------------------------
(* Handles.                                                                *)

\* What holds a handle's object in the operating system: Linux and NetBSD have a
\* file descriptor, m1ddc a service, and a physical monitor of Windows exists as
\* soon as it is listed.
HasObject == platform \in {"linux", "netbsd", "windows", "m1ddc"}

\* The monitor that a handle's requests go to.  A bus stays at its port; physical
\* monitors and display ids follow the monitor; a service serves one connection.
Reached(h) ==
    CASE platform \in {"windows", "ddcctl"} -> IF Plugged(h.monitor) THEN h.monitor ELSE None
      [] platform = "m1ddc"                 -> IF attached[h.port] = h.monitor THEN h.monitor ELSE None
      [] OTHER                              -> attached[h.port]

Handle(ref, p, fallback) ==
    [object |-> [round |-> round, port |-> ref.port],
     port |-> p, monitor |-> attached[p], fallback |-> fallback]
Occupied == {p \in Ports : attached[p] # None}

\* ddc_arch_open of m1ddc: the service of the display, or, when that cannot be
\* resolved (as when the display is gone), the default one, which may be anybody's.
\* (A faulty one takes the default service at once.)
services_default(ref) == {Handle(ref, p, FALSE) : p \in Occupied}
Services(ref) ==
    {Handle(ref, p, FALSE) : p \in {q \in Ports : attached[q] = ref.monitor}}
    \cup {Handle(ref, p, TRUE) : p \in Occupied}

\* A faulty one opens the first bus, whichever display it is asked for, and does not
\* look what is there.
handles_first(ref) == {Handle(ref, p, FALSE) : p \in {q \in Ports : \A r \in Ports : q <= r}}

\* What opening a display may return.
Handles(ref) ==
    LET own == [object |-> [round |-> round, port |-> ref.port],
                port |-> ref.port, monitor |-> ref.monitor, fallback |-> FALSE]
    IN  CASE platform = "m1ddc"  -> Services(ref)
          [] platform = "ddcctl" -> IF Plugged(ref.monitor) THEN {own} ELSE {}
          [] OTHER               -> {own}

\* ddc_implementation_get_non_table_vcp_value, then ddc_src_get, for a number that
\* a monitor tells: ddcctl has the low byte of it, m1ddc a signed field.
Received(number) ==
    CASE platform = "ddcctl" -> Unpacked(LowByte(Packed(number)))
      [] platform = "m1ddc"  -> Signed(number, Half)
      [] OTHER               -> Unpacked(Packed(number))

\* What may come back on a link that works.
Readings(h) ==
    LET m == Reached(h)
        reply == [current |-> Received(shown[m]), max |-> Received(Scale[m])]
    IN  CASE m = None                               -> {}
          [] m # None /\ platform = "m1ddc"         ->
               {Sane(r) : r \in IF m \in BuiltIn THEN Garbage ELSE {reply}}
          [] m # None /\ platform # "m1ddc"         ->
               IF m \in BuiltIn /\ ~ answers THEN {} ELSE {reply}

\* darwin.c takes nothing above 100.
Accepted(value) == platform \in macOS => value <= 100

\* ddcctl writes one byte, and saturates.
Written(value) ==
    IF platform = "ddcctl" /\ value >= Byte THEN Byte - 1 ELSE value

-----------------------------------------------------------------------------
(* ddc_enumerate_sources.                                                  *)

Enumerating == list # {} \/ opened # None

\* Linux and NetBSD list what speaks DDC; Windows cannot tell the panel from the
\* others, and macOS says which one it is.
Listed(p) ==
    /\ attached[p] # None
    /\ attached[p] \in BuiltIn => answers \/ platform \in macOS \cup {"windows"}

ddc_implementation_get_display_info_list ==
    /\ ~ Enumerating
    /\ round' \in Rounds \ {h.object.round : h \in sources}
    /\ list' = {[port |-> p, monitor |-> attached[p]] : p \in {q \in Ports : Listed(q)}}
    /\ objects' = objects \cup (IF platform = "windows"
                               THEN {[round |-> round', port |-> ref.port] : ref \in list'}
                               ELSE {})
    /\ call' = NoCall
    /\ UNCHANGED <<machine, outside, opened, sources>>

NextRef(ref) ==
    /\ opened = None
    /\ ref \in list
    /\ \A other \in list : ref.port <= other.port
    /\ list' = list \ {ref}

BuiltInRef(ref) == platform \in macOS /\ ref.monitor \in BuiltIn

\* "OS owns the internal panel".
SkipBuiltIn(ref) ==
    /\ NextRef(ref)
    /\ BuiltInRef(ref)
    /\ UNCHANGED <<machine, outside, round, opened, sources, objects, call>>

ddc_implementation_open_display(ref) ==
    /\ NextRef(ref)
    /\ ~ BuiltInRef(ref)
    /\ opened' \in Handles(ref)
    /\ objects' = objects \cup (IF HasObject THEN {opened'.object} ELSE {})
    /\ UNCHANGED <<machine, outside, round, sources, call>>

\* There is no such failure on Windows and in the mock.
OpenFails(ref) ==
    /\ NextRef(ref)
    /\ ~ BuiltInRef(ref)
    /\ platform \notin {"windows", "mock"}
    /\ UNCHANGED <<machine, outside, round, opened, sources, objects, call>>

ProbeAnswers ==
    /\ opened # None
    /\ Readings(opened) # {}
    /\ sources' = sources \cup {opened}
    /\ opened' = None
    /\ UNCHANGED <<machine, outside, round, list, objects, call>>

\* A faulty enumeration forgets the handle of a display that does not answer ...
probe_forgets ==
    /\ opened # None
    /\ opened' = None
    /\ UNCHANGED <<machine, outside, round, list, sources, objects, call>>

\* ... another one keeps it as a source.
probe_ignored ==
    /\ opened # None
    /\ sources' = sources \cup {opened}
    /\ opened' = None
    /\ UNCHANGED <<machine, outside, round, list, objects, call>>

ProbeFails ==
    /\ opened # None
    /\ platform = "mock" => Readings(opened) = {}
    /\ opened' = None
    /\ objects' = objects \ {opened.object}
    /\ UNCHANGED <<machine, outside, round, list, sources, call>>

-----------------------------------------------------------------------------
(* The calls of a source.                                                  *)

Get(h) ==
    /\ h \in sources
    /\ ~ Enumerating
    /\ \E r \in Readings(h) : call' = [what |-> "get", via |-> h, reading |-> r]
    /\ UNCHANGED <<machine, outside, round, list, opened, sources, objects>>

\* ddc_src_set and ddc_implementation_set_non_table_vcp_value: a value that is
\* accepted is sent, and the link may fail.
Set(h, value) ==
    LET asked == Unpacked(Packed(value))
        answer(ok) ==
            [what |-> "set", via |-> h, value |-> value, sent |-> Accepted(asked), ok |-> ok]
    IN  /\ h \in sources
        /\ ~ Enumerating
        /\ \/ /\ call' = answer(FALSE)
              /\ UNCHANGED shown
           \/ /\ Accepted(asked)
              /\ Reached(h) # None
              /\ Reached(h) \in BuiltIn => answers /\ platform # "m1ddc"
              /\ call' = answer(TRUE)
              /\ shown' = [shown EXCEPT ![Reached(h)] = Written(asked)]
        /\ UNCHANGED <<machine, attached, round, list, opened, sources, objects>>

ddc_implementation_close_display(h) ==
    /\ h \in sources
    /\ ~ Enumerating
    /\ sources' = sources \ {h}
    /\ objects' = objects \ {h.object}
    /\ call' = NoCall
    /\ UNCHANGED <<machine, outside, round, list, opened>>

Hotplug ==
    /\ attached' \in Arrangements
    /\ call' = NoCall
    /\ UNCHANGED <<machine, shown, round, list, opened, sources, objects>>

-----------------------------------------------------------------------------

Init ==
    /\ platform \in Platforms
    /\ answers \in IF platform \in {"mock", "m1ddc"} THEN {FALSE} ELSE BOOLEAN
    /\ attached \in Arrangements
    /\ shown \in [Monitors -> Values]
    /\ round \in Rounds
    /\ list = {}
    /\ opened = None
    /\ sources = {}
    /\ objects = {}
    /\ call = NoCall

Next ==
    \/ ddc_implementation_get_display_info_list
    \/ \E ref \in list : SkipBuiltIn(ref)
    \/ \E ref \in list : ddc_implementation_open_display(ref)
    \/ \E ref \in list : OpenFails(ref)
    \/ ProbeAnswers
    \/ ProbeFails
    \/ \E h \in sources : Get(h)
    \/ \E h \in sources : \E value \in Values : Set(h, value)
    \/ \E h \in sources : ddc_implementation_close_display(h)
    \/ Hotplug

Spec == Init /\ [][Next]_vars

-----------------------------------------------------------------------------
(* Properties.                                                             *)

TypeOK ==
    /\ platform \in Platforms
    /\ answers \in BOOLEAN
    /\ attached \in Arrangements
    /\ shown \in [Monitors -> 0..((Byte * Byte) - 1)]
    /\ round \in Rounds
    /\ list \subseteq [port : Ports, monitor : Monitors]
    /\ opened \in HandleType \cup {None}
    /\ sources \subseteq HandleType
    /\ objects \subseteq ObjectType

\* Nothing is leaked and nothing is given back twice: whatever fails to open or to
\* answer, whatever is unplugged in the middle of it, and whatever is still held of
\* earlier enumerations, the objects held in the operating system are one for every
\* source, one for the display that is being probed, and on Windows one for every
\* display still to be looked at.
InUse == sources \cup (IF opened = None THEN {} ELSE {opened})
ObjectsAccounted ==
    /\ \A a, b \in InUse : a.object = b.object => a = b
    /\ objects = (IF HasObject THEN {h.object : h \in InUse} ELSE {})
                 \cup (IF platform = "windows"
                       THEN {[round |-> round, port |-> ref.port] : ref \in list}
                       ELSE {})

\* No press is felt twice: two sources of one enumeration never reach one monitor,
\* however cables are moved -- unless ddc_arch_open of m1ddc took the default service
\* for one of them.
OneSourcePerMonitor ==
    \A a, b \in sources :
        a.object.round = b.object.round /\ Reached(a) = Reached(b) /\ Reached(a) # None
            => a = b \/ a.fallback \/ b.fallback

\* "OS owns the internal panel" (ddc/abstraction.c).  The code does not keep to that
\* everywhere, and this is how far it does: on macOS a source reaches the panel only if
\* the default service was taken, and elsewhere only if the panel speaks DDC, by which
\* Linux lists it and with which it passes the probe on Windows.
PanelLeftAlone ==
    \A h \in sources :
        Reached(h) \in BuiltIn => h.fallback \/ (answers /\ platform \notin macOS)

\* A value goes through two bytes, one byte or a signed field, and comes out the same
\* if it fits in there: a get tells what the monitor shows and its maximum, 100
\* standing for a maximum of 0 on m1ddc; and a set that succeeded shows what was asked.
Fits(number) ==
    /\ platform = "ddcctl" => number < Byte
    /\ platform = "m1ddc"  => number < Half
VcpFaithful ==
    /\ call.what = "get" /\ (platform = "m1ddc" => Reached(call.via) \notin BuiltIn) =>
          LET m == Reached(call.via)
          IN  /\ Fits(shown[m]) => call.reading.current = shown[m]
              /\ Fits(Scale[m]) =>
                    call.reading.max = (IF platform = "m1ddc" /\ Scale[m] = 0 THEN 100 ELSE Scale[m])
    /\ call.what = "set" /\ call.ok => shown[Reached(call.via)] = call.value
=============================================================================
