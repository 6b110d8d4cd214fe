------------------------- MODULE DisplayController -------------------------
(***************************************************************************)
(* display_controller.c over the DDC provider (ddc/abstraction.c): the set *)
(* of displays under control, one dimmer each, and the three calls that    *)
(* change it -- controller_adjust, controller_service and                  *)
(* controller_reconcile.                                                   *)
(*                                                                         *)
(* The calls are stated without any mutual exclusion, which is the owner's *)
(* business; Next calls them one after another, the way the lock of        *)
(* dimmitd.c does.  A service pass is split at its slow writes, so that    *)
(* presses of other threads, hotplug and failures can fall between them.   *)
(*                                                                         *)
(* Outside the program: the order in which the platform lists the plugged  *)
(* displays, the brightness each one shows, and which requests fail.       *)
(***************************************************************************)
EXTENDS Dimmer, Sequences, FiniteSets

CONSTANTS
  Displays,    \* the physical displays
  BuiltIn,     \* those the platform reports as is_builtin
  Model,       \* Model[m]: the vendor and product id that display m reports
  DisplayMax,  \* DisplayMax[m]: the maximum that display m reports
  Slots,       \* names for the handles that may be open on one display at once
  MaxOpen,     \* the handles the process may hold open (its descriptors, say)
  StepDen,     \* a press is the fraction 1/StepDen of the range (16 in the code)
  DefaultMax,  \* the maximum assumed of a display that cannot be read (100)
  Faults       \* which requests may fail: "list", "probe", "get", "set"; "moved" if
               \* an open handle leads to a port (a bus of Linux or NetBSD) and not to
               \* its display; "osd" if a display's own buttons may change its brightness

ASSUME DisplaysAssumption ==
    /\ IsFiniteSet(Displays)
    /\ BuiltIn \subseteq Displays
    /\ DisplayMax \in [Displays -> Nat]
ASSUME StepAssumption == StepDen \in Nat \ {0} /\ DefaultMax \in Nat

VARIABLES
  plugged,     \* the displays as the platform lists them
  shown,       \* shown[m]: the brightness display m shows
  open,        \* the handles the process holds, as <<display, slot>>
  displays,    \* the controlled set: a function from id to [ctx, dim]
  ctrl,        \* "null", "open" or "freed": the controller object
  todo,        \* the ids a service pass has still to look at
  writing,     \* the write in flight, or NoWrite
  applied      \* how many displays this pass has written, or NoPass

bus == <<plugged, shown>>
set == <<open, displays, ctrl>>
pass == <<todo, writing, applied>>
vars == <<plugged, shown, open, displays, ctrl, todo, writing, applied>>

NoPass == -1
NoWrite == [id |-> <<>>, ctx |-> <<>>, target |-> -1]

Arrangements ==
    {s \in UNION {[1..n -> Displays] : n \in 0..Cardinality(Displays)} :
        \A i, j \in DOMAIN s : s[i] = s[j] => i = j}

ShownLevels ==
    {levels \in [Displays -> UNION {0..DisplayMax[m] : m \in Displays}] :
        \A m \in Displays : levels[m] <= DisplayMax[m]}

-----------------------------------------------------------------------------
(* The DDC provider: one source per external display that opens and reads. *)

\* "ddc:vendor:product:index", the index being the place in the platform's list.
\* A faulty one is the place in the list and nothing else.
id_of_index(i) == <<"any", i>>
id_of(i) == <<Model[plugged[i]], i>>

\* The slots still free on a display; opening takes one of them.
FreeSlots(m) == {s \in Slots : <<m, s>> \notin open}
NewHandle(m) == <<m, CHOOSE s \in Slots : s \in FreeSlots(m)>>

\* A faulty controllability rule: built-in panels are taken along.
controllable_with_builtin(m, broken) == m \notin broken /\ FreeSlots(m) # {}

controllable(m, broken) ==
    /\ m \notin BuiltIn
    /\ m \notin broken
    /\ FreeSlots(m) # {}

\* The sources found and opened, one after the other while there are handles left: a
\* function from id to handle.
ddc_enumerate_sources(broken) ==
    LET candidates == {i \in DOMAIN plugged : controllable(plugged[i], broken)}
        found == {i \in candidates :
                    Cardinality(open) + Cardinality({j \in candidates : j < i}) < MaxOpen}
    IN  [id \in {id_of(i) : i \in found} |-> NewHandle(plugged[id[2]])]

\* Any display may fail to open or to answer the first read.  A failure to list
\* the displays comes back as an empty set, as if all of them had failed.
Broken == (IF "probe" \in Faults THEN SUBSET Displays ELSE {{}})
            \cup (IF "list" \in Faults THEN {Displays} ELSE {})

\* Displays that answered the first read may still fail the second one.
Unread == IF "get" \in Faults THEN SUBSET Displays ELSE {{}}

ReadDimmer(m, unread) ==
    IF m \in unread THEN dimmer_init(0, DefaultMax)
                    ELSE dimmer_init(shown[m], DisplayMax[m])

-----------------------------------------------------------------------------
(* The calls.                                                              *)

HandlesOf(sources) == {sources[id] : id \in DOMAIN sources}

controller_open(broken, unread) ==
    LET sources == ddc_enumerate_sources(broken)
    IN  /\ ctrl' = "open"
        /\ displays' = [id \in DOMAIN sources |->
              [ctx |-> sources[id], dim |-> ReadDimmer(sources[id][1], unread)]]
        /\ open' = open \cup HandlesOf(sources)
        /\ UNCHANGED <<bus, pass>>

delta_of(max, direction) == dimmer_delta_for_fraction(max, direction, StepDen)

\* A faulty loop: stops before the last display.
adjust_all_but_last(direction) ==
    /\ displays' = [id \in DOMAIN displays |->
         IF \A other \in DOMAIN displays : other[2] <= id[2] THEN displays[id]
         ELSE [displays[id] EXCEPT !.dim = dimmer_adjust(@, delta_of(dimmer_max(@), direction))]]
    /\ UNCHANGED <<bus, open, ctrl, pass>>

controller_adjust(direction) ==
    /\ displays' = [id \in DOMAIN displays |->
         [displays[id] EXCEPT !.dim = dimmer_adjust(@, delta_of(dimmer_max(@), direction))]]
    /\ UNCHANGED <<bus, open, ctrl, pass>>

\* The displays that a request through a handle may reach: its own, or, when cables
\* were moved, another that is at its port by now.
Plugged(m) == \E i \in DOMAIN plugged : plugged[i] = m
Reached(ctx) ==
    {m \in Displays : Plugged(m) /\ (m = ctx[1] \/ ("moved" \in Faults /\ m \notin BuiltIn))}
Unreachable(ctx) == ~ Plugged(ctx[1]) \/ Faults \cap {"set", "moved"} # {}

\* controller_service enters its loop ...
ServiceCall ==
    /\ todo' = DOMAIN displays
    /\ applied' = 0
    /\ UNCHANGED <<bus, set, writing>>

\* ... which looks at the displays in their order and passes over those with
\* nothing due ...
NextDue(id) ==
    /\ id \in todo
    /\ dimmer_due(displays[id].dim)
    /\ \A other \in todo : dimmer_due(displays[other].dim) => id[2] <= other[2]

SetStart(id) ==
    /\ writing = NoWrite
    /\ NextDue(id)
    /\ writing' = [id |-> id, ctx |-> displays[id].ctx, target |-> dimmer_target(displays[id].dim)]
    /\ todo' = {other \in todo : other[2] > id[2]}
    /\ UNCHANGED <<bus, set, applied>>

\* ... a set that the display took is committed ...
SetDone ==
    /\ writing # NoWrite
    /\ \E m \in Reached(writing.ctx) : shown' = [shown EXCEPT ![m] = writing.target]
    /\ displays' = [displays EXCEPT ![writing.id].dim = dimmer_commit(@, writing.target)]
    /\ writing' = NoWrite
    /\ applied' = applied + 1
    /\ UNCHANGED <<plugged, open, ctrl, todo>>

\* ... one that failed drops that display's batch
\* (a faulty one ignores what ops->set returned ...
failure_commits ==
    /\ writing # NoWrite
    /\ displays' = [displays EXCEPT ![writing.id].dim = dimmer_commit(@, writing.target)]
    /\ writing' = NoWrite
    /\ UNCHANGED <<bus, open, ctrl, todo, applied>>

\* ... another leaves the loop) ...
failure_ends_pass ==
    /\ writing # NoWrite
    /\ displays' = [displays EXCEPT ![writing.id].dim = dimmer_settled(@)]
    /\ writing' = NoWrite
    /\ todo' = {}
    /\ UNCHANGED <<bus, open, ctrl, applied>>

SetFails ==
    /\ writing # NoWrite
    /\ displays' = [displays EXCEPT ![writing.id].dim = dimmer_settled(@)]
    /\ writing' = NoWrite
    /\ UNCHANGED <<bus, open, ctrl, todo, applied>>

\* ... and the pass ends when nothing that is left is due.
ServiceReturn ==
    /\ writing = NoWrite
    /\ \A id \in todo : ~ dimmer_due(displays[id].dim)
    /\ todo' = {}
    /\ applied' = NoPass
    /\ UNCHANGED <<bus, set, writing>>

\* The handles a reconcile closes: those of the displays that are gone.  A faulty
\* one also closes the second handle of those that stay -- the wrong one.
closed_with_fresh(fresh) ==
    {fresh[id] : id \in DOMAIN fresh \cap DOMAIN displays}
    \cup {displays[id].ctx : id \in DOMAIN displays \ DOMAIN fresh}
closed_by(fresh) == {displays[id].ctx : id \in DOMAIN displays \ DOMAIN fresh}

\* A faulty reconcile reads the displays that stay again, and forgets their presses.
reconcile_rereads(broken, unread) ==
    LET fresh == ddc_enumerate_sources(broken)
    IN  /\ displays' = [id \in DOMAIN fresh |->
              [ctx |-> fresh[id], dim |-> ReadDimmer(fresh[id][1], unread)]]
        /\ open' = (open \cup HandlesOf(fresh)) \ closed_by(fresh)
        /\ UNCHANGED <<bus, ctrl, pass>>

controller_reconcile(broken, unread) ==
    LET fresh == ddc_enumerate_sources(broken)
    IN  /\ displays' = [id \in DOMAIN fresh |->
              [ctx |-> fresh[id],
               dim |-> IF id \in DOMAIN displays THEN displays[id].dim
                       ELSE ReadDimmer(fresh[id][1], unread)]]
        /\ open' = (open \cup HandlesOf(fresh)) \ closed_by(fresh)
        /\ UNCHANGED <<bus, ctrl, pass>>

controller_close ==
    /\ open' = open \ {displays[id].ctx : id \in DOMAIN displays}
    /\ displays' = <<>>
    /\ ctrl' = "freed"
    /\ UNCHANGED <<bus, pass>>

-----------------------------------------------------------------------------
(* The outside world.                                                      *)

\* Displays come and go, and may be listed in another order afterwards.
Hotplug ==
    /\ plugged' \in Arrangements
    /\ UNCHANGED <<shown, set, pass>>

\* The buttons on a display.
Osd(m) ==
    /\ "osd" \in Faults
    /\ shown' \in {[shown EXCEPT ![m] = level] : level \in 0..DisplayMax[m]}
    /\ UNCHANGED <<plugged, set, pass>>

-----------------------------------------------------------------------------

Init ==
    /\ plugged \in Arrangements
    /\ shown \in ShownLevels
    /\ open = {}
    /\ displays = <<>>
    /\ ctrl = "null"
    /\ todo = {}
    /\ writing = NoWrite
    /\ applied = NoPass

\* No call is under way.
Idle == ctrl = "open" /\ applied = NoPass

Next ==
    \/ \E broken \in Broken, unread \in Unread :
          ctrl = "null" /\ controller_open(broken, unread)
    \/ \E direction \in {-1, 1} : Idle /\ controller_adjust(direction)
    \/ Idle /\ ServiceCall
    \/ \E id \in todo : SetStart(id)
    \/ SetDone
    \/ writing # NoWrite /\ Unreachable(writing.ctx) /\ SetFails
    \/ applied # NoPass /\ ServiceReturn
    \/ \E broken \in Broken, unread \in Unread : Idle /\ controller_reconcile(broken, unread)
    \/ Idle /\ controller_close
    \/ Hotplug
    \/ \E m \in Displays : Osd(m)

Spec == Init /\ [][Next]_vars

-----------------------------------------------------------------------------
(* Properties.                                                             *)

Ids == {<<Model[m], i>> : m \in Displays, i \in 1..Cardinality(Displays)}
Handles == Displays \X Slots
Entry == [ctx : Handles, dim : DimmerType]

TypeOK ==
    /\ plugged \in Arrangements
    /\ shown \in [Displays -> Nat]
    /\ open \subseteq Handles
    /\ DOMAIN displays \subseteq Ids
    /\ displays \in [DOMAIN displays -> Entry]
    /\ ctrl \in {"null", "open", "freed"}
    /\ todo \subseteq DOMAIN displays
    /\ writing = NoWrite \/ writing \in [id : Ids, ctx : Handles, target : Nat]
    /\ applied \in {NoPass} \cup Nat

\* Whatever is plugged, unplugged or failing between and during the calls: every
\* controlled display is reached through a handle that is open, no display is
\* driven through two handles, the built-in panel is left to the OS, and the
\* write in flight goes through the handle of the dimmer it will be committed to.
HandlesValid ==
    /\ \A id \in DOMAIN displays :
          /\ displays[id].ctx \in open
          /\ displays[id].ctx[1] \notin BuiltIn
    /\ \A a, b \in DOMAIN displays : displays[a].ctx[1] = displays[b].ctx[1] => a = b
    /\ writing # NoWrite =>
          writing.id \in DOMAIN displays /\ writing.ctx = displays[writing.id].ctx

\* No dimmer of the set ever aims off its own scale, also when it outlived the
\* display it was made for; and a set that returns is still the one that was due.
NoneRunsAway ==
    /\ \A id \in DOMAIN displays :
          Reachable(Wanted(displays[id].dim), displays[id].dim)
    /\ writing # NoWrite =>
          /\ writing.id \in DOMAIN displays
          /\ dimmer_due(displays[writing.id].dim)
          /\ writing.target = dimmer_target(displays[writing.id].dim)

\* Where the calls leave the set (not a claim of the code's, but what the proofs
\* start from): an id carries the model of the display it stands for, and nothing
\* is under way outside a service pass or without a controller.
BetweenCalls ==
    /\ \A id \in DOMAIN displays : id[1] = Model[displays[id].ctx[1]]
    /\ ctrl # "open" => displays = <<>> /\ applied = NoPass
    /\ applied = NoPass => todo = {} /\ writing = NoWrite

\* As long as displays report distinct models, answer the second read and are changed
\* neither by their own buttons nor through another one's handle, what a dimmer believes of its display is true --
\* its level and its maximum -- across failing writes, unplugging, replugging in
\* another order, and reconciliation by id.
LevelTracksHardware ==
    \A id \in DOMAIN displays :
        LET m == displays[id].ctx[1]
        IN  displays[id].dim.current = shown[m] /\ displays[id].dim.max = DisplayMax[m]

\* Under the same conditions no display is ever asked for more than its maximum.
SetsInRange == writing # NoWrite => writing.target <= DisplayMax[writing.ctx[1]]

\* This step is the return of a set that failed.
SetFailed == writing # NoWrite /\ writing' = NoWrite /\ applied' = applied

\* "Each by that fraction of its own max, so offsets between displays are
\* preserved": two displays of the same range keep their distance through
\* presses, writes and reconciliations, unless one of them is at a rail or drops
\* a batch that failed to be written.
OffRails(dim) == Wanted(dim) \in 1..(dim.max - 1)
OffsetsKept ==
    [][\A a, b \in DOMAIN displays \cap DOMAIN displays' :
         /\ displays[a].dim.max = displays[b].dim.max
         /\ OffRails(displays'[a].dim)
         /\ OffRails(displays'[b].dim)
         /\ ~ SetFailed
         => Wanted(displays'[a].dim) - Wanted(displays'[b].dim)
              = Wanted(displays[a].dim) - Wanted(displays[b].dim)]_vars

\* The controller is a bank of knobs: whatever fails, is replugged or reordered, a
\* press turns every knob one step of its own scale, a write that returns brings one
\* display where its knob points, one that fails puts that knob alone back, and a
\* reconcile keeps the knobs of the ids that stay.
Bank == [id \in DOMAIN displays |->
            [level |-> displays[id].dim.current,
             wanted |-> Wanted(displays[id].dim),
             top |-> displays[id].dim.max]]
Motor == IF writing = NoWrite THEN NoWrite
         ELSE [id |-> writing.id, target |-> writing.target]
B == INSTANCE KnobBank WITH AtRest <- NoWrite, bank <- Bank, moving <- Motor
IsBank == B!Spec

-----------------------------------------------------------------------------
(* What the comments and the design say and the code does not do.          *)

\* controller_reconcile: "fresh[i].ctx for a matched display is a *new* open; the
\* old matched ctx was closed above" -- so the process would hold no handle but
\* those of the set.
OldHandlesClosed == open = {displays[id].ctx : id \in DOMAIN displays}

\* display_controller.h: "new displays are opened and initialized from their own
\* current".
NewDisplaysStartFromTheirOwn ==
    [][\A id \in DOMAIN displays' \ DOMAIN displays :
         displays'[id].dim.current = shown[displays'[id].ctx[1]]]_vars
=============================================================================
