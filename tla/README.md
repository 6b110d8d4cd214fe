# dimmit, specified

TLA+ specifications of [dimmit](../src/README.md), the daemon that dims external
displays over DDC, with configurations for TLC and proofs for TLAPS. Paths are
relative to the repository (`src/dimmer.c` is the C file next to the tests).

## The system

| Part | State | Operations | Talks to |
|---|---|---|---|
| dimmer, `src/dimmer.c` | `current`, `max`, `pending_delta` | init, adjust, due, commit, settled, delta_for_fraction | called by the controller; no I/O |
| controller, `src/display_controller.c` | the set: an id, a handle and a dimmer per display | open, adjust, service, reconcile, close | the provider; "thread-agnostic", its owner locks |
| provider, `src/platform/ddc/abstraction.c` | none | enumerate (open, probe, name), get, set, close | a DDC backend |
| DDC backends, `src/platform/ddc/*.c` | handles | list, free, open, close, get and set VCP | libddcutil, dxva2, i2c ioctl, IOAVService, ddcctl |
| daemon, `src/dimmitd.c` | `running`, the mutex, the condition variable, `ctrl`, the socket | startup, accept loop, worker, cleanup | everything |
| input backends, `src/platform/input/*.c` | a thread and its loop | start, stop, callback | calls `adjust_fraction` of the daemon |
| clients, `src/dimmit.c`, and `src/command.c` | none | connect, two sends; read, parse | the daemon's socket |
| access control, `src/platform/access-control/*.c` | none | before_bind, after_bind, is_authorized | the daemon, the group database |
| services, `service/service_*` | none | start, restart, stop | the daemon's exit status and its socket's path |
| logging, compat | -- | -- | -- |

Three threads meet in the daemon. *Main* accepts clients one at a time and, when a
second passes without one, reconciles the set of displays. The *worker* writes
what is due, holding the lock during the slow writes, and waits on the condition
variable for at most 250 ms. The *input thread* (macOS, Windows) turns brightness
keys into presses. A *signal* clears `running`.

What is hard: a press that lands during a write; a set of displays that changes
under the dimmers it holds; requests that fail half way through a loop; wakeups
and the unlocked signal of cleanup; starting and stopping three threads in every
order of failures; cables that move between two calls of one enumeration; a client
and a daemon that each stop listening when they please; what a run leaves behind for
the next one. `PROJECT.json` lists these as hazards, each at its line.

What makes each part correct:

- dimmer: presses are never lost or applied twice, the target never leaves
  `0..max`, a press is the nearest whole step and never nothing;
- controller: every entry has an open handle of its own, dimmers follow their
  displays by id, beliefs are true when displays are well-behaved, one display's
  failure is its own, offsets between displays are kept -- in short, it is a bank of
  knobs;
- provider and backends: every object of the operating system is accounted for, two
  sources never drive one monitor, the panel is left to the system, a value comes
  out as it went in;
- daemon: calls to the controller do not overlap, no wakeup is lost, presses are
  served, shutdown ends and leaves nothing behind, on every path;
- clients and access control: a press is done once at most, and not for strangers;
- runs: a daemon is reached by its clients whatever its predecessors left, and comes
  back if its service's policy says so.

## The modules

| Module | Models |
|---|---|
| `Dimmer` | the functions of `dimmer.c` as operators: a dimmer in, a dimmer out |
| `Knob` | abstract: where the knob points, where the motor goes; no deltas |
| `DimmerProtocol` | one dimmer whose owner presses and writes in any order; implements `Knob` |
| `KnobBank` | abstract: a knob per display, all turned together, one motor, exchanges; no handles, passes or deltas |
| `DisplayController` | `display_controller.c` over `ddc/abstraction.c`, and the displays outside; implements `KnobBank` |
| `InputThread` | the key thread of `input/windows.c` and `input/darwin.c`, and the calls of its owner |
| `Daemon` | `dimmitd.c`: main, worker, lock; composes `DisplayController` (`C`) and `InputThread` (`I`) and implements both |
| `Vcp` | the two bytes, the one byte or the signed field of a VCP value, the replies brought into range, the maker's code |
| `DdcBackends` | enumerations call by call, each while the sources of others are held, and get, set and close, on all six backends |
| `AccessControl` | the three hooks as operators, on every system |
| `Conversation` | clients, socket, `read_command` and the accept loop, piece by piece |
| `Lifecycle` | runs of the daemon on one socket path, with failures, signals, kills and a service manager |
| `DimmerLemmas` | facts about the operators of `Dimmer`, proved once |
| `DimmerProofs`, `DisplayControllerProofs`, `KnobBankProofs`, `DaemonProofs`, `DdcBackendsProofs`, `LifecycleProofs`, `ConversationProofs` | the theorems |
| `MC...` | instances for TLC |

Each of the modules that model code also holds, next to the definition it
distorts, one or more *faulty* variants of the sort a slip in the C would
produce (named in lower case, commented "a faulty ..."). Nothing refers to them;
`PROJECT.json` substitutes them one at a time to see that a property notices.

### Dimmer, DimmerProtocol, Knob

`dimmer_due` returns two things and is two operators, `dimmer_due` and
`dimmer_target`. A fraction is the exact rational `sign/den`; `max/16` is exact in
a double, and `lround` is `RoundedShare`, with ties away from zero. The ints
cannot overflow: they come from 16-bit VCP fields.

`DimmerProtocol` allows presses while a write is in flight, which `dimmer.h` allows
and comments on. In today's daemon the lock is held during the write, so that only
`Daemon` says which of these interleavings happen; the dimmer is correct for all.

### DisplayController, KnobBank

The set is one function from id to `[ctx, dim]`; the parallel arrays of the code
have the same order, the place in the platform's list, which is the second
component of the id (`"ddc:%04x:%04x:%d"`). So the id of a display that did not
move changes when another one leaves the list before it, and its pending presses go
with the old id: this is how the program is built, and the properties are about what
holds nevertheless. A handle is a display and a slot. `Slots` is what may be open on
one display, and `MaxOpen` what the process may hold for all of them together (on
NetBSD its file descriptors): an enumeration opens one display after the other, while
there is room, so that what one display leaks another one lacks. `service` is
split at its writes (`ServiceCall`, `SetStart`, `SetDone` or `SetFails`,
`ServiceReturn`); `todo` holds the displays the loop has not reached. Open, adjust,
reconcile and close are one step each: nothing else runs on the set while the
owner holds its lock, and the environment's changes during an enumeration amount to
a choice of which displays fail (the calls of an enumeration are `DdcBackends`').

Environment: `plugged` is the platform's list (`Hotplug` replaces it), `shown` what
each display shows (`Osd` changes it), `Faults` which requests may fail. A failed
set is taken to leave the display as it was. A display that is unplugged fails its
sets, and may be listed again with its handles still counted against it. A failing
list is indistinguishable from one on which no display opens, and is modelled as
that. Two monitors of one model, and all monitors on Windows and NetBSD (where the
backends report 0:0), have equal `Model`.

A handle of Linux and NetBSD is a bus, and the bus is a port: when cables are moved, an open
handle leads to another display than the one it was opened for (so does the default service of
`m1ddc`). With `"moved"` among the faults a write reaches any display that is plugged in
(`Reached`), and the dimmer commits it all the same. The properties about dimmers hold
then too; `LevelTracksHardware`, which compares them with the hardware, excepts it, and the next
idle tick puts it right only as far as the identity keys tell displays apart.

`KnobBank` is what `display_controller.h` promises. A step of a knob is *defined*
there, as the whole number from 1 up that is closest to its share of the scale, and
where a turn ends is the point of the scale closest to where it was asked to go; the
controller's deltas, rounding and clamping have to come out at the same point. The
refinement maps a dimmer to `[level |-> current, wanted |-> current + pending_delta,
top |-> max]` and the write in flight to the motor.

### InputThread, Daemon

`InputThread` splits `input_start` and `input_stop` where the caller waits: on Windows
`input_start` waits for the event that the thread sets when its message loop is ready
or could not be, and joins a thread that failed; on macOS it does not wait, and
the thread has yet to publish its run loop and to run it, so that an early stop has no
effect. A key report with several usages is several keys.

`Daemon`'s variables are those of the controller and of the input thread, and the
program counters of main and worker. It is the owner that `InputThread` speaks of
(`InputCaller` says where main is in the owner's terms). Critical sections of one
call are single steps taken when the lock is
free; only the worker holds it across steps, so `lock` is `"free"` or `"worker"`.
With `"descriptors"` among the faults `accept` needs a descriptor too (`Room`): when the
leaked handles have used them up it fails, and main goes to cleanup.
`pthread_cond_signal` moves a worker that waits to the queue for the lock and is
lost on any other. `Timeout` also stands for spurious wakeups. `cleanup` is split
as in the code: clear the flag, stop and join the input thread, signal without the
lock, join the worker, release. The controller's calls are taken without the guards
that `DisplayController`'s own `Next` puts on them, so that `IsController` says that
the lock does what those guards do.

A client of `Daemon` is the command that it sends, in one piece; `"denied"` is one
that is not authorized, `"silent"` one that sends nothing and hangs up when it likes.
A client that neither sends nor hangs up keeps main in `recv`, which has no timeout:
no other client, no idle tick and no shutdown until it goes (or the signal interrupts
`recv`, which `SA_RESTART` systems and signals handled by another thread do not). The
liveness properties are therefore stated for clients that send.

### Vcp, DdcBackends

`DdcBackends` takes an enumeration apart: list, skip the built-in panel, open, probe,
close what does not answer, with `Hotplug` between any two calls. `controller_reconcile`
enumerates while it holds the sources of the last time, so that handles carry the
enumeration they come from (`round`), and a display may be open several times.
`objects` is what the process holds in the operating system -- a file descriptor, a
service, on Windows a physical monitor from the moment it is listed. `Reached` is what makes the backends
differ: a bus leads to whatever is at its port, a physical monitor or a display id
follows the monitor, an IOAVService serves one connection and goes dead with it.

The panel may speak DDC or not (`answers`). If it does, Linux lists it and Windows, which
cannot tell it from a monitor, keeps it after the probe; if it does not, the probe
keeps it out. macOS marks it, and skips it whatever it does -- but where `m1ddc` cannot
resolve the service of a display it takes the default one, which may be another
display's or the panel's (`fallback` says that this path was taken, not where it led to),
and a panel that is read through it yields `Garbage`, which `Sane` brings into range.
The comment at `ddc/abstraction.c:36` says that the OS owns the internal panel, without
exceptions; `PanelLeftAlone` says how far the code keeps to it, and names the two: a panel
that speaks DDC on Linux and Windows, and the default service of `m1ddc`.

A number travels in two bytes, in one byte (the reply of ddcctl), or in a field that
`convertI2CtoDDC` of `m1ddc` yields with a sign: the code tests for negative values, and
takes them for 0, or for a maximum of 100. How wide that field is cannot be seen in this
tree, so it is a constant (`Half`). `VcpFaithful` is about the numbers that fit. `m1ddc` tells
a monitor that reports a maximum of 0 that it has 100, and writes accordingly. macOS
refuses every set above 100 (`darwin.c:92`), although a source tells the monitor's own
maximum: what is asked of a longer scale beyond that is not sent, and the controller drops the batch.

### AccessControl, Conversation

A user is the group its process runs as, its primary group and its other groups in the
user database, and whether the database knows it. The
socket is closed to all but its owner until `after_bind` hands it to the group;
`is_authorized` turns the client away if it cannot read its credentials, and
asks the group database twice if the first list was too long. What the system answers is
chosen when a client is accepted (`lookup`), and `refused` remembers with which answer a
client was turned away, so that `MembersAreLetIn` can say that nobody else was.

A client's `Script` is the pieces that it sends; dimmit's own is the word and then a
newline. A piece is a sequence of words, newlines and NULs that fits the 15 bytes of the buffer.
The daemon reads once, from one piece up to all that has arrived, and
closes. Commands are compared as C strings, so that `up`, a NUL and anything at all
is `up`: `OnlyExactCommands` says what is obeyed, and that two commands in one piece are not. So the second send may meet a closed socket: the client dies of
`SIGPIPE` although its press was done (`KilledAfterItsPress`).

### Lifecycle

A run is reduced to how far main has come with the socket. Nobody looks at what `unlink`
returns: the directory (`/tmp`) is sticky, and a socket that a dead run of another user left
there stays (`MayUnlink`), so that bind fails now and at every later start. Bind also fails
when somebody else was quicker, and cleanup unlinks the path whoever's socket it leads to: two
daemons take the path from each other, and the properties are about those
that never ran side by side (`Alone`). A failure after the worker's creation exits with status
0, which systemd's `on-failure` takes for success and does not repair. With
`_POSIX_C_SOURCE` alone, `signal` is one-shot on Linux: a second `SIGTERM`
during a slow cleanup ends the daemon and leaves its socket. So does one that comes before
the handlers are set. Such a run is `"terminated"`, which systemd takes for a clean end too;
a crash or another signal is `"killed"`, and is restarted.

## What the runs show

| Run | Question | Instance |
|---|---|---|
| `dimmer` | does any interleaving of presses and writes lose, repeat or overshoot? does it implement the knob? | every maximum up to 9 and every reading up to one above it; step 1/4 |
| `controller` | can what is controlled be written to, and is it never the panel? is what the controller believes true of the hardware? does it implement the bank? | two displays of maxima 3 and 1 and a built-in panel, three handles for all, opens and sets that fail |
| `controller_faulty` | what survives when beliefs are false? | two monitors of one model, failing reads and sets, buttons, cables moved under open handles |
| `daemon` | does the lock keep the calls apart, and is no wakeup lost? | two displays that come and go, macOS keys, clients, a signal |
| `daemon_live` | are threads started and stopped in order, and does shutdown finish? | one display, Windows keys, every fault, descriptors that run out, buttons, refused clients |
| `daemon_fair` | is a press of one display served whatever the other does? | two displays of one model, three handles for both, writes that fail, clients |
| `ddc` | is an enumeration accounted for call by call, the panel left alone, and does a value come out as it went in? | six backends, monitors with maxima of 100, 400 and 0 that take each other's place beside a panel, two enumerations at once, values of 100 and 400, a signed field from -128 to 127 |
| `conversation` | is a press done once, only for those who may, and does it get through? | dimmit-up by a member whose process runs as another group, dimmit-down by a superuser of too many groups, and a nameless user who writes a NUL and more after a command |
| `lifecycle` | is a daemon reached and does it come back, after whatever happened before? | a service and a rival of either account, three faults, two runs by hand, every system and policy |

What the runs with a liveness property show hangs on bounds in one more way: a display that
starves another needs a second display, which `daemon_fair` has. Its mutant is a pass
that ends at the first write that fails: then the second display is never written.

The bounds. Presses in the code are 1/16 of the range; here they are all of a range of
one (`daemon`, `daemon_live`, `daemon_fair`), or 1/2, 1/3 or 1/4 of a larger one, so that both rails, the middle and batches of several
presses are a few steps away; what depends on the ratio itself is proved for all
ratios. Two displays are the fewest whose order, identity and offsets matter; a
reconcile relates two displays at a time. Two or three slots, and two to four handles for the
process, make handles run out within the run, for one display and for all. A queue of one or two clients suffices because main takes them one by
one and the queue does nothing else. Two ports let monitors take
each other's place at one of them, with the panel at the other; two rounds let one enumeration be held during
the next, as `controller_reconcile` does. What a third port would add, a second external
monitor beside the first, is in the theorems (`NoPressIsFeltTwice` and the rest are for any
ports), as are values beyond those two. The group list of `conversation` holds three (32 in the
code), and a user has four. `MaxFaults` and `MaxRuns` of `Lifecycle` are its only counters:
three faults suffice to kill, fail and signal in one behaviour, two runs to have a
rival before and beside the service. Everything else is finite once the ranges are.

`daemon` uses the symmetry of its two displays (`Swap`), which are alike in maximum and
differ only by name; their order in a list is state, and `IsController` is a safety
property, for which TLC's symmetry is sound as the action it checks is symmetric too.
`ddc` uses that of the names of
its enumerations, and checks invariants only. The runs with liveness use none.

`CHECK_DEADLOCK FALSE` stands where the system stops: when main has returned and the
clients are gone (`conversation`), and when every run has ended and the bounds are used
up (`lifecycle`).

Three more runs are expected to *fail*, each at something a comment or the design
says and the code does not do; `PROJECT.json` quotes them under "findings":

| Run | Behaviour |
|---|---|
| `handles_leak` | every idle tick leaks one handle per display that stays (`display_controller.c:82-91`); once no more can be opened, displays that are there drop out |
| `second_read_fails` | a display that answers only the probe starts from 0 of 100 |
| `input_stop_race` | on macOS a shutdown that is early enough never ends |

Where else the code and its documents disagree, the models follow the code and no run is
spent on it:

- a write that fails drops what was pending for its display (`display_controller.c:51`, as
  `dimmer.h:36-37` says); the design of many displays
  (`docs/superpowers/specs/2026-07-06-multi-display-and-internal-brightness-design.md:161-162` and
  `190-191`) says that the value stays pending for the next cycle. So
  `PressesAreServed` promises that a press is written *or given up*;
- a failure to list the displays drops the whole set (`ddc/abstraction.c:29` returns an empty
  one); the comment at `display_controller.c:60` says "keep current set on failure";
- once the leaked handles of `handles_leak` have used up the process's descriptors, a display that
  is plugged in is not opened, for good, and `accept` fails, which ends the daemon with status 0;
- the panel, the sets beyond 100 and the failed startups with status 0, as said above.

### Fairness

`Daemon` assumes only what the program can count on. Every thread that can run
runs (weak fairness of startup, shutdown, the worker, and the start of the key
thread): a `select` ends after a second, a timed wait after 250 ms, a display
answers or its request fails. Main's loop and the key callback want the mutex, which
the worker takes and lets go of again and again, so for them fairness is strong:
pthreads does not promise it, but the worker sleeps with the lock free for up to
250 ms after each pass that wrote nothing, and a pass that wrote something is
followed by one that has nothing to write, as no press gets in between. The key
thread's loop sees its stop although keys keep coming (strong fairness of
`InputEnds`): a posted quit message is taken before input. Nothing is assumed of
clients, keys, hotplug or signals: presses are served once they are pressed, and
shutdown completes once it is asked for.

`Conversation` assumes that main is scheduled and that a connected client goes on with its
script and hangs up, which is what `dimmit.c` does. `Lifecycle` assumes that processes
are scheduled and that the service manager does what its policy says; faults are not
fair, and come to an end with their bound, so that `ServiceComesBack` is about
the time after the last one.

## What is proved

For every set of displays, range, step, number of slots and handles, combination of faults and
input backend (the assumptions are the `ASSUME`s of the modules: finitely many
displays, maxima that are naturals, a positive step):

- `DimmerProofs`: `TypeCorrect`, `NeverRunsAway`, `NothingStranded`,
  `StepsAreNearest` and `ImplementsKnob`. `NoRunaway` is inductive only
  with its last conjunct: while a write is in flight the wanted value is on the
  scale even if presses have brought it back to where it started -- otherwise a
  commit could leave a display that reported a level above its maximum
  with a target off the scale. `PendingMeansDue` follows from it. The refinement
  maps `wanted` to `current + pending_delta`; that a clamp is the nearest point of
  the scale is `ClampOnScale` and `ClampIdentity`.
- `DisplayControllerProofs`: `TypeCorrect`, `HandlesStayValid`,
  `NoDimmerRunsAway`. The inductive invariant is
  `TypeOK /\ HandlesValid /\ NoneRunsAway /\ BetweenCalls`. The last part is what
  the first three need of the moments between calls: no write is in
  flight when the set is replaced, and an id carries the model of its display. The
  argument about `reconcile` is that the old handles it closes and the fresh
  handles it keeps are disjoint, since a fresh handle takes a slot that was free; that a built-in panel is not among them is
  `controllable`. `OffsetsArePreserved` is about steps: a dimmer whose
  target is off both rails after a press has moved by exactly its step (`PressOffRails`), the step
  depends on the maximum alone, a commit moves no target, and what `reconcile` keeps it keeps whole.
- `BeliefsAreTrue` and `SetsStayInRange` assume `Honest`: distinct models, second
  reads that are answered, displays whose buttons are not used and cables that stay
  in their ports while a handle is open.
  `LevelTracksHardware` is inductive together with the invariant: two displays with
  one id at different times are the same display, because ids carry the model.
- `KnobBankProofs`: `ImplementsKnobBank`. Nearly all of it is the arithmetic of one press
  (`DeltaIsAKnobStep`, `ClampIsNearest`, put together in `PressTurns`): the rounded share, or
  1 when it rounds to nothing, is the closest of all steps of the bank. That the
  write in flight still is what the knob pointed at comes from the controller's invariant.
- `DaemonProofs`: the inductive invariant is `Threads` (which threads exist at which
  place of main, who may hold the lock, when a write may be in flight, and what is gone when main has returned) and `Keys` (the input thread's, on either platform).
  From it every step of the daemon is a step of `DisplayController` or leaves
  the controller alone: `ImplementsController`, the statement that the lock is used
  correctly, and `OwnsTheKeyThread` for `InputThread`. The controller's own theorems
  carry over through the refinement: `HandlesStayValid`, `NoDimmerRunsAway`,
  `BeliefsAreTrue`, `SetsStayInRange`, `OffsetsArePreserved`, and `ImplementsKnobBank`, by which
  three threads around a lock are, as a whole, the abstract bank of knobs.
  `NoWakeupIsLost` needs one more invariant (`Passed`): what the loop of a pass that applied
  nothing has passed is not due, but for the display being written.
  `ControllerOutlives` and `NothingIsLeftBehind` read off `Threads`.
- `DdcBackendsProofs`, of the operators of `Vcp`: a 16-bit value survives its two bytes
  (`RoundTrip`), different replies are different readings (`RepliesDiffer`), and different makers have
  different codes (`MakersDiffer`). Of an enumeration, for any monitors, ports and values:
  `NothingLeaks`, `NoPressIsFeltTwice`, `MutePanelIsLeftAlone` and `WhatFitsIsShown`, the last
  for a signed field of any width. The invariants about sources are not inductive, since a source
  comes from an entry of a list that was made earlier, and cables move in between. What is added:
  `ListApart`, that the entries still to be looked at and the handles of one enumeration name every
  port and every monitor once, the default service apart; and `PanelApart`, what keeps the panel
  out on each system: a mute one is not listed or fails the probe, and on macOS it is marked as
  built in.
- `LifecycleProofs`: `AloneIsReached` and `CleansUpUnlessKilled`. The invariant adds to them
  that two runs that are alive know of each other (`Acquainted`) and that the path leads to
  a daemon that has bound it, to whose account the file belongs, and that has not cleaned up
  (`Owned`: so its own unlink succeeds): so whoever touches the
  path of a daemon that is alone is not alive.
- `ConversationProofs`: `PressesAreDoneOnce`, `OnlyCommandsPress`, `StrangersDoNotPress`,
  `MembersAreAuthorized` and `KilledHasItsPress`, for any clients, users, scripts and system. The invariant says that
  a client waits or is served once (`Queue`), that what has arrived from one that is
  connected is what its script begins with (`Pieces`), that main reads and presses for
  authorized clients only (`Pressed`), that whoever was turned away was for a reason (`Refusals`), and that a dimmit the daemon is through with has
  its press or is not going to get it (`Left`). What a read of one or two pieces joins to is
  `JoinedFold`, found by exhibiting the function that the recursion defines.

Every safety property of the passing runs is a theorem. Only model-checked are the liveness properties:
`PressesAreServed` and `ShutdownCompletes` of `Daemon`, `PressesGetThrough` of
`Conversation`, and `ServiceComesBack` of `Lifecycle`. They rest on fairness, that is on
`ENABLED`, which the prover cannot reason about. Nor is anything proved about what a
recursion yields for every input, which would need induction over data; where the proofs meet a
fold (`JoinedFold`), it is of pieces whose number is known.

Three things about the models came out of the proofs. An invariant that said that a get tells the
monitor's own maximum was false of `m1ddc` and a maximum of 0, which no instance had: the `ddc` run
has such a monitor now. A `CASE` whose guards overlapped left open what a panel behind ddcctl
answers, and TLC took the first: guards are disjoint now. And `BeliefsAreTrue` could not be
carried from the controller, where handles are displays, to a bus, where they are
ports: hence `"moved"`, and the assumption about it.

## What is not modelled

- Allocation failures (a failed `controller_open` is a failed startup), logging, the
  installers, and the vendored libraries, whose directories are empty.
- The wire format of DDC/CI. A link answers or does not; a reply whose checksum is
  wrong (which `netbsd.c` does not verify) is a reading like any other, and for every
  reading the dimmer stays on its scale.
- The decoding of HID reports and of the program's name: a key is up or down, a
  client is told which command to send.
- The clock. A timed wait ends, sooner or later; that it is measured with the wall clock,
  and lasts longer when that is set back, is not visible.
- The cut of a command at 15 bytes: a piece is taken to fit.
- That steady traffic keeps main from its idle ticks: a display plugged in meanwhile waits for
  a second without clients, which is how the loop is built.
- Presses that are pending at shutdown: the worker leaves its loop without
  writing them, and no property asks for more.
- The tests of the repository, which were read for what the program promises; their
  mock is one of the six backends.

## Plan

Done: every module above, in the order of the table; then the proofs about one dimmer,
the controller, the bank of knobs, the daemon, the runs, the conversation and the backends, and
what the daemon inherits from the controller. Left, in this order:

1. That the bank, seen at one display, is a `Knob` with the step of its own scale, so
   that `DimmerProtocol` and `DisplayController` are two implementations of one promise. It needs an instance
   per identity.
2. Properties of the abstract specifications themselves (a knob never points off its scale, at
   rest the bank shows what was asked for), from which those of the implementations follow.
3. The decoding of key reports, if a property beyond "each key is one press" is found worth stating.
