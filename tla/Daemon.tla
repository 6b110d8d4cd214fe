------------------------------- MODULE Daemon -------------------------------
(***************************************************************************)
(* dimmitd: the main thread (startup, accept loop, cleanup), the worker    *)
(* that writes to the displays, the thread that watches the brightness     *)
(* keys, the mutex and condition variable between them, and the signal     *)
(* that ends it all.  The display controller they share is module          *)
(* DisplayController; its calls are made here without the guards of its    *)
(* own Next, so that it is the lock that keeps them apart, or does not.    *)
(* The thread that watches the keys is module InputThread, and what it     *)
(* calls back is adjust_fraction.                                          *)
(*                                                                         *)
(* A critical section that makes one call is one step, taken when the lock *)
(* is free.  The worker holds the lock over many steps.                    *)
(***************************************************************************)
EXTENDS Integers, Sequences, FiniteSets

CONSTANTS
  Displays, BuiltIn, Model, DisplayMax, Slots, MaxOpen, StepDen, DefaultMax,
  Faults,      \* the faults of DisplayController, and "startup" and "accept"
               \* for calls of main that may fail; "descriptors" if the handles of
               \* the displays are file descriptors, as a connection is
  Commands,    \* what clients send: of "up", "down", "unknown"; "denied" is a
               \* client without authorization, "silent" one that sends nothing
  Backlog,     \* connections waiting to be accepted (ACCEPT_BACKLOG)
  InputKind    \* the input backend: "none", "darwin" or "windows"

ASSUME CommandsAssumption == Commands \subseteq {"up", "down", "unknown", "denied", "silent"}
ASSUME BacklogAssumption == Backlog \in Nat
ASSUME InputAssumption == InputKind \in {"none", "darwin", "windows"}
ASSUME DisplaysAssumption ==
    /\ IsFiniteSet(Displays)
    /\ BuiltIn \subseteq Displays
    /\ DisplayMax \in [Displays -> Nat]
ASSUME StepAssumption == StepDen \in Nat \ {0} /\ DefaultMax \in Nat

VARIABLES
  plugged, shown, open, displays, ctrl, todo, writing, applied,
  main,        \* where the main thread is
  worker,      \* where the worker is; "none" before it is created
  lock,        \* the thread that holds the mutex over several steps, or "free"
  input, started, ready, quit, press,   \* the input thread's
  running,     \* the flag the signal handler clears
  hand,        \* the command main has read
  inbox,       \* the connections that wait to be accepted
  path         \* the socket's place in the file system: "none", "stale", "ours"

C == INSTANCE DisplayController

\* Where main is, as the input thread's owner.
InputCaller ==
    CASE main \in {"access_control", "init_monitor", "create_worker", "input_start"} -> "before"
      [] main = "input_started" -> "starting"
      [] main \in {"bind", "while", "select", "reconcile", "read", "adjust",
                   "cleanup", "input_stop"} -> "running"
      [] main = "input_join" -> "stopping"
      [] OTHER -> "after"

I == INSTANCE InputThread WITH caller <- InputCaller

control == <<plugged, shown, open, displays, ctrl, todo, writing, applied>>
thread == <<input, started, ready, quit, press>>
rest == <<running, hand, inbox, path>>
vars == <<control, main, worker, lock, thread, rest>>

parse_command(command) ==
    CASE command = "up" -> 1 [] command = "down" -> -1 [] OTHER -> 0

\* pthread_cond_signal: a worker that waits has to get the lock back first; the
\* signal is lost on one that does not wait.
Woken == IF worker = "waiting" THEN "lock" ELSE worker

-----------------------------------------------------------------------------
(* adjust_fraction, called by main and by the input thread.                *)

\* A faulty one does not wake the worker.
adjust_quietly(direction) ==
    /\ lock = "free"
    /\ C!controller_adjust(direction)
    /\ UNCHANGED <<worker, lock>>

\* Another one does not take the lock.
adjust_unlocked(direction) ==
    /\ C!controller_adjust(direction)
    /\ worker' = Woken
    /\ UNCHANGED lock

adjust_fraction(direction) ==
    /\ lock = "free"
    /\ C!controller_adjust(direction)
    /\ worker' = Woken
    /\ UNCHANGED lock

-----------------------------------------------------------------------------
(* The main thread: startup.  access_control_before_bind and init_monitor  *)
(* return from main when they fail; later failures go to cleanup.          *)

Goto(from, to) == main = from /\ main' = to

AccessControl ==
    /\ Goto("access_control", "init_monitor")
    /\ UNCHANGED <<control, worker, lock, thread, rest>>

init_monitor ==
    /\ Goto("init_monitor", "create_worker")
    /\ \E broken \in C!Broken, unread \in C!Unread : C!controller_open(broken, unread)
    /\ UNCHANGED <<worker, lock, thread, rest>>

StartupReturns ==
    /\ "startup" \in Faults
    /\ main \in {"access_control", "init_monitor"}
    /\ main' = "exited"
    /\ UNCHANGED <<control, worker, lock, thread, rest>>

CreateWorker ==
    /\ Goto("create_worker", "input_start")
    /\ worker' = "lock"
    /\ UNCHANGED <<control, lock, thread, rest>>

\* Failing to watch the keys is not fatal.
InputStart ==
    /\ \/ Goto("input_start", "input_started") /\ I!input_start
       \/ Goto("input_started", "bind") /\ I!input_start_returns
    /\ UNCHANGED <<control, worker, lock, rest>>

\* unlink, socket, bind and listen.
Bind ==
    /\ Goto("bind", "while")
    /\ path' = "ours"
    /\ UNCHANGED <<control, worker, lock, thread, running, hand, inbox>>

StartupFails ==
    /\ "startup" \in Faults
    /\ main \in {"create_worker", "bind"}
    /\ main' = "cleanup"
    /\ path' \in {path} \cup (IF main = "bind" THEN {"none", "ours"} ELSE {})
    /\ UNCHANGED <<control, worker, lock, thread, running, hand, inbox>>

-----------------------------------------------------------------------------
(* The main thread: the accept loop.                                       *)

\* The loop condition; the last client is closed.
While ==
    /\ main = "while"
    /\ main' = IF running THEN "select" ELSE "cleanup"
    /\ hand' = "unknown"
    /\ UNCHANGED <<control, worker, lock, thread, running, inbox, path>>

\* select times out, or is interrupted by the signal.
IdleTick ==
    /\ Goto("select", "reconcile")
    /\ inbox = <<>> \/ ~ running
    /\ UNCHANGED <<control, worker, lock, thread, rest>>

\* A faulty idle tick gets in during a write, as if the worker released the lock
\* for it (which an earlier design did).
reconcile_during_write ==
    /\ lock = "free" \/ writing # C!NoWrite
    /\ Goto("reconcile", "while")
    /\ \E broken \in C!Broken, unread \in C!Unread : C!controller_reconcile(broken, unread)
    /\ UNCHANGED <<worker, lock, thread, rest>>

Reconcile ==
    /\ lock = "free"
    /\ Goto("reconcile", "while")
    /\ \E broken \in C!Broken, unread \in C!Unread : C!controller_reconcile(broken, unread)
    /\ UNCHANGED <<worker, lock, thread, rest>>

\* The process can open one more file.
Room == "descriptors" \in Faults => Cardinality(open) < MaxOpen

\* accept, then access_control_is_authorized.
Accept ==
    /\ main = "select"
    /\ inbox # <<>>
    /\ Room
    /\ inbox' = Tail(inbox)
    /\ IF Head(inbox) = "denied"
       THEN main' = "while" /\ UNCHANGED hand
       ELSE main' = "read" /\ hand' = Head(inbox)
    /\ UNCHANGED <<control, worker, lock, thread, running, path>>

\* accept fails: EINTR goes round the loop, everything else leaves it.
AcceptFails ==
    /\ main = "select"
    /\ inbox # <<>>
    /\ main' \in (IF running THEN {} ELSE {"while"})
                 \cup (IF "accept" \in Faults \/ ~ Room THEN {"cleanup"} ELSE {})
    /\ UNCHANGED <<control, worker, lock, thread, rest>>

\* read_command returns what the client sent; an unknown command is ignored.
ReadCommand ==
    /\ main = "read"
    /\ hand # "silent"
    /\ main' = IF parse_command(hand) # 0 THEN "adjust" ELSE "while"
    /\ UNCHANGED <<control, worker, lock, thread, rest>>

\* recv returns nothing: the client hangs up, or the signal interrupts it.
ReadNothing ==
    /\ Goto("read", "while")
    /\ hand = "silent" \/ ~ running
    /\ UNCHANGED <<control, worker, lock, thread, rest>>

Adjust ==
    /\ Goto("adjust", "while")
    /\ adjust_fraction(parse_command(hand))
    /\ UNCHANGED <<thread, rest>>

-----------------------------------------------------------------------------
(* The main thread: cleanup.                                               *)

Cleanup ==
    /\ Goto("cleanup", "input_stop")
    /\ running' = FALSE
    /\ UNCHANGED <<control, worker, lock, thread, hand, inbox, path>>

\* (A faulty cleanup does not wait for it once the worker has returned.)
input_left ==
    /\ \/ Goto("input_stop", "input_join") /\ I!input_stop
       \/ Goto("input_join", "worker_stop") /\ I!input_stop_returns
       \/ Goto("input_join", "worker_join") /\ worker = "done" /\ UNCHANGED thread
    /\ UNCHANGED <<control, worker, lock, rest>>

InputStop ==
    /\ \/ Goto("input_stop", "input_join") /\ I!input_stop
       \/ Goto("input_join", "worker_stop") /\ I!input_stop_returns
    /\ UNCHANGED <<control, worker, lock, rest>>

\* The worker is signalled without the lock ...
WorkerStop ==
    /\ Goto("worker_stop", "worker_join")
    /\ worker' = Woken
    /\ UNCHANGED <<control, lock, thread, rest>>

\* ... and joined.  (A faulty cleanup forgets to.)
worker_detached ==
    /\ Goto("worker_join", "release")
    /\ UNCHANGED <<control, worker, lock, thread, rest>>

WorkerJoin ==
    /\ Goto("worker_join", "release")
    /\ worker \in {"none", "done"}
    /\ UNCHANGED <<control, worker, lock, thread, rest>>

Release ==
    /\ Goto("release", "exited")
    /\ C!controller_close
    /\ path' = IF path = "ours" THEN "none" ELSE path
    /\ inbox' = <<>>
    /\ UNCHANGED <<worker, lock, thread, running, hand>>

-----------------------------------------------------------------------------
(* The worker.                                                             *)

WorkerLock ==
    /\ worker = "lock"
    /\ lock = "free"
    /\ worker' = "while"
    /\ lock' = "worker"
    /\ UNCHANGED <<control, main, thread, rest>>

ServiceCall ==
    /\ worker = "while"
    /\ running
    /\ C!ServiceCall
    /\ worker' = "service"
    /\ UNCHANGED <<main, lock, thread, rest>>

WorkerReturns ==
    /\ worker = "while"
    /\ ~ running
    /\ worker' = "done"
    /\ lock' = "free"
    /\ UNCHANGED <<control, main, thread, rest>>

SetStart ==
    /\ worker = "service"
    /\ \E id \in todo : C!SetStart(id)
    /\ UNCHANGED <<main, worker, lock, thread, rest>>

\* The display answers ...
SetDone ==
    /\ worker = "service"
    /\ C!SetDone
    /\ UNCHANGED <<main, worker, lock, thread, rest>>

\* ... or the request fails or times out.
SetFails ==
    /\ worker = "service"
    /\ writing # C!NoWrite
    /\ C!Unreachable(writing.ctx)
    /\ C!SetFails
    /\ UNCHANGED <<main, worker, lock, thread, rest>>

\* Go round again if anything was applied, and else wait, which lets go of the
\* lock.
ServiceReturn ==
    /\ worker = "service"
    /\ C!ServiceReturn
    /\ worker' = IF applied > 0 THEN "while" ELSE "waiting"
    /\ lock' = IF applied > 0 THEN "worker" ELSE "free"
    /\ UNCHANGED <<main, thread, rest>>

\* A faulty worker waits without a limit.
never_times_out ==
    /\ worker = "waiting"
    /\ UNCHANGED vars

\* The wait times out (WORKER_POLL_MS), or wakes up for no reason.
Timeout ==
    /\ worker = "waiting"
    /\ worker' = "lock"
    /\ UNCHANGED <<control, main, lock, thread, rest>>

-----------------------------------------------------------------------------
(* The input thread.                                                       *)

\* It comes up, takes a key, or ends.
InputStarts ==
    /\ I!input_thread \/ I!PublishLoop \/ I!RunLoop
    /\ UNCHANGED <<control, main, worker, lock, rest>>

Key == I!Key /\ UNCHANGED <<control, main, worker, lock, rest>>

\* The callback.
KeyAdjust ==
    /\ adjust_fraction(parse_command(press))
    /\ I!CallbackReturns
    /\ UNCHANGED <<main, rest>>

InputEnds == I!LoopEnds /\ UNCHANGED <<control, main, worker, lock, rest>>

-----------------------------------------------------------------------------
(* The outside world.                                                      *)

Listening ==
    main \in {"while", "select", "reconcile", "read", "adjust",
              "cleanup", "input_stop", "input_join", "worker_stop", "worker_join"}

\* A client connects; what it sends is taken to arrive in one piece.
Connect ==
    /\ Listening
    /\ path = "ours"
    /\ Len(inbox) < Backlog
    /\ \E command \in Commands : inbox' = Append(inbox, command)
    /\ UNCHANGED <<control, main, worker, lock, thread, running, hand, path>>

\* SIGINT, SIGTERM or a console control event.
Signal ==
    /\ running
    /\ main # "exited"
    /\ running' = FALSE
    /\ UNCHANGED <<control, main, worker, lock, thread, hand, inbox, path>>

Hotplug == C!Hotplug /\ UNCHANGED <<main, worker, lock, thread, rest>>

Osd == (\E m \in Displays : C!Osd(m)) /\ UNCHANGED <<main, worker, lock, thread, rest>>

-----------------------------------------------------------------------------

Init ==
    /\ C!Init
    /\ main = "access_control"
    /\ worker = "none"
    /\ lock = "free"
    /\ I!ThreadInit
    /\ running = TRUE
    /\ hand = "unknown"
    /\ inbox = <<>>
    /\ path \in {"none", "stale"}

Startup ==
    \/ AccessControl \/ init_monitor \/ StartupReturns \/ CreateWorker
    \/ InputStart \/ Bind \/ StartupFails

Loop == While \/ IdleTick \/ Reconcile \/ Accept \/ AcceptFails \/ ReadCommand \/ Adjust

Shutdown == Cleanup \/ InputStop \/ WorkerStop \/ WorkerJoin \/ Release

Worker ==
    \/ WorkerLock \/ ServiceCall \/ WorkerReturns \/ SetStart \/ SetDone
    \/ SetFails \/ ServiceReturn \/ Timeout

Input == InputStarts \/ KeyAdjust \/ InputEnds

Environment == ReadNothing \/ Key \/ Connect \/ Signal \/ Hotplug \/ Osd

Next == Startup \/ Loop \/ Shutdown \/ Worker \/ Input \/ Environment

\* Every thread is scheduled, a select and a timed wait end, a display answers or
\* its request fails, and the mutex starves nobody who keeps asking for it.
\* Nothing makes a client send, a key be pressed or a signal arrive.
Fairness ==
    /\ WF_vars(Startup)
    /\ SF_vars(Loop)
    /\ WF_vars(Shutdown)
    /\ WF_vars(Worker)
    /\ WF_vars(InputStarts)
    /\ SF_vars(KeyAdjust)
    /\ SF_vars(InputEnds)

Spec == Init /\ [][Next]_vars

FairSpec == Spec /\ Fairness

-----------------------------------------------------------------------------
(* Properties.                                                             *)

TypeOK ==
    /\ C!TypeOK
    /\ main \in {"access_control", "init_monitor", "create_worker", "input_start",
                 "input_started", "bind", "while", "select", "reconcile", "read", "adjust", "cleanup",
                 "input_stop", "input_join", "worker_stop", "worker_join", "release", "exited"}
    /\ worker \in {"none", "lock", "while", "service", "waiting", "done"}
    /\ lock \in {"free", "worker"}
    /\ I!TypeOK
    /\ running \in BOOLEAN
    /\ hand \in Commands \cup {"unknown"}
    /\ inbox \in Seq(Commands)
    /\ Len(inbox) <= Backlog
    /\ path \in {"none", "stale", "ours"}

\* The lock is what keeps the controller's calls apart: however presses, idle ticks,
\* cleanup and the worker interleave, what they do to the controller is one of the
\* behaviours of module DisplayController, whose calls follow one another.
IsController == C!Spec

\* So the write in flight belongs to an entry of the set, goes through that entry's
\* open handle, and is still the one that is due when it returns.
HandlesValid == C!HandlesValid
NoneRunsAway == C!NoneRunsAway

\* What the daemon does to the thread that watches the keys is what module
\* InputThread allows its owner: one start, one stop, and both waited for.
IsInputThread == I!Spec

\* No wakeup is lost: a worker that waits has nothing to do, so that a press never
\* has to wait for WORKER_POLL_MS ("presses wake the worker immediately").
NoLostWakeup ==
    worker = "waiting" =>
        \A id \in DOMAIN displays : ~ C!dimmer_due(displays[id].dim)

\* The controller outlives every thread that uses it, and exists before the first
\* one is created.
WorkerAlive == worker \notin {"none", "done"}
ControllerOutlivesThreads == ctrl # "open" => ~ WorkerAlive /\ ~ I!Alive

\* After main has returned nothing is left: no thread, no controller, no socket of
\* ours in the file system, whichever step of the startup failed.
NothingLeftBehind ==
    main = "exited" =>
        /\ ctrl # "open"
        /\ ~ WorkerAlive
        /\ ~ I!Alive
        /\ path # "ours"

\* While the daemon runs, a press that is due is written or given up: neither more
\* presses, nor idle ticks, nor other displays that are always due and always fail
\* starve it.
Due(id) == id \in DOMAIN displays /\ C!dimmer_due(displays[id].dim)
PressesAreServed == \A id \in C!Ids : Due(id) /\ running ~> ~ Due(id) \/ ~ running

\* "Reached on normal shutdown and on every error path. Stop and join the worker
\* if it was started, then release the socket and display": once the flag is
\* cleared, main returns.
ShutdownCompletes == ~ running ~> main = "exited"
=============================================================================
