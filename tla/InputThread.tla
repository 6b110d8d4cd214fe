---------------------------- MODULE InputThread ----------------------------
(***************************************************************************)
(* The thread that watches the brightness keys, of input/windows.c and     *)
(* input/darwin.c, and the two calls the daemon makes: input_start once,   *)
(* input_stop once.  On Windows the caller of input_start waits for an     *)
(* event that the thread sets when its message loop is ready or cannot be; *)
(* on macOS it does not wait.  Both join the thread in input_stop.         *)
(*                                                                         *)
(* Every call is split where the caller waits for the thread.  What the    *)
(* callback does is the daemon's business (module Daemon).                 *)
(***************************************************************************)
CONSTANT InputKind     \* "none" (Linux and NetBSD), "darwin" or "windows"

VARIABLES
  caller,      \* where the owner of the thread is
  input,       \* where the thread is; "none" if there never was one
  started,     \* g_thread_started
  ready,       \* what g_ready and g_start_ok tell: "unset", "ok" or "failed"
  quit,        \* WM_QUIT is posted, or the run loop told to stop
  press        \* the key whose callback runs, or "none"

thread == <<input, started, ready, quit, press>>
vars == <<caller, thread>>

-----------------------------------------------------------------------------
(* input_start.                                                            *)

\* The event, the HID manager or the thread may fail to be created.
input_start ==
    /\ input' \in {"none"} \cup (IF InputKind = "none" THEN {} ELSE {"created"})
    /\ started' = (input' = "created")
    /\ UNCHANGED <<ready, quit, press>>

\* On Windows input_start waits for the event, and joins a thread that failed.
input_start_returns ==
    /\ \/ ~ started
       \/ InputKind = "darwin"
       \/ ready = "ok"
       \/ ready = "failed" /\ input = "done"
    /\ started' = (started /\ ready # "failed")
    /\ UNCHANGED <<input, ready, quit, press>>

-----------------------------------------------------------------------------
(* The thread.                                                             *)

\* input_thread, windows.c: the window and its registration for raw input, either
\* of which may fail, up to the message loop.
input_thread ==
    /\ InputKind = "windows"
    /\ input = "created"
    /\ \/ input' = "looping" /\ ready' = "ok"
       \/ input' = "done" /\ ready' = "failed"
    /\ UNCHANGED <<started, quit, press>>

\* hid_thread, darwin.c: publishes its run loop ...
PublishLoop ==
    /\ InputKind = "darwin"
    /\ input = "created"
    /\ input' = "published"
    /\ UNCHANGED <<started, ready, quit, press>>

\* ... and runs it.
RunLoop ==
    /\ input = "published"
    /\ input' = "looping"
    /\ UNCHANGED <<started, ready, quit, press>>

\* A report of a brightness key: handle_raw_input, or value_cb.  Reports of anything
\* else, and of a key that is let go, come to nothing.
Key ==
    /\ input = "looping"
    /\ input' = "callback"
    /\ press' \in {"up", "down"}
    /\ UNCHANGED <<started, ready, quit>>

CallbackReturns ==
    /\ input = "callback"
    /\ input' = "looping"
    /\ press' = "none"
    /\ UNCHANGED <<started, ready, quit>>

\* The loop sees WM_QUIT, or that it is stopped.
LoopEnds ==
    /\ input = "looping"
    /\ quit
    /\ input' = "done"
    /\ UNCHANGED <<started, ready, quit, press>>

-----------------------------------------------------------------------------
(* input_stop.                                                             *)

\* On Windows a started thread has its message loop, and the quit message (or the
\* closing of its window, when that cannot be posted) reaches it.  On macOS a stop
\* is lost on a loop that is not published, or does not run yet.
input_stop ==
    /\ quit' = (started /\ input \in {"looping", "callback"})
    /\ UNCHANGED <<input, started, ready, press>>

\* A faulty input_stop does not join the thread.
stops_detached ==
    /\ started' = FALSE
    /\ UNCHANGED <<input, ready, quit, press>>

input_stop_returns ==
    /\ started => input = "done"
    /\ started' = FALSE
    /\ UNCHANGED <<input, ready, quit, press>>

-----------------------------------------------------------------------------

ThreadInit ==
    /\ input = "none"
    /\ started = FALSE
    /\ ready = "unset"
    /\ quit = FALSE
    /\ press = "none"

Init == ThreadInit /\ caller = "before"

Goto(from, to) == caller = from /\ caller' = to

Thread == input_thread \/ PublishLoop \/ RunLoop \/ CallbackReturns \/ LoopEnds

\* An owner that fails before it starts the thread stops it nevertheless, or not.
Next ==
    \/ Goto("before", "running") /\ UNCHANGED thread
    \/ Goto("before", "after") /\ UNCHANGED thread
    \/ Goto("before", "starting") /\ input_start
    \/ Goto("starting", "running") /\ input_start_returns
    \/ Goto("running", "stopping") /\ input_stop
    \/ Goto("stopping", "after") /\ input_stop_returns
    \/ (Thread \/ Key) /\ UNCHANGED caller

Spec == Init /\ [][Next]_vars

-----------------------------------------------------------------------------
(* Properties.                                                             *)

TypeOK ==
    /\ caller \in {"before", "starting", "running", "stopping", "after"}
    /\ input \in {"none", "created", "published", "looping", "callback", "done"}
    /\ started \in BOOLEAN
    /\ ready \in {"unset", "ok", "failed"}
    /\ quit \in BOOLEAN
    /\ press \in {"none", "up", "down"}

\* The thread does not outlive input_stop, nor an input_start that failed: no
\* callback runs once the daemon goes on to free what it uses.
Alive == input \notin {"none", "done"}
NoCallbackWithoutOwner ==
    caller \in {"before", "after"} \/ ~ started => ~ Alive
=============================================================================
