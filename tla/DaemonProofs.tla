---------------------------- MODULE DaemonProofs ----------------------------
(***************************************************************************)
(* Proofs about the daemon, for any displays, faults, commands and input   *)
(* backend.                                                                *)
(*                                                                         *)
(* The argument: an invariant about who holds the lock and how far main    *)
(* has come (Threads, Keys) is enough for every step of the daemon to be a *)
(* step of DisplayController or to leave the controller alone.  All that   *)
(* is proved of the controller then holds of the daemon, and with it what  *)
(* a worker that waits may rely on.                                        *)
(***************************************************************************)
EXTENDS Daemon, TLAPS

CP == INSTANCE KnobBankProofs

Early == {"access_control", "init_monitor"}

MainStates ==
    {"access_control", "init_monitor", "create_worker", "input_start", "input_started",
     "bind", "while", "select", "reconcile", "read", "adjust", "cleanup",
     "input_stop", "input_join", "worker_stop", "worker_join", "release", "exited"}

\* Who holds the lock, who may be in a service pass, who may use the controller.
Threads ==
    /\ main \in MainStates
    /\ worker \in {"none", "lock", "while", "service", "waiting", "done"}
    /\ lock = IF worker \in {"while", "service"} THEN "worker" ELSE "free"
    /\ IF worker = "service" THEN applied \in Nat ELSE applied = C!NoPass
    /\ main \in Early => ctrl = "null" /\ path # "ours"
    /\ ctrl = "open" <=> main \notin Early \cup {"exited"}
    /\ main \in Early \cup {"create_worker"} => worker = "none"
    /\ main \in {"release", "exited"} => worker \in {"none", "done"}
    /\ main = "exited" => path # "ours"
    /\ main = "adjust" => parse_command(hand) \in {-1, 1}

\* Where the key thread may be while main is where it is.
Keys ==
    /\ input \in {"none", "created", "published", "looping", "callback", "done"}
    /\ started \in BOOLEAN
    /\ ready \in {"unset", "ok", "failed"}
    /\ quit \in BOOLEAN
    /\ press \in {"none", "up", "down"}
    /\ input = "callback" => press # "none"
    /\ ~ started => ~ I!Alive
    /\ ready = "failed" => input = "done"
    /\ InputCaller = "before" => input = "none" /\ ready = "unset"
    /\ InputCaller = "after" => ~ I!Alive

DInv == Threads /\ Keys

-----------------------------------------------------------------------------
(* Initial states.                                                         *)

LEMMA InitThreads == Init => DInv
  BY DEF Init, DInv, Threads, Keys, C!Init, I!ThreadInit, I!Alive, MainStates, Early,
     InputCaller
-----------------------------------------------------------------------------
(* Steps.                                                                  *)

LEMMA ThreadsStep == ASSUME DInv, Next PROVE Threads'
<1>1. CASE AccessControl
  BY <1>1 DEF AccessControl, Goto, DInv, Threads, Early, MainStates, control, rest
<1>2. CASE init_monitor
  BY <1>2 DEF init_monitor, Goto, C!controller_open, C!pass, DInv, Threads, Early,
     MainStates, control, rest
<1>3. CASE StartupReturns
  BY <1>3 DEF StartupReturns, DInv, Threads, Early, MainStates, control, rest
<1>4. CASE CreateWorker
  BY <1>4 DEF CreateWorker, Goto, DInv, Threads, Early, MainStates, control, rest
<1>5. CASE InputStart
  BY <1>5 DEF InputStart, Goto, DInv, Threads, Early, MainStates, control, rest
<1>6. CASE Bind
  BY <1>6 DEF Bind, Goto, DInv, Threads, Early, MainStates, control, rest
<1>7. CASE StartupFails
  BY <1>7 DEF StartupFails, DInv, Threads, Early, MainStates, control, rest
<1>8. CASE While
  BY <1>8 DEF While, DInv, Threads, Early, MainStates, control, rest
<1>9. CASE IdleTick
  BY <1>9 DEF IdleTick, Goto, DInv, Threads, Early, MainStates, control, rest
<1>10. CASE Reconcile
  BY <1>10 DEF Reconcile, Goto, C!controller_reconcile, C!pass, DInv, Threads, Early,
     MainStates, control, rest
<1>11. CASE Accept
  BY <1>11 DEF Accept, DInv, Threads, Early, MainStates, control, rest
<1>12. CASE AcceptFails
  BY <1>12 DEF AcceptFails, DInv, Threads, Early, MainStates, control, rest
<1>13. CASE ReadCommand
  BY <1>13 DEF ReadCommand, parse_command, DInv, Threads, Early, MainStates, control, rest
<1>14. CASE Adjust
  BY <1>14 DEF Adjust, Goto, adjust_fraction, Woken, C!controller_adjust, C!pass, DInv,
     Threads, Early, MainStates, control, rest
<1>15. CASE Cleanup
  BY <1>15 DEF Cleanup, Goto, DInv, Threads, Early, MainStates, control, rest
<1>16. CASE InputStop
  BY <1>16 DEF InputStop, Goto, DInv, Threads, Early, MainStates, control, rest
<1>17. CASE WorkerStop
  BY <1>17 DEF WorkerStop, Goto, Woken, DInv, Threads, Early, MainStates, control, rest
<1>18. CASE WorkerJoin
  BY <1>18 DEF WorkerJoin, Goto, DInv, Threads, Early, MainStates, control, rest
<1>19. CASE Release
  BY <1>19 DEF Release, Goto, C!controller_close, C!pass, DInv, Threads, Early, MainStates,
     control, rest
<1>20. CASE WorkerLock
  BY <1>20 DEF WorkerLock, DInv, Threads, Early, MainStates, control, rest
<1>21. CASE ServiceCall
  BY <1>21 DEF ServiceCall, C!ServiceCall, C!set, DInv, Threads, Early, MainStates, control,
     rest
<1>22. CASE WorkerReturns
  BY <1>22 DEF WorkerReturns, DInv, Threads, Early, MainStates, control, rest
<1>23. CASE SetStart
  BY <1>23 DEF SetStart, C!SetStart, C!set, DInv, Threads, Early, MainStates, control, rest
<1>24. CASE SetDone
  BY <1>24 DEF SetDone, C!SetDone, DInv, Threads, Early, MainStates, control, rest
<1>25. CASE SetFails
  BY <1>25 DEF SetFails, C!SetFails, DInv, Threads, Early, MainStates, control, rest
<1>26. CASE ServiceReturn
  BY <1>26 DEF ServiceReturn, C!ServiceReturn, C!set, DInv, Threads, Early, MainStates,
     control, rest
<1>27. CASE Timeout
  BY <1>27 DEF Timeout, DInv, Threads, Early, MainStates, control, rest
<1>28. CASE InputStarts
  BY <1>28 DEF InputStarts, DInv, Threads, Early, MainStates, control, rest
<1>29. CASE KeyAdjust
  BY <1>29 DEF KeyAdjust, adjust_fraction, Woken, C!controller_adjust, C!pass, Keys,
     I!Alive, InputCaller, DInv, Threads, Early, MainStates, control, rest
<1>30. CASE InputEnds
  BY <1>30 DEF InputEnds, DInv, Threads, Early, MainStates, control, rest
<1>31. CASE ReadNothing
  BY <1>31 DEF ReadNothing, Goto, DInv, Threads, Early, MainStates, control, rest
<1>32. CASE Key
  BY <1>32 DEF Key, DInv, Threads, Early, MainStates, control, rest
<1>33. CASE Connect
  BY <1>33 DEF Connect, DInv, Threads, Early, MainStates, control, rest
<1>34. CASE Signal
  BY <1>34 DEF Signal, DInv, Threads, Early, MainStates, control, rest
<1>35. CASE Hotplug
  BY <1>35 DEF Hotplug, C!Hotplug, C!set, C!pass, DInv, Threads, Early, MainStates, control,
     rest
<1>36. CASE Osd
  BY <1>36 DEF Osd, C!Osd, C!set, C!pass, DInv, Threads, Early, MainStates, control, rest
<1> QED
  BY <1>1, <1>2, <1>3, <1>4, <1>5, <1>6, <1>7, <1>8, <1>9, <1>10, <1>11, <1>12, <1>13,
     <1>14, <1>15, <1>16, <1>17, <1>18, <1>19, <1>20, <1>21, <1>22, <1>23, <1>24, <1>25, <1>26,
     <1>27, <1>28, <1>29, <1>30, <1>31, <1>32, <1>33, <1>34, <1>35, <1>36 DEF Next, Startup,
     Loop, Shutdown, Worker, Input, Environment

LEMMA KeysStep == ASSUME DInv, Next PROVE Keys'
<1>1. CASE AccessControl
  BY <1>1 DEF AccessControl, Goto, DInv, Threads, Keys, InputCaller, I!Alive, thread, Early,
     MainStates
<1>2. CASE init_monitor
  BY <1>2 DEF init_monitor, Goto, DInv, Threads, Keys, InputCaller, I!Alive, thread, Early,
     MainStates
<1>3. CASE StartupReturns
  BY <1>3 DEF StartupReturns, DInv, Threads, Keys, InputCaller, I!Alive, thread, Early,
     MainStates
<1>4. CASE CreateWorker
  BY <1>4 DEF CreateWorker, Goto, DInv, Threads, Keys, InputCaller, I!Alive, thread, Early,
     MainStates
<1>5. CASE InputStart
  BY <1>5 DEF InputStart, Goto, I!input_start, I!input_start_returns, DInv, Threads, Keys,
     InputCaller, I!Alive, thread, Early, MainStates
<1>6. CASE Bind
  BY <1>6 DEF Bind, Goto, DInv, Threads, Keys, InputCaller, I!Alive, thread, Early,
     MainStates
<1>7. CASE StartupFails
  BY <1>7 DEF StartupFails, DInv, Threads, Keys, InputCaller, I!Alive, thread, Early,
     MainStates
<1>8. CASE While
  BY <1>8 DEF While, DInv, Threads, Keys, InputCaller, I!Alive, thread, Early, MainStates
<1>9. CASE IdleTick
  BY <1>9 DEF IdleTick, Goto, DInv, Threads, Keys, InputCaller, I!Alive, thread, Early,
     MainStates
<1>10. CASE Reconcile
  BY <1>10 DEF Reconcile, Goto, DInv, Threads, Keys, InputCaller, I!Alive, thread, Early,
     MainStates
<1>11. CASE Accept
  BY <1>11 DEF Accept, DInv, Threads, Keys, InputCaller, I!Alive, thread, Early, MainStates
<1>12. CASE AcceptFails
  BY <1>12 DEF AcceptFails, DInv, Threads, Keys, InputCaller, I!Alive, thread, Early,
     MainStates
<1>13. CASE ReadCommand
  BY <1>13 DEF ReadCommand, parse_command, DInv, Threads, Keys, InputCaller, I!Alive,
     thread, Early, MainStates
<1>14. CASE Adjust
  BY <1>14 DEF Adjust, Goto, adjust_fraction, Woken, DInv, Threads, Keys, InputCaller,
     I!Alive, thread, Early, MainStates
<1>15. CASE Cleanup
  BY <1>15 DEF Cleanup, Goto, DInv, Threads, Keys, InputCaller, I!Alive, thread, Early,
     MainStates
<1>16. CASE InputStop
  BY <1>16 DEF InputStop, Goto, I!input_stop, I!input_stop_returns, DInv, Threads, Keys,
     InputCaller, I!Alive, thread, Early, MainStates
<1>17. CASE WorkerStop
  BY <1>17 DEF WorkerStop, Goto, Woken, DInv, Threads, Keys, InputCaller, I!Alive, thread,
     Early, MainStates
<1>18. CASE WorkerJoin
  BY <1>18 DEF WorkerJoin, Goto, DInv, Threads, Keys, InputCaller, I!Alive, thread, Early,
     MainStates
<1>19. CASE Release
  BY <1>19 DEF Release, Goto, DInv, Threads, Keys, InputCaller, I!Alive, thread, Early,
     MainStates
<1>20. CASE WorkerLock
  BY <1>20 DEF WorkerLock, DInv, Threads, Keys, InputCaller, I!Alive, thread, Early,
     MainStates
<1>21. CASE ServiceCall
  BY <1>21 DEF ServiceCall, DInv, Threads, Keys, InputCaller, I!Alive, thread, Early,
     MainStates
<1>22. CASE WorkerReturns
  BY <1>22 DEF WorkerReturns, DInv, Threads, Keys, InputCaller, I!Alive, thread, Early,
     MainStates
<1>23. CASE SetStart
  BY <1>23 DEF SetStart, DInv, Threads, Keys, InputCaller, I!Alive, thread, Early,
     MainStates
<1>24. CASE SetDone
  BY <1>24 DEF SetDone, DInv, Threads, Keys, InputCaller, I!Alive, thread, Early, MainStates
<1>25. CASE SetFails
  BY <1>25 DEF SetFails, DInv, Threads, Keys, InputCaller, I!Alive, thread, Early,
     MainStates
<1>26. CASE ServiceReturn
  BY <1>26 DEF ServiceReturn, DInv, Threads, Keys, InputCaller, I!Alive, thread, Early,
     MainStates
<1>27. CASE Timeout
  BY <1>27 DEF Timeout, DInv, Threads, Keys, InputCaller, I!Alive, thread, Early, MainStates
<1>28. CASE InputStarts
  BY <1>28 DEF InputStarts, I!input_thread, I!PublishLoop, I!RunLoop, DInv, Threads, Keys,
     InputCaller, I!Alive, thread, Early, MainStates
<1>29. CASE KeyAdjust
  BY <1>29 DEF KeyAdjust, adjust_fraction, Woken, I!CallbackReturns, DInv, Threads, Keys,
     InputCaller, I!Alive, thread, Early, MainStates
<1>30. CASE InputEnds
  BY <1>30 DEF InputEnds, I!LoopEnds, DInv, Threads, Keys, InputCaller, I!Alive, thread,
     Early, MainStates
<1>31. CASE ReadNothing
  BY <1>31 DEF ReadNothing, Goto, DInv, Threads, Keys, InputCaller, I!Alive, thread, Early,
     MainStates
<1>32. CASE Key
  BY <1>32 DEF Key, I!Key, DInv, Threads, Keys, InputCaller, I!Alive, thread, Early,
     MainStates
<1>33. CASE Connect
  BY <1>33 DEF Connect, DInv, Threads, Keys, InputCaller, I!Alive, thread, Early, MainStates
<1>34. CASE Signal
  BY <1>34 DEF Signal, DInv, Threads, Keys, InputCaller, I!Alive, thread, Early, MainStates
<1>35. CASE Hotplug
  BY <1>35 DEF Hotplug, DInv, Threads, Keys, InputCaller, I!Alive, thread, Early, MainStates
<1>36. CASE Osd
  BY <1>36 DEF Osd, DInv, Threads, Keys, InputCaller, I!Alive, thread, Early, MainStates
<1> QED
  BY <1>1, <1>2, <1>3, <1>4, <1>5, <1>6, <1>7, <1>8, <1>9, <1>10, <1>11, <1>12, <1>13,
     <1>14, <1>15, <1>16, <1>17, <1>18, <1>19, <1>20, <1>21, <1>22, <1>23, <1>24, <1>25, <1>26,
     <1>27, <1>28, <1>29, <1>30, <1>31, <1>32, <1>33, <1>34, <1>35, <1>36 DEF Next, Startup,
     Loop, Shutdown, Worker, Input, Environment

\* Every step of the daemon is a call of the controller's protocol or none of its
\* business: the lock keeps the calls apart.
LEMMA ControllerStep == ASSUME DInv, Next PROVE C!Next \/ UNCHANGED control
<1>1. CASE AccessControl
  BY <1>1 DEF AccessControl, Goto, rest, thread, control
<1>2. CASE init_monitor
  BY <1>2 DEF init_monitor, Goto, C!Next, C!Idle, Threads, DInv, Early, rest, thread,
     control
<1>3. CASE StartupReturns
  BY <1>3 DEF StartupReturns, rest, thread, control
<1>4. CASE CreateWorker
  BY <1>4 DEF CreateWorker, Goto, rest, thread, control
<1>5. CASE InputStart
  BY <1>5 DEF InputStart, Goto, rest, thread, control
<1>6. CASE Bind
  BY <1>6 DEF Bind, Goto, rest, thread, control
<1>7. CASE StartupFails
  BY <1>7 DEF StartupFails, rest, thread, control
<1>8. CASE While
  BY <1>8 DEF While, rest, thread, control
<1>9. CASE IdleTick
  BY <1>9 DEF IdleTick, Goto, rest, thread, control
<1>10. CASE Reconcile
  BY <1>10 DEF Reconcile, Goto, C!Next, C!Idle, Threads, DInv, Early, rest, thread, control
<1>11. CASE Accept
  BY <1>11 DEF Accept, rest, thread, control
<1>12. CASE AcceptFails
  BY <1>12 DEF AcceptFails, rest, thread, control
<1>13. CASE ReadCommand
  BY <1>13 DEF ReadCommand, parse_command, rest, thread, control
<1>14. CASE Adjust
  BY <1>14 DEF Adjust, Goto, adjust_fraction, Woken, C!Next, C!Idle, Threads, DInv, Early,
     rest, thread, control
<1>15. CASE Cleanup
  BY <1>15 DEF Cleanup, Goto, rest, thread, control
<1>16. CASE InputStop
  BY <1>16 DEF InputStop, Goto, rest, thread, control
<1>17. CASE WorkerStop
  BY <1>17 DEF WorkerStop, Goto, Woken, rest, thread, control
<1>18. CASE WorkerJoin
  BY <1>18 DEF WorkerJoin, Goto, rest, thread, control
<1>19. CASE Release
  BY <1>19 DEF Release, Goto, C!Next, C!Idle, Threads, DInv, Early, rest, thread, control
<1>20. CASE WorkerLock
  BY <1>20 DEF WorkerLock, rest, thread, control
<1>21. CASE ServiceCall
  BY <1>21 DEF ServiceCall, C!Next, C!Idle, Threads, DInv, Early, rest, thread, control
<1>22. CASE WorkerReturns
  BY <1>22 DEF WorkerReturns, rest, thread, control
<1>23. CASE SetStart
  BY <1>23 DEF SetStart, C!Next, C!Idle, Threads, DInv, Early, rest, thread, control
<1>24. CASE SetDone
  BY <1>24 DEF SetDone, C!Next, C!Idle, Threads, DInv, Early, rest, thread, control
<1>25. CASE SetFails
  BY <1>25 DEF SetFails, C!Next, C!Idle, Threads, DInv, Early, rest, thread, control
<1>26. CASE ServiceReturn
  BY <1>26 DEF ServiceReturn, C!Next, C!Idle, Threads, DInv, Early, C!NoPass, rest, thread,
     control
<1>27. CASE Timeout
  BY <1>27 DEF Timeout, rest, thread, control
<1>28. CASE InputStarts
  BY <1>28 DEF InputStarts, rest, thread, control
<1>29. CASE KeyAdjust
  <2>1. input = "callback" /\ lock = "free" /\ C!controller_adjust(parse_command(press))
    BY <1>29 DEF KeyAdjust, adjust_fraction, I!CallbackReturns
  <2>2. press \in {"up", "down"} /\ InputCaller \notin {"before", "after"}
    BY <2>1 DEF DInv, Keys, I!Alive
  <2>3. main \notin Early \cup {"exited"}
    BY <2>2 DEF InputCaller, Early
  <2>4. C!Idle
    BY <2>1, <2>3 DEF C!Idle, DInv, Threads
  <2>5. parse_command(press) \in {-1, 1}
    BY <2>2 DEF parse_command
  <2> QED
    BY <2>1, <2>4, <2>5 DEF C!Next
<1>30. CASE InputEnds
  BY <1>30 DEF InputEnds, rest, thread, control
<1>31. CASE ReadNothing
  BY <1>31 DEF ReadNothing, Goto, rest, thread, control
<1>32. CASE Key
  BY <1>32 DEF Key, rest, thread, control
<1>33. CASE Connect
  BY <1>33 DEF Connect, rest, thread, control
<1>34. CASE Signal
  BY <1>34 DEF Signal, rest, thread, control
<1>35. CASE Hotplug
  BY <1>35 DEF Hotplug, C!Next, C!Idle, Threads, DInv, Early, rest, thread, control
<1>36. CASE Osd
  BY <1>36 DEF Osd, C!Next, C!Idle, Threads, DInv, Early, rest, thread, control
<1> QED
  BY <1>1, <1>2, <1>3, <1>4, <1>5, <1>6, <1>7, <1>8, <1>9, <1>10, <1>11, <1>12, <1>13,
     <1>14, <1>15, <1>16, <1>17, <1>18, <1>19, <1>20, <1>21, <1>22, <1>23, <1>24, <1>25, <1>26,
     <1>27, <1>28, <1>29, <1>30, <1>31, <1>32, <1>33, <1>34, <1>35, <1>36 DEF Next, Startup,
     Loop, Shutdown, Worker, Input, Environment

LEMMA StutterInv == DInv /\ UNCHANGED vars => DInv'
  BY DEF DInv, Threads, Keys, InputCaller, I!Alive, vars, control, thread, rest

LEMMA DaemonInvariant == Spec => []DInv
<1>1. DInv /\ [Next]_vars => DInv'
  BY ThreadsStep, KeysStep, StutterInv DEF DInv
<1> QED
  BY InitThreads, <1>1, PTL DEF Spec

\* The lock is what keeps the controller's calls apart: the daemon implements the
\* controller's protocol, with the worker's slow pass in between everybody's calls.
THEOREM ImplementsController == Spec => IsController
<1>1. Init => C!Init
  BY DEF Init
<1>2. DInv /\ [Next]_vars => [C!Next]_(C!vars)
  BY ControllerStep DEF vars, control, C!vars
<1> QED
  BY DaemonInvariant, <1>1, <1>2, PTL DEF Spec, IsController, C!Spec

-----------------------------------------------------------------------------
(* What is proved of the controller holds of the daemon's.                 *)

\* C and CP are the same module twice, and their formulas are the same when they
\* are written out.
LEMMA SameSpec == C!Spec => CP!Spec
<1>1. C!Init => CP!Init
  BY DEF C!Init, CP!Init, C!Arrangements, CP!Arrangements, C!ShownLevels, CP!ShownLevels,
     C!NoWrite, CP!NoWrite, C!NoPass, CP!NoPass, C!Cardinality, CP!Cardinality
<1>2. [C!Next]_(C!vars) => [CP!Next]_(CP!vars)
  BY DEF C!vars, CP!vars, C!Next, CP!Next, C!Idle, CP!Idle, C!Broken, CP!Broken,
     C!Unread, CP!Unread, C!controller_open, CP!controller_open,
     C!controller_adjust, CP!controller_adjust,
     C!controller_reconcile, CP!controller_reconcile,
     C!controller_close, CP!controller_close, C!ServiceCall, CP!ServiceCall,
     C!SetStart, CP!SetStart, C!SetDone, CP!SetDone, C!SetFails, CP!SetFails,
     C!ServiceReturn, CP!ServiceReturn, C!Hotplug, CP!Hotplug, C!Osd, CP!Osd,
     C!Plugged, CP!Plugged, C!Reached, CP!Reached, C!Unreachable, CP!Unreachable,
     C!NextDue, CP!NextDue, C!bus, CP!bus, C!set, CP!set,
     C!pass, CP!pass, C!NoPass, CP!NoPass, C!NoWrite, CP!NoWrite,
     C!Arrangements, CP!Arrangements, C!Cardinality, CP!Cardinality,
     C!FreeSlots, CP!FreeSlots, C!controllable, CP!controllable, C!NewHandle, CP!NewHandle, C!id_of, CP!id_of,
     C!ddc_enumerate_sources, CP!ddc_enumerate_sources, C!ReadDimmer, CP!ReadDimmer,
     C!HandlesOf, CP!HandlesOf, C!delta_of, CP!delta_of, C!closed_by, CP!closed_by,
     C!dimmer_init, CP!dimmer_init, C!dimmer_adjust, CP!dimmer_adjust,
     C!dimmer_target, CP!dimmer_target, C!dimmer_due, CP!dimmer_due,
     C!dimmer_commit, CP!dimmer_commit, C!dimmer_settled, CP!dimmer_settled,
     C!dimmer_max, CP!dimmer_max, C!clamp_brightness, CP!clamp_brightness,
     C!Wanted, CP!Wanted, C!RoundedShare, CP!RoundedShare,
     C!dimmer_delta_for_fraction, CP!dimmer_delta_for_fraction
<1> QED
  BY <1>1, <1>2, PTL DEF C!Spec, CP!Spec

LEMMA SameInvariants ==
    /\ CP!TypeOK => C!TypeOK
    /\ CP!HandlesValid => C!HandlesValid
    /\ CP!NoneRunsAway => C!NoneRunsAway
<1>1. CP!TypeOK => C!TypeOK
  <2>1. CP!Arrangements = C!Arrangements
    BY DEF C!Arrangements, CP!Arrangements, C!Cardinality, CP!Cardinality
  <2>2. CP!Ids = C!Ids /\ CP!Handles = C!Handles
    BY DEF C!Ids, CP!Ids, C!Handles, CP!Handles, C!Cardinality, CP!Cardinality
  <2>3. CP!Entry = C!Entry
    BY <2>2 DEF C!Entry, CP!Entry, C!DimmerType, CP!DimmerType
  <2>4. CP!NoWrite = C!NoWrite /\ CP!NoPass = C!NoPass
    BY DEF C!NoWrite, CP!NoWrite, C!NoPass, CP!NoPass
  <2> QED
    BY <2>1, <2>2, <2>3, <2>4 DEF C!TypeOK, CP!TypeOK
<1>2. CP!HandlesValid => C!HandlesValid
  BY DEF C!HandlesValid, CP!HandlesValid, C!NoWrite, CP!NoWrite
<1>3. CP!NoneRunsAway => C!NoneRunsAway
  BY DEF C!NoneRunsAway, CP!NoneRunsAway, C!NoWrite, CP!NoWrite, C!Reachable, CP!Reachable,
     C!Wanted, CP!Wanted, C!dimmer_due, CP!dimmer_due, C!dimmer_target, CP!dimmer_target,
     C!clamp_brightness, CP!clamp_brightness
<1> QED
  BY <1>1, <1>2, <1>3

LEMMA ControllerAssumptions == CP!DisplaysAssumption /\ CP!StepAssumption
  BY DisplaysAssumption, StepAssumption
     DEF CP!DisplaysAssumption, CP!StepAssumption, IsFiniteSet, CP!IsFiniteSet

LEMMA ControllerTypes == Spec => []C!TypeOK
<1>1. CP!Spec => []CP!TypeOK
  BY ControllerAssumptions, CP!TypeCorrect
<1> QED
  BY <1>1, ImplementsController, SameSpec, SameInvariants, PTL DEF IsController

\* Between and during the presses, ticks and writes of three threads every display of
\* the set is reached through an open handle of its own (the lock around
\* controller_service, _adjust and _reconcile).
THEOREM HandlesStayValid == Spec => []HandlesValid
<1>1. CP!Spec => []CP!HandlesValid
  BY ControllerAssumptions, CP!HandlesStayValid
<1> QED
  BY <1>1, ImplementsController, SameSpec, SameInvariants, PTL DEF IsController, HandlesValid

\* No dimmer aims off its scale, and a set that returns is still the one due, although
\* presses come from two threads while the worker writes.
THEOREM NoDimmerRunsAway == Spec => []NoneRunsAway
<1>1. CP!Spec => []CP!NoneRunsAway
  BY ControllerAssumptions, CP!NoDimmerRunsAway
<1> QED
  BY <1>1, ImplementsController, SameSpec, SameInvariants, PTL DEF IsController, NoneRunsAway

\* What a daemon believes of a display is true, as long as displays report distinct
\* models, answer the second read and are not changed behind its back: whatever three
\* threads do meanwhile, and however the monitors are moved.
THEOREM BeliefsAreTrue == ASSUME CP!Honest PROVE Spec => []C!LevelTracksHardware
<1>1. CP!Spec => []CP!LevelTracksHardware
  BY ControllerAssumptions, CP!BeliefsAreTrue
<1>2. CP!LevelTracksHardware => C!LevelTracksHardware
  BY DEF C!LevelTracksHardware, CP!LevelTracksHardware
<1> QED
  BY <1>1, <1>2, ImplementsController, SameSpec, PTL DEF IsController

\* And no honest display is asked for more than its maximum.
THEOREM SetsStayInRange == ASSUME CP!Honest PROVE Spec => []C!SetsInRange
<1>1. CP!Spec => []CP!SetsInRange
  BY ControllerAssumptions, CP!SetsStayInRange
<1>2. CP!SetsInRange => C!SetsInRange
  BY DEF C!SetsInRange, CP!SetsInRange, C!NoWrite, CP!NoWrite
<1> QED
  BY <1>1, <1>2, ImplementsController, SameSpec, PTL DEF IsController

\* Offsets between displays are preserved by the presses of all threads together.
THEOREM OffsetsArePreserved == Spec => C!OffsetsKept
<1>1. CP!Spec => CP!OffsetsKept
  BY ControllerAssumptions, CP!OffsetsArePreserved
<1>2. CP!OffsetsKept => C!OffsetsKept
  BY PTL DEF C!OffsetsKept, CP!OffsetsKept, C!OffRails, CP!OffRails, C!Wanted, CP!Wanted,
     C!SetFailed, CP!SetFailed, C!NoWrite, CP!NoWrite, C!vars, CP!vars
<1> QED
  BY <1>1, <1>2, ImplementsController, SameSpec, PTL DEF IsController

\* The daemon as a whole -- clients, key thread, worker and main around one lock -- is
\* the bank of knobs of display_controller.h.
THEOREM ImplementsKnobBank == Spec => C!IsBank
<1>1. CP!Spec => CP!IsBank
  BY ControllerAssumptions, CP!ImplementsKnobBank
<1>2. CP!B!Init => C!B!Init
  BY DEF CP!B!Init, C!B!Init, CP!Bank, C!Bank, CP!Motor, C!Motor, CP!NoWrite, C!NoWrite,
     C!Wanted, CP!Wanted
<1>3. [CP!B!Next]_(CP!B!vars) => [C!B!Next]_(C!B!vars)
  BY DEF CP!B!Next, C!B!Next, CP!B!vars, C!B!vars, CP!B!Turn, C!B!Turn, CP!B!Start, C!B!Start,
     CP!B!Arrive, C!B!Arrive, CP!B!GiveUp, C!B!GiveUp, CP!B!Exchange, C!B!Exchange,
     CP!B!Turned, C!B!Turned, CP!B!IsStep, C!B!IsStep, CP!B!Nearest, C!B!Nearest,
     CP!B!Distance, C!B!Distance, CP!Bank, C!Bank, CP!Motor, C!Motor, CP!NoWrite, C!NoWrite,
     C!Wanted, CP!Wanted
<1>4. CP!IsBank => C!IsBank
  BY <1>2, <1>3, PTL DEF CP!IsBank, C!IsBank, CP!B!Spec, C!B!Spec
<1> QED
  BY <1>1, <1>4, ImplementsController, SameSpec, PTL DEF IsController

-----------------------------------------------------------------------------
(* Threads that end before what they use.                                  *)

\* controller_close comes after every thread that could use the controller, and
\* controller_open before.
THEOREM ControllerOutlives == Spec => []ControllerOutlivesThreads
<1>1. DInv => ControllerOutlivesThreads
  BY DEF DInv, Threads, Keys, ControllerOutlivesThreads, WorkerAlive, I!Alive, InputCaller,
     Early
<1> QED
  BY <1>1, DaemonInvariant, PTL

\* Whichever step of the startup fails, and whenever the signal comes: a main that
\* has returned leaves no thread, controller or socket.
THEOREM NothingIsLeftBehind == Spec => []NothingLeftBehind
<1>1. DInv => NothingLeftBehind
  BY DEF DInv, Threads, Keys, NothingLeftBehind, WorkerAlive, I!Alive, InputCaller, Early
<1> QED
  BY <1>1, DaemonInvariant, PTL

\* The signal flag, and what clients have put in.
Queue ==
    /\ running \in BOOLEAN
    /\ hand \in Commands \cup {"unknown"}
    /\ inbox \in Seq(Commands)
    /\ Len(inbox) <= Backlog
    /\ path \in {"none", "stale", "ours"}

\* Type correctness of the whole daemon.
THEOREM TypeCorrect == Spec => []TypeOK
<1>1. Init => Queue
  BY BacklogAssumption DEF Init, Queue
<1>2. ASSUME Queue, [Next]_vars PROVE Queue'
  <2>1. CASE Bind
    BY <1>2, <2>1 DEF Queue, Bind
  <2>2. CASE StartupFails
    BY <1>2, <2>2 DEF Queue, StartupFails
  <2>3. CASE While
    BY <1>2, <2>3 DEF Queue, While
  <2>4. CASE Accept
    <3>1. inbox \in Seq(Commands) /\ inbox # <<>> /\ Len(inbox) <= Backlog
      BY <1>2, <2>4 DEF Queue, Accept
    <3>2. Tail(inbox) \in Seq(Commands) /\ Len(Tail(inbox)) = Len(inbox) - 1
      BY <3>1
    <3>3. Head(inbox) \in Commands
      BY <3>1
    <3>4. /\ inbox' = Tail(inbox)
          /\ hand' = hand \/ hand' = Head(inbox)
          /\ UNCHANGED <<running, path>>
      BY <2>4 DEF Accept
    <3> QED
      BY <1>2, <3>1, <3>2, <3>3, <3>4, BacklogAssumption DEF Queue
  <2>5. CASE Cleanup
    BY <1>2, <2>5 DEF Queue, Cleanup
  <2>6. CASE Release
    BY <1>2, <2>6, BacklogAssumption DEF Queue, Release
  <2>7. CASE Connect
    BY <1>2, <2>7, BacklogAssumption DEF Queue, Connect
  <2>8. CASE Signal
    BY <1>2, <2>8 DEF Queue, Signal
  <2>9. CASE UNCHANGED rest
    BY <1>2, <2>9 DEF Queue, rest
  <2>10. CASE UNCHANGED vars
    BY <1>2, <2>10 DEF Queue, vars, rest
  <2>11. Startup => Bind \/ StartupFails \/ UNCHANGED rest
    BY DEF Startup, AccessControl, init_monitor, StartupReturns, CreateWorker, InputStart,
       rest
  <2>12. Loop => While \/ Accept \/ UNCHANGED rest
    BY DEF Loop, IdleTick, Reconcile, AcceptFails, ReadCommand, Adjust, rest
  <2>13. Shutdown => Cleanup \/ Release \/ UNCHANGED rest
    BY DEF Shutdown, InputStop, WorkerStop, WorkerJoin, rest
  <2>14. Worker => UNCHANGED rest
    BY DEF Worker, WorkerLock, ServiceCall, WorkerReturns, SetStart, SetDone, SetFails,
       ServiceReturn, Timeout, rest
  <2>15. Input => UNCHANGED rest
    BY DEF Input, InputStarts, KeyAdjust, InputEnds, rest
  <2>16. Environment => Connect \/ Signal \/ UNCHANGED rest
    BY DEF Environment, ReadNothing, Key, Hotplug, Osd, rest
  <2>17. \/ Startup \/ Loop \/ Shutdown \/ Worker \/ Input \/ Environment
         \/ UNCHANGED vars
    BY <1>2 DEF Next
  <2> QED
    BY <2>1, <2>2, <2>3, <2>4, <2>5, <2>6, <2>7, <2>8, <2>9, <2>10, <2>11, <2>12, <2>13,
       <2>14, <2>15, <2>16, <2>17
<1>3. C!TypeOK /\ DInv /\ Queue => TypeOK
  BY DEF TypeOK, Queue, DInv, Threads, MainStates, Keys, I!TypeOK, InputCaller
<1> QED
  BY <1>1, <1>2, <1>3, ControllerTypes, DaemonInvariant, PTL DEF Spec

-----------------------------------------------------------------------------
(* No wakeup is lost.                                                      *)

\* What a worker that is about to wait relies on: in a pass that has applied nothing,
\* everything the loop has passed is not due, but for the one that is being written;
\* and no two displays have the same place, so that the loop passes one at a time.
Passed ==
    /\ \A a, b \in DOMAIN displays : a[2] = b[2] => a = b
    /\ NoLostWakeup
    /\ worker = "service" /\ applied = 0 =>
          \A id \in DOMAIN displays \ todo :
              C!dimmer_due(displays[id].dim) => writing # C!NoWrite /\ writing.id = id

LEMMA FreshPlaces ==
    ASSUME NEW broken
    PROVE  \A a, b \in DOMAIN C!ddc_enumerate_sources(broken) : a[2] = b[2] => a = b
<1> DEFINE candidates == {i \in DOMAIN plugged : C!controllable(plugged[i], broken)}
           found == {i \in candidates :
                       C!Cardinality(open) + C!Cardinality({j \in candidates : j < i}) < MaxOpen}
<1>1. DOMAIN C!ddc_enumerate_sources(broken) = {C!id_of(i) : i \in found}
  BY DEF C!ddc_enumerate_sources
<1> HIDE DEF found
<1> QED
  BY <1>1 DEF C!id_of

LEMMA NewIsNotDue == \A m, unread : ~ C!dimmer_due(C!ReadDimmer(m, unread))
  BY DEF C!ReadDimmer, C!dimmer_init, C!dimmer_due

LEMMA SettledIsNotDue ==
    ASSUME NEW dim \in C!DimmerType PROVE ~ C!dimmer_due(C!dimmer_settled(dim))
  BY DEF C!dimmer_settled, C!dimmer_due, C!DimmerType

\* Steps that leave the set and the pass alone, and send nobody to sleep.
LEMMA PassedQuietly ==
    ASSUME Passed, UNCHANGED <<displays, todo, writing, applied>>,
           worker' = "waiting" => worker = "waiting", worker' = "service" => worker = "service"
    PROVE  Passed'
  BY DEF Passed, NoLostWakeup

LEMMA PassedOpen == ASSUME DInv, Passed, init_monitor PROVE Passed'
<1>1. worker = "none" /\ worker' = "none"
  BY DEF init_monitor, Goto, DInv, Threads, Early
<1>2. PICK broken : DOMAIN displays' = DOMAIN C!ddc_enumerate_sources(broken)
  BY DEF init_monitor, C!controller_open
<1> QED
  BY <1>1, <1>2, FreshPlaces DEF Passed, NoLostWakeup

LEMMA PassedReconcile == ASSUME DInv, Passed, Reconcile PROVE Passed'
<1>1. worker # "service" /\ worker' = worker
  BY DEF Reconcile, DInv, Threads
<1>2. PICK broken, unread : C!controller_reconcile(broken, unread)
  BY DEF Reconcile
<1> DEFINE fresh == C!ddc_enumerate_sources(broken)
<1>3. DOMAIN displays' = DOMAIN fresh
  BY <1>2 DEF C!controller_reconcile
<1>4. ASSUME NEW id \in DOMAIN displays'
      PROVE  \/ displays'[id].dim = C!ReadDimmer(fresh[id][1], unread)
             \/ id \in DOMAIN displays /\ displays'[id].dim = displays[id].dim
  BY <1>2, <1>3, <1>4 DEF C!controller_reconcile
<1>5. \A a, b \in DOMAIN displays' : a[2] = b[2] => a = b
  BY <1>3, FreshPlaces
<1>6. worker' = "waiting" => \A id \in DOMAIN displays' : ~ C!dimmer_due(displays'[id].dim)
  BY <1>1, <1>4, NewIsNotDue DEF Passed, NoLostWakeup
<1> QED
  BY <1>1, <1>5, <1>6 DEF Passed, NoLostWakeup

LEMMA PassedAdjust ==
    ASSUME DInv, Passed, NEW direction, adjust_fraction(direction)
    PROVE  Passed'
<1>1. worker' \notin {"waiting", "service"}
  BY DEF adjust_fraction, Woken, DInv, Threads
<1>2. DOMAIN displays' = DOMAIN displays
  BY DEF adjust_fraction, C!controller_adjust
<1> QED
  BY <1>1, <1>2 DEF Passed, NoLostWakeup

LEMMA PassedRelease == ASSUME DInv, Passed, Release PROVE Passed'
<1>1. worker' \in {"none", "done"}
  BY DEF Release, Goto, DInv, Threads
<1>2. DOMAIN displays' = {}
  BY DEF Release, C!controller_close
<1> QED
  BY <1>1, <1>2 DEF Passed, NoLostWakeup

LEMMA PassedStart == ASSUME C!TypeOK, Passed, SetStart PROVE Passed'
<1>1. PICK id \in todo : C!SetStart(id)
  BY DEF SetStart
<1>2. worker' = "service" /\ UNCHANGED <<displays, applied>>
  BY <1>1 DEF SetStart, C!SetStart, C!set
<1>3. id \in DOMAIN displays /\ writing' # C!NoWrite /\ writing'.id = id
  <2>1. id \in DOMAIN displays /\ id # <<>>
    BY <1>1 DEF C!TypeOK, C!Ids
  <2> QED
    BY <1>1, <2>1 DEF C!SetStart, C!NoWrite
<1>4. ASSUME NEW other \in DOMAIN displays \ todo', C!dimmer_due(displays[other].dim)
      PROVE  other = id \/ other \notin todo
  <2>1. CASE other \in todo
    <3>1. other[2] \in Int /\ id[2] \in Int
      BY <1>3 DEF C!TypeOK, C!Ids
    <3>2. id[2] <= other[2] /\ ~ other[2] > id[2]
      BY <1>1, <1>4, <2>1 DEF C!SetStart, C!NextDue
    <3>3. other[2] = id[2]
      BY <3>1, <3>2
    <3> QED
      BY <1>3, <1>4, <3>3 DEF Passed
  <2> QED
    BY <2>1
<1>5. writing = C!NoWrite
  BY <1>1 DEF C!SetStart
<1>6. applied = 0 => \A other \in DOMAIN displays \ todo' :
                        C!dimmer_due(displays[other].dim) => other = id
  BY <1>4, <1>5 DEF Passed, SetStart
<1> QED
  BY <1>2, <1>3, <1>6 DEF Passed, NoLostWakeup

LEMMA PassedDone == ASSUME DInv, C!TypeOK, Passed, SetDone PROVE Passed'
<1>1. worker' = "service" /\ applied' # 0
  BY DEF SetDone, C!SetDone, DInv, Threads
<1>2. DOMAIN displays' = DOMAIN displays
  BY DEF SetDone, C!SetDone
<1> QED
  BY <1>1, <1>2 DEF Passed, NoLostWakeup

LEMMA PassedFails == ASSUME C!TypeOK, C!HandlesValid, Passed, SetFails PROVE Passed'
<1>1. worker = "service" /\ worker' = "service" /\ UNCHANGED <<todo, applied>>
  BY DEF SetFails, C!SetFails
<1>2. writing.id \in DOMAIN displays /\ displays[writing.id].dim \in C!DimmerType
  BY DEF SetFails, C!HandlesValid, C!TypeOK, C!Entry
<1>3. DOMAIN displays' = DOMAIN displays
  BY DEF SetFails, C!SetFails
<1>4. displays'[writing.id].dim = C!dimmer_settled(displays[writing.id].dim)
  BY <1>2 DEF SetFails, C!SetFails, C!TypeOK, C!Entry
<1>5. \A id \in DOMAIN displays : id # writing.id => displays'[id] = displays[id]
  BY DEF SetFails, C!SetFails
<1>6. applied = 0 => \A id \in DOMAIN displays \ todo : ~ C!dimmer_due(displays'[id].dim)
  BY <1>1, <1>2, <1>4, <1>5, SettledIsNotDue DEF Passed
<1> QED
  BY <1>1, <1>3, <1>6 DEF Passed, NoLostWakeup

\* The worker waits only after a pass that applied nothing.
LEMMA PassedReturn == ASSUME DInv, Passed, ServiceReturn PROVE Passed'
<1>1. UNCHANGED displays /\ worker' \in {"while", "waiting"}
  BY DEF ServiceReturn, C!ServiceReturn, C!set
<1>2. worker' = "waiting" => applied = 0 /\ worker = "service"
  BY DEF ServiceReturn, DInv, Threads
<1>3. writing = C!NoWrite /\ \A id \in todo : ~ C!dimmer_due(displays[id].dim)
  BY DEF ServiceReturn, C!ServiceReturn
<1>4. worker' = "waiting" => \A id \in DOMAIN displays : ~ C!dimmer_due(displays[id].dim)
  BY <1>2, <1>3 DEF Passed
<1> QED
  BY <1>1, <1>4 DEF Passed, NoLostWakeup

LEMMA PassedStep == ASSUME DInv, C!TypeOK, C!HandlesValid, Passed, Next PROVE Passed'
<1>1. CASE AccessControl
  BY <1>1, PassedQuietly DEF AccessControl, control
<1>2. CASE init_monitor
  BY <1>2, PassedOpen
<1>3. CASE StartupReturns
  BY <1>3, PassedQuietly DEF StartupReturns, control
<1>4. CASE CreateWorker
  BY <1>4, PassedQuietly DEF CreateWorker, control
<1>5. CASE InputStart
  BY <1>5, PassedQuietly DEF InputStart, control
<1>6. CASE Bind
  BY <1>6, PassedQuietly DEF Bind, control
<1>7. CASE StartupFails
  BY <1>7, PassedQuietly DEF StartupFails, control
<1>8. CASE While
  BY <1>8, PassedQuietly DEF While, control
<1>9. CASE IdleTick
  BY <1>9, PassedQuietly DEF IdleTick, control
<1>10. CASE Reconcile
  BY <1>10, PassedReconcile
<1>11. CASE Accept
  BY <1>11, PassedQuietly DEF Accept, control
<1>12. CASE AcceptFails
  BY <1>12, PassedQuietly DEF AcceptFails, control
<1>13. CASE ReadCommand
  BY <1>13, PassedQuietly DEF ReadCommand, parse_command, control
<1>14. CASE Adjust
  BY <1>14, PassedAdjust DEF Adjust
<1>15. CASE Cleanup
  BY <1>15, PassedQuietly DEF Cleanup, control
<1>16. CASE InputStop
  BY <1>16, PassedQuietly DEF InputStop, control
<1>17. CASE WorkerStop
  BY <1>17, PassedQuietly DEF WorkerStop, Woken, control
<1>18. CASE WorkerJoin
  BY <1>18, PassedQuietly DEF WorkerJoin, control
<1>19. CASE Release
  BY <1>19, PassedRelease
<1>20. CASE WorkerLock
  BY <1>20, PassedQuietly DEF WorkerLock, control
<1>21. CASE ServiceCall
  <2>1. worker' = "service" /\ todo' = DOMAIN displays /\ UNCHANGED displays
    BY <1>21 DEF ServiceCall, C!ServiceCall, C!set
  <2> QED
    BY <2>1 DEF Passed, NoLostWakeup
<1>22. CASE WorkerReturns
  BY <1>22, PassedQuietly DEF WorkerReturns, control
<1>23. CASE SetStart
  BY <1>23, PassedStart
<1>24. CASE SetDone
  BY <1>24, PassedDone
<1>25. CASE SetFails
  BY <1>25, PassedFails
<1>26. CASE ServiceReturn
  BY <1>26, PassedReturn
<1>27. CASE Timeout
  BY <1>27, PassedQuietly DEF Timeout, control
<1>28. CASE InputStarts
  BY <1>28, PassedQuietly DEF InputStarts, control
<1>29. CASE KeyAdjust
  BY <1>29, PassedAdjust DEF KeyAdjust
<1>30. CASE InputEnds
  BY <1>30, PassedQuietly DEF InputEnds, control
<1>31. CASE ReadNothing
  BY <1>31, PassedQuietly DEF ReadNothing, control
<1>32. CASE Key
  BY <1>32, PassedQuietly DEF Key, control
<1>33. CASE Connect
  BY <1>33, PassedQuietly DEF Connect, control
<1>34. CASE Signal
  BY <1>34, PassedQuietly DEF Signal, control
<1>35. CASE Hotplug
  BY <1>35, PassedQuietly DEF Hotplug, C!Hotplug, C!set, C!pass
<1>36. CASE Osd
  BY <1>36, PassedQuietly DEF Osd, C!Osd, C!set, C!pass
<1> QED
  BY <1>1, <1>2, <1>3, <1>4, <1>5, <1>6, <1>7, <1>8, <1>9, <1>10, <1>11, <1>12, <1>13,
     <1>14, <1>15, <1>16, <1>17, <1>18, <1>19, <1>20, <1>21, <1>22, <1>23, <1>24, <1>25, <1>26,
     <1>27, <1>28, <1>29, <1>30, <1>31, <1>32, <1>33, <1>34, <1>35, <1>36 DEF Next, Startup,
     Loop, Shutdown, Worker, Input, Environment

\* "Presses wake the worker immediately": a worker that waits has nothing to write,
\* whoever pressed, and whatever was plugged in meanwhile.
THEOREM NoWakeupIsLost == Spec => []NoLostWakeup
<1>1. Init => Passed
  BY DEF Init, C!Init, Passed, NoLostWakeup
<1>2. DInv /\ C!TypeOK /\ C!HandlesValid /\ Passed /\ [Next]_vars => Passed'
  <2>1. Passed /\ UNCHANGED vars => Passed'
    BY PassedQuietly DEF vars, control
  <2> QED
    BY <2>1, PassedStep
<1>3. Passed => NoLostWakeup
  BY DEF Passed
<1>4. HandlesValid => C!HandlesValid
  BY DEF HandlesValid
<1> QED
  BY <1>1, <1>2, <1>3, <1>4, DaemonInvariant, ControllerTypes, HandlesStayValid, PTL DEF Spec

-----------------------------------------------------------------------------
(* The owner of the key thread.                                            *)

LEMMA OwnerStep == ASSUME DInv, Next PROVE I!Next \/ UNCHANGED I!vars
<1>1. CASE AccessControl
  BY <1>1 DEF AccessControl, Goto, InputCaller, I!vars, I!thread, thread
<1>2. CASE init_monitor
  BY <1>2 DEF init_monitor, Goto, InputCaller, I!vars, I!thread, thread
<1>3. CASE StartupReturns
  BY <1>3 DEF StartupReturns, InputCaller, I!vars, I!thread, thread, I!Next, I!Goto
<1>4. CASE CreateWorker
  BY <1>4 DEF CreateWorker, Goto, InputCaller, I!vars, I!thread, thread, I!Next, I!Goto
<1>5. CASE InputStart
  BY <1>5 DEF InputStart, Goto, InputCaller, I!vars, I!thread, thread, I!Next, I!Goto
<1>6. CASE Bind
  BY <1>6 DEF Bind, Goto, InputCaller, I!vars, I!thread, thread
<1>7. CASE StartupFails
  BY <1>7 DEF StartupFails, InputCaller, I!vars, I!thread, thread, I!Next, I!Goto
<1>8. CASE While
  BY <1>8 DEF While, InputCaller, I!vars, I!thread, thread
<1>9. CASE IdleTick
  BY <1>9 DEF IdleTick, Goto, InputCaller, I!vars, I!thread, thread
<1>10. CASE Reconcile
  BY <1>10 DEF Reconcile, Goto, InputCaller, I!vars, I!thread, thread
<1>11. CASE Accept
  BY <1>11 DEF Accept, InputCaller, I!vars, I!thread, thread
<1>12. CASE AcceptFails
  BY <1>12 DEF AcceptFails, InputCaller, I!vars, I!thread, thread
<1>13. CASE ReadCommand
  BY <1>13 DEF ReadCommand, InputCaller, I!vars, I!thread, thread
<1>14. CASE Adjust
  BY <1>14 DEF Adjust, Goto, InputCaller, I!vars, I!thread, thread
<1>15. CASE Cleanup
  BY <1>15 DEF Cleanup, Goto, InputCaller, I!vars, I!thread, thread
<1>16. CASE InputStop
  BY <1>16 DEF InputStop, Goto, InputCaller, I!vars, I!thread, thread, I!Next, I!Goto
<1>17. CASE WorkerStop
  BY <1>17 DEF WorkerStop, Goto, InputCaller, I!vars, I!thread, thread
<1>18. CASE WorkerJoin
  BY <1>18 DEF WorkerJoin, Goto, InputCaller, I!vars, I!thread, thread
<1>19. CASE Release
  BY <1>19 DEF Release, Goto, InputCaller, I!vars, I!thread, thread
<1>20. CASE WorkerLock
  BY <1>20 DEF WorkerLock, InputCaller, I!vars, I!thread, thread
<1>21. CASE ServiceCall
  BY <1>21 DEF ServiceCall, InputCaller, I!vars, I!thread, thread
<1>22. CASE WorkerReturns
  BY <1>22 DEF WorkerReturns, InputCaller, I!vars, I!thread, thread
<1>23. CASE SetStart
  BY <1>23 DEF SetStart, InputCaller, I!vars, I!thread, thread
<1>24. CASE SetDone
  BY <1>24 DEF SetDone, InputCaller, I!vars, I!thread, thread
<1>25. CASE SetFails
  BY <1>25 DEF SetFails, InputCaller, I!vars, I!thread, thread
<1>26. CASE ServiceReturn
  BY <1>26 DEF ServiceReturn, InputCaller, I!vars, I!thread, thread
<1>27. CASE Timeout
  BY <1>27 DEF Timeout, InputCaller, I!vars, I!thread, thread
<1>28. CASE InputStarts
  BY <1>28 DEF InputStarts, InputCaller, I!vars, I!thread, thread, I!Next, I!Goto, I!Thread
<1>29. CASE KeyAdjust
  BY <1>29 DEF KeyAdjust, InputCaller, I!vars, I!thread, thread, I!Next, I!Goto, I!Thread
<1>30. CASE InputEnds
  BY <1>30 DEF InputEnds, InputCaller, I!vars, I!thread, thread, I!Next, I!Goto, I!Thread
<1>31. CASE ReadNothing
  BY <1>31 DEF ReadNothing, Goto, InputCaller, I!vars, I!thread, thread
<1>32. CASE Key
  BY <1>32 DEF Key, InputCaller, I!vars, I!thread, thread, I!Next, I!Goto, I!Thread
<1>33. CASE Connect
  BY <1>33 DEF Connect, InputCaller, I!vars, I!thread, thread
<1>34. CASE Signal
  BY <1>34 DEF Signal, InputCaller, I!vars, I!thread, thread
<1>35. CASE Hotplug
  BY <1>35 DEF Hotplug, InputCaller, I!vars, I!thread, thread
<1>36. CASE Osd
  BY <1>36 DEF Osd, InputCaller, I!vars, I!thread, thread
<1> QED
  BY <1>1, <1>2, <1>3, <1>4, <1>5, <1>6, <1>7, <1>8, <1>9, <1>10, <1>11, <1>12, <1>13,
     <1>14, <1>15, <1>16, <1>17, <1>18, <1>19, <1>20, <1>21, <1>22, <1>23, <1>24, <1>25, <1>26,
     <1>27, <1>28, <1>29, <1>30, <1>31, <1>32, <1>33, <1>34, <1>35, <1>36 DEF Next, Startup,
     Loop, Shutdown, Worker, Input, Environment

\* The daemon starts the key thread once and stops it once, each call to its end,
\* whichever way it leaves its startup.
THEOREM OwnsTheKeyThread == Spec => IsInputThread
<1>1. Init => I!Init
  BY DEF Init, I!Init, InputCaller
<1>2. DInv /\ [Next]_vars => [I!Next]_(I!vars)
  <2>1. UNCHANGED vars => UNCHANGED I!vars
    BY DEF vars, thread, I!vars, I!thread, InputCaller
  <2> QED
    BY <2>1, OwnerStep
<1> QED
  BY <1>1, <1>2, DaemonInvariant, PTL DEF Spec, IsInputThread, I!Spec

=============================================================================
