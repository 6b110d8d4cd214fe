----------------------------- MODULE Lifecycle -----------------------------
(***************************************************************************)
(* Runs of dimmitd and what they leave in the file system: one daemon that *)
(* a service manager keeps running, others started by hand, all on one     *)
(* socket path; failures of startup, signals, kills and restarts.          *)
(*                                                                         *)
(* A run is reduced to how far its main has come with the socket; what it  *)
(* does besides is the business of modules Daemon and Conversation.        *)
(***************************************************************************)
EXTENDS Integers, FiniteSets

CONSTANTS
  Daemons,     \* who may run dimmitd
  Service,     \* the one of the service manager
  Systems,     \* of "linux", "bsd" (macOS, NetBSD) and "windows"
  Policies,    \* of "always" (launchd), "on-failure" (systemd), "never" (rc.d)
  Users,       \* accounts that runs of dimmitd may belong to
  Root,        \* the one that may remove anybody's file
  MaxFaults,   \* failures, signals and kills of all runs together
  MaxRuns      \* runs started by hand

ASSUME ServiceAssumption == Service \in Daemons
ASSUME NamesAssumption == {"nothing", "stale"} \cap Daemons = {}
ASSUME BoundsAssumption == MaxFaults \in Nat /\ MaxRuns \in Nat

VARIABLES
  system, policy,   \* never change ...
  user,        \* ... nor does user[d], the account of d
  state,       \* state[d]: how far main of d has come, or how it ended
  running,     \* running[d]: the flag that the signal handler clears
  bound,       \* bound[d]: the local variable of main
  path,        \* the daemon whose socket the path leads to, "nothing" or "stale"
  owner,       \* the account that the file at the path belongs to
  wanted,      \* the service is meant to run
  met,         \* met[d]: the daemons that ran at some time of d's run
  faults, runs

fixed == <<system, policy, user>>
file == <<path, owner>>
counts == <<faults, runs>>
vars == <<fixed, state, running, bound, file, wanted, met, counts>>

\* "terminated" is a death by SIGTERM or SIGINT, "killed" any other violent one.
Ended == {"down", "exit 0", "exit 1", "killed", "terminated"}
Alive(d) == state[d] \notin Ended

Fault == faults < MaxFaults /\ faults' = faults + 1 /\ UNCHANGED runs

Goto(d, from, to) == state[d] = from /\ state' = [state EXCEPT ![d] = to]

-----------------------------------------------------------------------------
(* The life of a process.                                                  *)

\* A new run; the socket of an old one stays behind.
Begin(d) ==
    /\ state' = [state EXCEPT ![d] = "starting"]
    /\ running' = [running EXCEPT ![d] = TRUE]
    /\ bound' = [bound EXCEPT ![d] = FALSE]
    /\ path' = IF path = d THEN "stale" ELSE path
    /\ met' = [e \in Daemons |->
                  IF e = d THEN {other \in Daemons \ {d} : Alive(other)}
                  ELSE IF Alive(e) THEN met[e] \cup {d} ELSE met[e]]
    /\ UNCHANGED <<fixed, owner, wanted>>

StartByHand(d) ==
    /\ d # Service
    /\ ~ Alive(d)
    /\ runs < MaxRuns
    /\ runs' = runs + 1
    /\ UNCHANGED faults
    /\ Begin(d)

\* What the manager does about a run that ended: systemd takes SIGTERM and SIGINT for
\* a clean end, as it does status 0.
RestartDue ==
    \/ state[Service] = "down"
    \/ policy = "always"
    \/ policy = "on-failure" /\ state[Service] \in {"exit 1", "killed"}

Restart ==
    /\ wanted
    /\ ~ Alive(Service)
    /\ RestartDue
    /\ UNCHANGED counts
    /\ Begin(Service)

\* Windows takes the socket away with the process.
Dies(d, how) ==
    /\ state' = [state EXCEPT ![d] = how]
    /\ path' = IF system = "windows" /\ path = d THEN "nothing" ELSE path
    /\ UNCHANGED <<fixed, running, bound, owner, wanted, met>>

\* A crash, or a signal nobody can handle.
Kill(d) == Alive(d) /\ Fault /\ Dies(d, "killed")

\* SIGINT or SIGTERM, which nobody handles at first.  With _POSIX_C_SOURCE and no more,
\* signal of the C library of Linux handles the first one of each kind only.
Signal(d) ==
    /\ Alive(d)
    /\ Fault
    /\ \/ /\ running' = [running EXCEPT ![d] = FALSE]
          /\ UNCHANGED <<fixed, state, bound, file, wanted, met>>
       \/ /\ state[d] = "starting" \/ (system = "linux" /\ ~ running[d])
          /\ Dies(d, "terminated")

\* The manager is told to stop the service.
StopService ==
    /\ wanted
    /\ wanted' = FALSE
    /\ running' = [running EXCEPT ![Service] = FALSE]
    /\ UNCHANGED <<fixed, state, bound, file, met, counts>>

-----------------------------------------------------------------------------
(* main.                                                                   *)

\* (A faulty main returns what the failed call returned.)
returns_minus_one(d) ==
    /\ Goto(d, "starting", "exit -1")
    /\ Fault
    /\ UNCHANGED <<fixed, running, bound, file, wanted, met>>

\* access_control_before_bind or init_monitor fails: return 1.
StartupReturns(d) ==
    /\ Goto(d, "starting", "exit 1")
    /\ Fault
    /\ UNCHANGED <<fixed, running, bound, file, wanted, met>>

\* Later failures -- of pthread_create, socket, bind, listen and accept -- go to
\* cleanup.
Fails(d) ==
    /\ \E from \in {"starting", "unlinked", "bound", "listening"} : Goto(d, from, "cleanup")
    /\ Fault
    /\ UNCHANGED <<fixed, running, bound, file, wanted, met>>

\* A faulty startup trusts that the last run took its socket away.
leaves_stale(d) ==
    /\ Goto(d, "starting", "unlinked")
    /\ UNCHANGED <<fixed, running, bound, file, wanted, met, counts>>

\* The directory (/tmp) is sticky: a file can be removed by its owner and by Root.
MayUnlink(d) == path = "nothing" \/ user[d] \in {Root, owner}
Unlinked(d) == IF MayUnlink(d) THEN "nothing" ELSE path

\* Nobody looks at what unlink returns.
Unlink(d) ==
    /\ Goto(d, "starting", "unlinked")
    /\ path' = Unlinked(d)
    /\ UNCHANGED <<fixed, running, bound, owner, wanted, met, counts>>

\* A faulty order: what is unlinked is the socket just bound.
binds_first(d) ==
    /\ Goto(d, "unlinked", "bound")
    /\ path = "nothing"
    /\ bound' = [bound EXCEPT ![d] = TRUE]
    /\ UNCHANGED <<fixed, running, file, wanted, met, counts>>

Bind(d) ==
    /\ Goto(d, "unlinked", "bound")
    /\ path = "nothing"
    /\ path' = d
    /\ owner' = user[d]
    /\ bound' = [bound EXCEPT ![d] = TRUE]
    /\ UNCHANGED <<fixed, running, wanted, met, counts>>

\* Somebody else was quicker, or the old file is still there: EADDRINUSE.
BindTaken(d) ==
    /\ Goto(d, "unlinked", "cleanup")
    /\ path # "nothing"
    /\ UNCHANGED <<fixed, running, bound, file, wanted, met, counts>>

Listen(d) ==
    /\ Goto(d, "bound", "listening")
    /\ UNCHANGED <<fixed, running, bound, file, wanted, met, counts>>

LoopEnds(d) ==
    /\ Goto(d, "listening", "cleanup")
    /\ ~ running[d]
    /\ UNCHANGED <<fixed, running, bound, file, wanted, met, counts>>

\* A faulty cleanup leaves the socket.
cleanup_keeps(d) ==
    /\ Goto(d, "cleanup", "exit 0")
    /\ UNCHANGED <<fixed, running, bound, file, wanted, met, counts>>

\* The path is unlinked whoever's socket it leads to, and main returns 0.
Cleanup(d) ==
    /\ Goto(d, "cleanup", "exit 0")
    /\ running' = [running EXCEPT ![d] = FALSE]
    /\ path' = IF bound[d] THEN Unlinked(d) ELSE path
    /\ UNCHANGED <<fixed, bound, owner, wanted, met, counts>>

-----------------------------------------------------------------------------

Init ==
    /\ system \in Systems
    /\ policy \in Policies
    /\ user \in [Daemons -> Users]
    /\ state = [d \in Daemons |-> "down"]
    /\ running = [d \in Daemons |-> TRUE]
    /\ bound = [d \in Daemons |-> FALSE]
    /\ path \in {"nothing", "stale"}
    /\ owner \in Users
    /\ wanted = TRUE
    /\ met = [d \in Daemons |-> {}]
    /\ faults = 0
    /\ runs = 0

Main(d) == Unlink(d) \/ Bind(d) \/ BindTaken(d) \/ Listen(d) \/ LoopEnds(d) \/ Cleanup(d)

Next ==
    \/ Restart
    \/ StopService
    \/ \E d \in Daemons : Main(d)
    \/ \E d \in Daemons : StartByHand(d)
    \/ \E d \in Daemons : Kill(d)
    \/ \E d \in Daemons : Signal(d)
    \/ \E d \in Daemons : StartupReturns(d)
    \/ \E d \in Daemons : Fails(d)

\* Processes are scheduled and the manager does its work.
Fairness == WF_vars(Restart) /\ \A d \in Daemons : WF_vars(Main(d))

Spec == Init /\ [][Next]_vars

FairSpec == Spec /\ Fairness

-----------------------------------------------------------------------------
(* Properties.                                                             *)

TypeOK ==
    /\ state \in [Daemons -> Ended \cup {"starting", "unlinked", "bound", "listening", "cleanup"}]
    /\ running \in [Daemons -> BOOLEAN]
    /\ bound \in [Daemons -> BOOLEAN]
    /\ path \in Daemons \cup {"nothing", "stale"}
    /\ wanted \in BOOLEAN
    /\ user \in [Daemons -> Users] /\ owner \in Users
    /\ met \in [Daemons -> SUBSET Daemons]

Alone(d) == met[d] = {}

\* A daemon that never ran beside another one is reached by its clients, whatever
\* its predecessors left behind.
ReachedWhenAlone == \A d \in Daemons : state[d] = "listening" /\ Alone(d) => path = d

\* Only a run that died leaves its socket behind, and none does on Windows: every
\* error path goes through the cleanup, and what a run has bound is its own to remove.
OnlyKilledLeaveSockets ==
    \A d \in Daemons : path = d /\ ~ Alive(d) =>
        state[d] \in {"killed", "terminated"} /\ system # "windows"

\* A service that is not disturbed by others comes back from every fault that its
\* policy restarts it after, unless the path is taken by a file that it may not remove:
\* then it fails at every restart (or once and for all).
ServiceComesBack ==
    <>[](wanted /\ Alone(Service) /\ MayUnlink(Service) /\ (Alive(Service) \/ RestartDue))
        => <>[](state[Service] = "listening" /\ path = Service)
=============================================================================
