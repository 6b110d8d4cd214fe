-------------------------- MODULE LifecycleProofs --------------------------
(***************************************************************************)
(* Whose socket a path leads to, for any daemons and any number of runs,   *)
(* failures, signals and kills.                                            *)
(***************************************************************************)
EXTENDS Lifecycle, TLAPS

-----------------------------------------------------------------------------
(* The invariant.                                                          *)

Places == Ended \cup {"starting", "unlinked", "bound", "listening", "cleanup"}

\* Runs that are alive together know of each other.
Acquainted ==
    \A d, e \in Daemons : d # e /\ Alive(d) /\ Alive(e) => e \in met[d]

\* The path leads to a daemon that has bound it, to whom the file belongs, and who has
\* not cleaned up.
Owned ==
    \A d \in Daemons :
        /\ state[d] \in {"bound", "listening"} => bound[d]
        /\ bound[d] => state[d] \in {"bound", "listening", "cleanup", "exit 0", "killed", "terminated"}
        /\ path = d => bound[d] /\ owner = user[d]

\* Nobody comes between a daemon that is alone and its path.
Undisturbed ==
    \A d \in Daemons : Alone(d) /\ state[d] \in {"bound", "listening"} => path = d

IInv == TypeOK /\ Acquainted /\ Owned /\ Undisturbed /\ OnlyKilledLeaveSockets

LEMMA Initially == Init => IInv
<1> SUFFICES ASSUME Init PROVE IInv
  OBVIOUS
<1>1. path \in {"nothing", "stale"} /\ \A d \in Daemons : path # d
  BY NamesAssumption DEF Init
<1>2. \A d \in Daemons : state[d] = "down" /\ ~ bound[d] /\ ~ Alive(d)
  BY DEF Init, Alive, Ended
<1>3. TypeOK
  BY DEF Init, TypeOK, Ended
<1> QED
  BY <1>1, <1>2, <1>3 DEF IInv, Acquainted, Owned, Undisturbed, OnlyKilledLeaveSockets

-----------------------------------------------------------------------------
(* Steps.                                                                  *)

\* A run that starts meets all that are alive, and leaves its old socket behind.
LEMMA Begins ==
    ASSUME IInv, NEW d \in Daemons, ~ Alive(d), Begin(d)
    PROVE  IInv'
<1>1. /\ state' = [state EXCEPT ![d] = "starting"]
      /\ bound' = [bound EXCEPT ![d] = FALSE]
      /\ path' = IF path = d THEN "stale" ELSE path
      /\ system' = system /\ user' = user /\ owner' = owner
  BY DEF Begin, fixed
<1>2. \A e \in Daemons :
        met'[e] = IF e = d THEN {other \in Daemons \ {d} : Alive(other)}
                  ELSE IF Alive(e) THEN met[e] \cup {d} ELSE met[e]
  BY DEF Begin
<1>3. TypeOK'
  <2>1. met' \in [Daemons -> SUBSET Daemons]
    BY DEF Begin, IInv, TypeOK
  <2>2. /\ running' \in [Daemons -> BOOLEAN] /\ wanted' \in BOOLEAN
    BY DEF Begin, IInv, TypeOK
  <2> QED
    BY <1>1, <2>1, <2>2 DEF IInv, TypeOK, Ended
<1>4. Alive(d)' /\ \A e \in Daemons \ {d} : Alive(e)' <=> Alive(e)
  BY <1>1 DEF IInv, TypeOK, Alive, Ended
<1>5. Acquainted'
  BY <1>2, <1>4 DEF IInv, Acquainted
<1>6. Owned'
  BY <1>1, NamesAssumption DEF IInv, TypeOK, Owned
<1>7. Undisturbed'
  BY <1>1, <1>2, <1>4 DEF IInv, TypeOK, Undisturbed, Alone, Alive, Ended
<1>8. OnlyKilledLeaveSockets'
  BY <1>1, <1>4, NamesAssumption DEF IInv, TypeOK, OnlyKilledLeaveSockets
<1> QED
  BY <1>3, <1>5, <1>6, <1>7, <1>8 DEF IInv

LEMMA Ends ==
    ASSUME IInv, NEW d \in Daemons, Alive(d),
           NEW how \in {"killed", "terminated"}, Dies(d, how)
    PROVE  IInv'
<1>1. /\ state' = [state EXCEPT ![d] = how]
      /\ path' = IF system = "windows" /\ path = d THEN "nothing" ELSE path
      /\ system' = system /\ user' = user /\ owner' = owner
      /\ running' = running /\ bound' = bound
      /\ wanted' = wanted /\ met' = met
  BY DEF Dies, fixed
<1>2. ~ Alive(d)' /\ \A e \in Daemons \ {d} : Alive(e)' <=> Alive(e)
  BY <1>1 DEF IInv, TypeOK, Alive, Ended
<1>3. TypeOK'
  BY <1>1 DEF IInv, TypeOK, Ended
<1>4. Acquainted'
  BY <1>1, <1>2 DEF IInv, Acquainted
<1>5. Owned'
  BY <1>1, NamesAssumption DEF IInv, TypeOK, Owned
<1>6. Undisturbed'
  BY <1>1 DEF IInv, TypeOK, Undisturbed, Alone
<1>7. OnlyKilledLeaveSockets'
  BY <1>1, <1>2, NamesAssumption DEF IInv, TypeOK, OnlyKilledLeaveSockets
<1> QED
  BY <1>3, <1>4, <1>5, <1>6, <1>7 DEF IInv

\* main of one daemon goes on; whatever it does to the path, no other one that is alive
\* is alone.
LEMMA Proceeds ==
    ASSUME IInv, NEW d \in Daemons,
           Main(d) \/ StartupReturns(d) \/ Fails(d)
    PROVE  IInv'
<1>1. /\ UNCHANGED <<fixed, wanted, met>>
      /\ Alive(d)
  BY DEF IInv, TypeOK, Alive, Ended, Main, Unlink, Bind, BindTaken, Listen, LoopEnds, Cleanup,
     StartupReturns, Fails, Goto
<1>2. PICK to \in Places : state' = [state EXCEPT ![d] = to]
  BY DEF Places, Ended, Main, Unlink, Bind, BindTaken, Listen, LoopEnds, Cleanup,
     StartupReturns, Fails, Goto
<1> USE DEF file, fixed
<1>3. /\ bound' \in [Daemons -> BOOLEAN]
      /\ path' \in Daemons \cup {"nothing", "stale"}
      /\ \A e \in Daemons \ {d} : bound'[e] = bound[e] /\ (path' = e => path = e)
  BY NamesAssumption DEF IInv, TypeOK, Main, Unlink, Unlinked, Bind, BindTaken, Listen, LoopEnds, Cleanup,
     StartupReturns, Fails, Goto
<1>3a. /\ running' \in [Daemons -> BOOLEAN]
       /\ owner' \in Users
  <2>1. running' = running \/ running' = [running EXCEPT ![d] = FALSE]
    BY DEF Main, Unlink, Bind, BindTaken, Listen, LoopEnds, Cleanup, StartupReturns, Fails
  <2>2. owner' = owner \/ owner' = user[d]
    BY DEF Main, Unlink, Bind, BindTaken, Listen, LoopEnds, Cleanup, StartupReturns, Fails
  <2>3. running' \in [Daemons -> BOOLEAN]
    BY <2>1 DEF IInv, TypeOK
  <2>4. owner' \in Users
    BY <2>2 DEF IInv, TypeOK
  <2> QED
    BY <2>3, <2>4
<1>3b. \A e \in Daemons \ {d} : path' = e => owner' = owner
  BY NamesAssumption DEF Main, Unlink, Bind, BindTaken, Listen, LoopEnds, Cleanup,
     StartupReturns, Fails, Goto
<1>4. TypeOK'
  BY <1>1, <1>2, <1>3, <1>3a DEF IInv, TypeOK, Places
<1>5. \A e \in Daemons \ {d} : state'[e] = state[e]
  BY <1>2 DEF IInv, TypeOK
<1>6. \A e \in Daemons : Alive(e)' => Alive(e)
  BY <1>1, <1>5 DEF Alive
<1>7. Acquainted'
  BY <1>1, <1>6 DEF IInv, Acquainted
<1>8. /\ state'[d] \in {"bound", "listening"} => bound'[d]
      /\ bound'[d] => state'[d] \in {"bound", "listening", "cleanup", "exit 0", "killed", "terminated"}
      /\ path' = d => bound'[d] /\ owner' = user[d]
      /\ path' = d => Alive(d)'
      /\ Alone(d) /\ state'[d] \in {"bound", "listening"} => path' = d
  BY NamesAssumption DEF IInv, TypeOK, Owned, Undisturbed, Alive, Ended, Main, Unlink, Unlinked,
     MayUnlink, Bind, BindTaken, Listen, LoopEnds, Cleanup, StartupReturns, Fails, Goto
<1>9. Owned'
  BY <1>1, <1>3, <1>5, <1>8, <1>3b DEF IInv, Owned
<1>10. \A e \in Daemons \ {d} : Alone(e) => ~ Alive(e)
  BY <1>1 DEF IInv, Acquainted, Alone
<1>11. Undisturbed'
  BY <1>1, <1>5, <1>8, <1>10 DEF Undisturbed, Alone, Alive, Ended
<1>12. OnlyKilledLeaveSockets'
  BY <1>1, <1>3, <1>5, <1>8 DEF IInv, OnlyKilledLeaveSockets, Alive, fixed
<1> QED
  BY <1>4, <1>7, <1>9, <1>11, <1>12 DEF IInv

LEMMA Flagged ==
    ASSUME IInv, UNCHANGED <<fixed, state, bound, file, met>>,
           running' \in [Daemons -> BOOLEAN], wanted' \in BOOLEAN
    PROVE  IInv'
  BY DEF IInv, TypeOK, Acquainted, Owned, Undisturbed, OnlyKilledLeaveSockets, Alive, Alone,
     fixed, file

LEMMA Inductive == IInv /\ [Next]_vars => IInv'
<1> SUFFICES ASSUME IInv, [Next]_vars PROVE IInv'
  OBVIOUS
<1>1. CASE Restart
  BY <1>1, Begins, ServiceAssumption DEF Restart
<1>2. CASE StopService
  BY <1>2, Flagged DEF StopService, IInv, TypeOK
<1>3. ASSUME NEW d \in Daemons, Main(d) PROVE IInv'
  BY <1>3, Proceeds
<1>4. ASSUME NEW d \in Daemons, StartByHand(d) PROVE IInv'
  BY <1>4, Begins DEF StartByHand
<1>5. ASSUME NEW d \in Daemons, Kill(d) PROVE IInv'
  BY <1>5, Ends DEF Kill
<1>6. ASSUME NEW d \in Daemons, Signal(d) PROVE IInv'
  <2>1. CASE Dies(d, "terminated")
    BY <1>6, <2>1, Ends DEF Signal
  <2>2. CASE running' = [running EXCEPT ![d] = FALSE] /\ UNCHANGED <<fixed, state, bound, file, wanted, met>>
    BY <2>2, Flagged DEF IInv, TypeOK
  <2> QED
    BY <1>6, <2>1, <2>2 DEF Signal
<1>7. ASSUME NEW d \in Daemons, StartupReturns(d) \/ Fails(d) PROVE IInv'
  BY <1>7, Proceeds
<1>8. CASE UNCHANGED vars
  BY <1>8, Flagged DEF vars, IInv, TypeOK
<1> QED
  BY <1>1, <1>2, <1>3, <1>4, <1>5, <1>6, <1>7, <1>8 DEF Next

\* The invariant holds of every behaviour.
LEMMA Invariant == Spec => []IInv
  BY Initially, Inductive, PTL DEF Spec

-----------------------------------------------------------------------------
(* The theorems.                                                           *)

\* Type correctness, for every set of daemons and every bound.
THEOREM TypeCorrect == Spec => []TypeOK
<1>1. IInv => TypeOK
  BY DEF IInv
<1> QED
  BY <1>1, Invariant, PTL

\* A daemon that never ran beside another one and listens is reached by its clients,
\* whatever sockets its predecessors left, and however they ended: unlink before bind
\* and bind before listen, and no listen where unlink failed.
THEOREM AloneIsReached == Spec => []ReachedWhenAlone
<1>1. IInv => ReachedWhenAlone
  BY DEF IInv, Undisturbed, ReachedWhenAlone
<1> QED
  BY <1>1, Invariant, PTL

\* Whatever fails, whoever owns what is in the way and whatever unlink returns, only a
\* run that died by a signal or a crash leaves a socket that leads nowhere, and none
\* does on Windows.
THEOREM CleansUpUnlessKilled == Spec => []OnlyKilledLeaveSockets
<1>1. IInv => OnlyKilledLeaveSockets
  BY DEF IInv
<1> QED
  BY <1>1, Invariant, PTL
=============================================================================
