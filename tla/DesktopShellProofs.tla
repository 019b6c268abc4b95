------------------------- MODULE DesktopShellProofs -------------------------
(***************************************************************************)
(* Proofs about DesktopShell, for every set of process identities and      *)
(* every MAX_AUTOMATIC_RESTARTS.                                           *)
(***************************************************************************)
EXTENDS DesktopShell, TLAPS

(* The supervisor is about to start a backend, or waits before it does.    *)
BetweenBackends == pc["supervisor"] \in {"top", "spawn", "store", "failed"}

(* Nothing is in the slot between two backends, and a started process is   *)
(* the supervisor's own only until it is stored.                           *)
SlotEmpty  == BetweenBackends => child = NoProc
StoredSoon == pc["supervisor"] # "store" => spawned = NoProc

(* The starts so far are those the restarts account for; between a crash   *)
(* too many and the retry that follows, nothing is started.                *)
StartsCounted ==
  ~stopping /\ pc["supervisor"] \in {"top", "spawn", "stopRetry"} => starts <= restarts
StartsBelow ==
  ~stopping /\ pc["supervisor"] \in {"store", "starting", "stopFailed", "running"}
    => starts <= restarts + 1

IInv ==
  /\ TypeOK
  /\ SlotEmpty /\ StoredSoon /\ NoChildForgotten
  /\ StartsCounted /\ StartsBelow /\ RestartsBounded

-----------------------------------------------------------------------------
(* The initial state satisfies the invariant. *)
LEMMA Initial == Init => IInv
<1> SUFFICES ASSUME Init PROVE IInv
  OBVIOUS
<1>1. pc \in [Threads -> {"top", "idle"}] /\ pc["supervisor"] = "top"
  BY DEF Init, Threads
<1>2. TypeOK
  <2>1. stopping \in BOOLEAN /\ retry_requested \in BOOLEAN
    BY DEF Init
  <2>2. /\ restarts \in 0..MaxAutomaticRestarts /\ starts \in Nat
        /\ proc \in [Procs -> {"free", "starting", "ready", "asked", "exited"}]
    BY RestartsAssumption DEF Init
  <2> QED BY <1>1, <2>1, <2>2, Zenon DEF Init, TypeOK, SupervisorPC
<1>3. SlotEmpty /\ StoredSoon /\ NoChildForgotten
  BY DEF Init, SlotEmpty, StoredSoon, NoChildForgotten
<1>4. StartsCounted /\ StartsBelow /\ RestartsBounded
  BY <1>1, RestartsAssumption DEF Init, StartsCounted, StartsBelow, RestartsBounded
<1> QED BY <1>2, <1>3, <1>4 DEF IInv

(* No step of any thread leaves the types. *)
LEMMA TypeStep == TypeOK /\ [Next]_vars => TypeOK'
<1> SUFFICES ASSUME TypeOK, [Next]_vars PROVE TypeOK'
  OBVIOUS
<1> USE ProcsAssumption, ThreadsAssumption, RestartsAssumption DEF TypeOK, SupervisorPC
<1>1. CASE Top
  BY <1>1 DEF Top, Goto, At, private
<1>2. CASE SpawnFails
  BY <1>2 DEF SpawnFails, Goto, At, shared
<1>3. CASE Spawn
  <2>1. starts' \in Nat
    <3>1. CASE stopping
      BY <1>3, <3>1 DEF Spawn
    <3>2. CASE ~stopping
      BY <1>3, <3>2 DEF Spawn
    <3> QED BY <3>1, <3>2
  <2>2. PICK p \in Procs : Become(p, "starting") /\ spawned' = p
    BY <1>3 DEF Spawn
  <2> QED BY <1>3, <2>1, <2>2 DEF Spawn, Goto, Become, shared
<1>4. CASE Store
  BY <1>4 DEF Store, Goto, At
<1>5. CASE StartupFails
  BY <1>5 DEF StartupFails, AfterStartup, Goto, At, shared, private
<1>6. CASE StartupReady
  BY <1>6 DEF StartupReady, Goto, At, shared
<1>7. CASE MonitorReturns
  BY <1>7 DEF MonitorReturns, Goto, At, shared, private
<1>8. CASE MonitorExited
  BY <1>8 DEF MonitorExited, MayRestart, Goto, At, Become
<1>9. CASE MonitorRetry
  <2>1. retry_requested' \in BOOLEAN /\ starts' \in Nat
    <3>1. retry_requested' = FALSE /\ starts' = 0
      BY <1>9 DEF MonitorRetry, TakeRetry
    <3> QED BY <3>1
  <2>2. restarts' \in 0..MaxAutomaticRestarts
    BY <1>9 DEF MonitorRetry
  <2> QED BY <1>9, <2>1, <2>2 DEF MonitorRetry, Goto
<1>10. CASE WaitForRetry
  <2>1. retry_requested' \in BOOLEAN /\ starts' \in Nat
    <3>1. CASE UNCHANGED <<retry_requested, starts>>
      BY <3>1
    <3>2. CASE retry_requested' = FALSE /\ starts' = 0
      BY <3>2
    <3> QED BY <1>10, <3>1, <3>2 DEF WaitForRetry, TakeRetry
  <2> QED BY <1>10, <2>1 DEF WaitForRetry, Goto, private
<1>11. ASSUME NEW x \in Threads, StopChild(x) PROVE TypeOK'
  <2>1. CASE StopNothing(x)
    BY <2>1 DEF StopNothing, Return, Goto, shared
  <2>2. CASE StopLock(x)
    BY <2>2 DEF StopLock, private
  <2>3. CASE StopDeadline(x)
    BY <2>3 DEF StopDeadline, Killed, shared, private
  <2>4. CASE StopReap(x)
    BY <2>4 DEF StopReap, Return, Goto, Become
  <2> QED BY <1>11, <2>1, <2>2, <2>3, <2>4 DEF StopChild
<1>12. CASE PressRetry
  BY <1>12 DEF PressRetry, private
<1>13. CASE CloseWindow
  BY <1>13 DEF CloseWindow, Goto, private
<1>14. CASE AskToStop
  BY <1>14 DEF AskToStop, Goto, Become, shared, private
<1>15. CASE ExitEvent
  BY <1>15 DEF ExitEvent, Goto, private
<1>16. CASE Quit \/ Kill
  BY <1>16 DEF Quit, Kill, shared, private
<1>17. ASSUME NEW p \in Procs, Listen(p) \/ Watch(p) \/ ShutDown(p) \/ Crash(p)
       PROVE TypeOK'
  BY <1>17 DEF Listen, Watch, ShutDown, Crash, Become, untouched, shared, private
<1>18. CASE UNCHANGED vars
  BY <1>18 DEF vars
<1> QED
  BY <1>1, <1>2, <1>3, <1>4, <1>5, <1>6, <1>7, <1>8, <1>9, <1>10, <1>11, <1>12,
     <1>13, <1>14, <1>15, <1>16, <1>17, <1>18
  DEF Next, Supervise, Close, Threads

(* No step forgets a process or starts one too many. *)
LEMMA SlotStep ==
  IInv /\ [Next]_vars =>
    /\ SlotEmpty' /\ StoredSoon' /\ NoChildForgotten'
    /\ StartsCounted' /\ StartsBelow' /\ RestartsBounded'
<1> DEFINE Kept == /\ SlotEmpty /\ StoredSoon /\ NoChildForgotten
                   /\ StartsCounted /\ StartsBelow /\ RestartsBounded
<1> SUFFICES ASSUME IInv, [Next]_vars PROVE Kept'
  OBVIOUS
<1> USE ProcsAssumption, RestartsAssumption
    DEF IInv, TypeOK, SlotEmpty, StoredSoon, NoChildForgotten, BetweenBackends,
        StartsCounted, StartsBelow, RestartsBounded, Threads
<1>1. CASE Top
  BY <1>1 DEF Top, Goto, At, private
<1>2. CASE SpawnFails
  BY <1>2 DEF SpawnFails, Goto, At, shared
<1>3. CASE Spawn
  <2> PICK p \in Procs : proc[p] = "free" /\ Become(p, "starting") /\ spawned' = p
    BY <1>3 DEF Spawn
  <2> QED BY <1>3 DEF Spawn, Goto, At, Become, shared
<1>4. CASE Store
  BY <1>4 DEF Store, Goto, At
<1>5. CASE StartupFails
  BY <1>5 DEF StartupFails, AfterStartup, Goto, At, shared, private
<1>6. CASE StartupReady
  BY <1>6 DEF StartupReady, Goto, At, shared
<1>7. CASE MonitorReturns
  BY <1>7 DEF MonitorReturns, Goto, At, shared, private
<1>8. CASE MonitorExited
  BY <1>8 DEF MonitorExited, MayRestart, Goto, At, Become
<1>9. CASE MonitorRetry
  BY <1>9 DEF MonitorRetry, TakeRetry, Goto, At
<1>10. CASE WaitForRetry
  BY <1>10 DEF WaitForRetry, TakeRetry, Goto, At, private
<1>11. ASSUME NEW x \in Threads, StopChild(x) PROVE Kept'
  <2>1. CASE StopNothing(x)
    BY <2>1 DEF StopNothing, InStop, Return, Goto, shared
  <2>2. CASE StopLock(x)
    BY <2>2 DEF StopLock, private
  <2>3. CASE StopDeadline(x)
    BY <2>3 DEF StopDeadline, Alive, Killed, shared, private
  <2>4. CASE StopReap(x)
    BY <2>4 DEF StopReap, InStop, Return, Goto, Become
  <2> QED BY <1>11, <2>1, <2>2, <2>3, <2>4 DEF StopChild
<1>12. CASE PressRetry
  BY <1>12 DEF PressRetry, private
<1>13. CASE CloseWindow
  BY <1>13 DEF CloseWindow, Goto, private
<1>14. CASE AskToStop
  BY <1>14 DEF AskToStop, Goto, Become, shared, private
<1>15. CASE ExitEvent
  BY <1>15 DEF ExitEvent, Goto, private
<1>16. CASE Quit \/ Kill
  BY <1>16 DEF Quit, Kill, shared, private
<1>17. ASSUME NEW p \in Procs, Listen(p) \/ Watch(p) \/ ShutDown(p) \/ Crash(p)
       PROVE Kept'
  BY <1>17 DEF Listen, Watch, ShutDown, Crash, Alive, Become, untouched, shared, private
<1>18. CASE UNCHANGED vars
  BY <1>18 DEF vars
<1> QED
  BY <1>1, <1>2, <1>3, <1>4, <1>5, <1>6, <1>7, <1>8, <1>9, <1>10, <1>11, <1>12,
     <1>13, <1>14, <1>15, <1>16, <1>17, <1>18
  DEF Next, Supervise, Close

LEMMA Inductive == Spec => []IInv
<1>1. IInv /\ [Next]_vars => IInv'
  BY TypeStep, SlotStep DEF IInv
<1> QED BY Initial, <1>1, PTL DEF Spec

-----------------------------------------------------------------------------
(* The variables keep their types. *)
THEOREM TypeCorrect == Spec => []TypeOK
<1>1. IInv => TypeOK
  BY DEF IInv
<1> QED BY Inductive, <1>1, PTL

(* The slot never loses a process that is not reaped. *)
THEOREM ChildKept == Spec => []NoChildForgotten
<1>1. IInv => NoChildForgotten
  BY DEF IInv
<1> QED BY Inductive, <1>1, PTL

(* Two backends never run at once: a process is the supervisor's own only  *)
(* while the slot is empty.                                                *)
THEOREM Single == Spec => []OneBackend
<1>1. IInv => OneBackend
  BY ProcsAssumption
  DEF IInv, NoChildForgotten, SlotEmpty, StoredSoon, BetweenBackends, OneBackend, Alive
<1> QED BY Inductive, <1>1, PTL

(* What is in the slot or on its way there is a process that is not reaped *)
(* yet; the closer runs only once the application is closing.              *)
NotReaped ==
  /\ child # NoProc => proc[child] # "free"
  /\ pc["supervisor"] = "store" => spawned # NoProc /\ proc[spawned] # "free"
  /\ pc["closer"] # "idle" => stopping
GInv == IInv /\ NotReaped /\ GuardGivenBack

LEMMA GuardStep == GInv /\ [Next]_vars => (NotReaped /\ GuardGivenBack)'
<1> SUFFICES ASSUME GInv, [Next]_vars PROVE (NotReaped /\ GuardGivenBack)'
  OBVIOUS
<1> USE ProcsAssumption, ThreadsAssumption
    DEF GInv, IInv, TypeOK, NotReaped, GuardGivenBack, SlotEmpty, BetweenBackends, Alive, Threads
<1>1. CASE Top \/ SpawnFails
  BY <1>1 DEF Top, SpawnFails, Goto, At, private, shared
<1>2. CASE Spawn
  <2> PICK p \in Procs : proc[p] = "free" /\ Become(p, "starting") /\ spawned' = p
    BY <1>2 DEF Spawn
  <2> QED BY <1>2 DEF Spawn, Goto, At, Become, shared
<1>3. CASE Store
  BY <1>3 DEF Store, Goto, At
<1>4. CASE StartupFails \/ StartupReady \/ MonitorReturns
  BY <1>4 DEF StartupFails, AfterStartup, StartupReady, MonitorReturns, Goto, At, shared, private
<1>5. CASE MonitorExited
  BY <1>5 DEF MonitorExited, Goto, At, Become
<1>6. CASE MonitorRetry \/ WaitForRetry
  BY <1>6 DEF MonitorRetry, WaitForRetry, Goto, At, private
<1>7. ASSUME NEW x \in Threads, StopChild(x) PROVE (NotReaped /\ GuardGivenBack)'
  <2>1. CASE StopNothing(x)
    BY <2>1 DEF StopNothing, InStop, Return, Goto, shared
  <2>2. CASE StopLock(x)
    BY <2>2 DEF StopLock, InStop, private
  <2>3. CASE StopDeadline(x)
    BY <2>3 DEF StopDeadline, Killed, shared, private
  <2>4. CASE StopReap(x)
    BY <2>4 DEF StopReap, InStop, Return, Goto, Become
  <2> QED BY <1>7, <2>1, <2>2, <2>3, <2>4 DEF StopChild
<1>8. CASE PressRetry
  BY <1>8 DEF PressRetry, private
<1>9. CASE CloseWindow \/ ExitEvent
  BY <1>9 DEF CloseWindow, ExitEvent, Goto, At, private
<1>10. CASE AskToStop
  BY <1>10 DEF AskToStop, Goto, At, Become, shared, private
<1>11. CASE Quit \/ Kill
  BY <1>11 DEF Quit, Kill, shared, private
<1>12. ASSUME NEW p \in Procs, Listen(p) \/ Watch(p) \/ ShutDown(p) \/ Crash(p)
       PROVE (NotReaped /\ GuardGivenBack)'
  BY <1>12 DEF Listen, Watch, ShutDown, Crash, Become, untouched, shared, private
<1>13. CASE UNCHANGED vars
  BY <1>13 DEF vars
<1> QED
  BY <1>1, <1>2, <1>3, <1>4, <1>5, <1>6, <1>7, <1>8, <1>9, <1>10, <1>11, <1>12, <1>13
  DEF Next, Supervise, Close

(* No thread waits for the child slot in vain: its holder can always kill  *)
(* or reap the child and let go.                                           *)
THEOREM GuardIsGivenBack == Spec => []GuardGivenBack
<1>1. Init => GInv
  <2>1. Init => NotReaped /\ GuardGivenBack
    BY DEF Init, NotReaped, GuardGivenBack, Threads
  <2> QED BY <2>1, Initial DEF GInv
<1>2. GInv /\ [Next]_vars => GInv'
  BY TypeStep, SlotStep, GuardStep DEF GInv, IInv
<1>3. GInv => GuardGivenBack
  BY DEF GInv
<1> QED BY <1>1, <1>2, <1>3, PTL DEF Spec

(* A backend that keeps crashing is restarted a bounded number of times.   *)
THEOREM RestartsLimited == Spec => []RestartsBounded
<1>1. IInv => RestartsBounded
  BY DEF IInv
<1> QED BY Inductive, <1>1, PTL
=============================================================================
