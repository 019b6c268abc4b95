---------------------------- MODULE DesktopShell ----------------------------
(***************************************************************************)
(* The desktop shell of desktop/src-tauri/src/main.rs and the backend it   *)
(* supervises (src/dola_gateway/desktop_entry.py): one window, one child   *)
(* process, three threads that share BackendState.                         *)
(*                                                                         *)
(* supervisor runs supervise_backend(); closer is the thread spawned when  *)
(* the window is closed; main delivers the exit event.  The child slot is  *)
(* behind a mutex, which stop_child() keeps while it waits for the child   *)
(* to end; stopping and retry_requested are atomics.  Threads interleave   *)
(* at every access to them.                                                *)
(***************************************************************************)
EXTENDS Naturals

CONSTANTS
  Procs, NoProc,        \* identities of backend processes; none
  NoThread,             \* nobody holds the mutex
  MaxAutomaticRestarts  \* MAX_AUTOMATIC_RESTARTS

ASSUME ProcsAssumption    == NoProc \notin Procs
ASSUME RestartsAssumption == MaxAutomaticRestarts \in Nat

Threads == {"supervisor", "closer", "main"}

ASSUME ThreadsAssumption == NoThread \notin Threads

VARIABLES
  \* BackendState
  child,      \* the child slot
  mutex,      \* who holds its guard
  stopping, retry_requested,
  \* threads
  pc,         \* where each one stands
  spawned,    \* the process the supervisor has started and not yet stored
  restarts,   \* automatic_restarts
  page,       \* what the window shows
  app,        \* the shell: "open", "quit" (exit handler done), "killed"
  \* outside
  proc,       \* the backend processes; "free" when there is none or it is reaped
  starts      \* observed: starts since the last retry, while not closing

shared  == <<child, mutex, stopping, retry_requested>>
private == <<spawned, restarts, page>>
vars == <<child, mutex, stopping, retry_requested, pc, spawned, restarts, page,
          app, proc, starts>>

Open == app = "open"
Alive(p) == proc[p] \in {"starting", "ready", "asked"}

SupervisorPC ==
  {"top", "spawn", "store", "starting", "stopFailed", "failed", "running",
   "stopRetry", "returned"}

TypeOK ==
  /\ child \in Procs \union {NoProc}
  /\ mutex \in Threads \union {NoThread}
  /\ stopping \in BOOLEAN /\ retry_requested \in BOOLEAN
  /\ pc \in [Threads -> SupervisorPC \union {"idle", "asking", "stopping", "stopped"}]
  /\ spawned \in Procs \union {NoProc}
  /\ restarts \in 0..MaxAutomaticRestarts
  /\ page \in {"starting", "failed", "app"}
  /\ app \in {"open", "quit", "killed"}
  /\ proc \in [Procs -> {"free", "starting", "ready", "asked", "exited"}]
  /\ starts \in Nat

Init ==
  /\ child = NoProc /\ mutex = NoThread
  /\ stopping = FALSE /\ retry_requested = FALSE
  /\ pc = [x \in Threads |-> IF x = "supervisor" THEN "top" ELSE "idle"]
  /\ spawned = NoProc /\ restarts = 0 /\ page = "starting"
  /\ app = "open"
  /\ proc = [p \in Procs |-> "free"]
  /\ starts = 0

At(x, p) == pc[x] = p /\ Open
Goto(x, p) == pc' = [pc EXCEPT ![x] = p]
Become(p, s) == proc' = [proc EXCEPT ![p] = s]

-----------------------------------------------------------------------------
(* stop_child(), by any of the threads.                                    *)

InStop(x) == pc[x] \in {"stopping", "stopFailed", "stopRetry"} /\ Open

(* Where its caller goes on: the error page, a new start, the exit. *)
Return(x) ==
  /\ Goto(x, CASE pc[x] = "stopFailed" -> "failed"
               [] pc[x] = "stopRetry"  -> "top"
               [] OTHER                -> "stopped")
  /\ page' = IF pc[x] = "stopFailed" THEN "failed" ELSE page

StopNothing(x) ==
  /\ InStop(x) /\ mutex = NoThread /\ child = NoProc
  /\ Return(x)
  /\ UNCHANGED <<shared, spawned, restarts, app, proc, starts>>

StopLock(x) ==
  /\ InStop(x) /\ mutex = NoThread /\ child # NoProc
  /\ mutex' = x
  /\ UNCHANGED <<child, stopping, retry_requested, pc, private, app, proc, starts>>

(* The child has ended by itself before the deadline, or is killed. *)
OnlyTerminated(p) == [proc EXCEPT ![p] = "asked"]
Killed(p) == [proc EXCEPT ![p] = "exited"]
StopDeadline(x) ==
  /\ InStop(x) /\ mutex = x /\ Alive(child)
  /\ proc' = Killed(child)
  /\ UNCHANGED <<shared, pc, private, app, starts>>

StopReap(x) ==
  /\ InStop(x) /\ mutex = x /\ proc[child] = "exited"
  /\ Become(child, "free")
  /\ child' = NoProc /\ mutex' = NoThread
  /\ Return(x)
  /\ UNCHANGED <<stopping, retry_requested, spawned, restarts, app, starts>>

StopChild(x) == StopNothing(x) \/ StopLock(x) \/ StopDeadline(x) \/ StopReap(x)

-----------------------------------------------------------------------------
(* supervise_backend()                                                     *)

Top ==
  /\ At("supervisor", "top")
  /\ retry_requested' = FALSE
  /\ Goto("supervisor", "spawn")
  /\ UNCHANGED <<child, mutex, stopping, private, app, proc, starts>>

(* spawn_backend() fails on an incomplete runtime or an OS error. *)
SpawnFails ==
  /\ At("supervisor", "spawn")
  /\ Goto("supervisor", "failed")
  /\ page' = "failed"
  /\ UNCHANGED <<shared, spawned, restarts, app, proc, starts>>

Spawn ==
  /\ At("supervisor", "spawn")
  /\ \E p \in Procs :
       /\ proc[p] = "free"
       /\ Become(p, "starting")
       /\ spawned' = p
  /\ Goto("supervisor", "store")
  /\ page' = "starting"
  /\ starts' = IF stopping THEN starts ELSE starts + 1
  /\ UNCHANGED <<shared, restarts, app>>

Store ==
  /\ At("supervisor", "store") /\ mutex = NoThread
  /\ child' = spawned /\ spawned' = NoProc
  /\ Goto("supervisor", "starting")
  /\ UNCHANGED <<mutex, stopping, retry_requested, restarts, page, app, proc, starts>>

(* wait_until_ready(): the application is closing, the child has ended, or *)
(* 45 seconds have passed; then stop_child().                              *)
AfterStartupUnstopped == "failed"
AfterStartup == "stopFailed"
StartupFails ==
  /\ At("supervisor", "starting")
  /\ Goto("supervisor", AfterStartup)
  /\ UNCHANGED <<shared, private, app, proc, starts>>

(* A backend answers on the port with this instance's id. *)
StartupReady ==
  /\ At("supervisor", "starting")
  /\ \E p \in Procs : proc[p] = "ready"
  /\ Goto("supervisor", "running")
  /\ page' = "app"
  /\ UNCHANGED <<shared, spawned, restarts, app, proc, starts>>

MonitorReturns ==
  /\ At("supervisor", "running") /\ stopping
  /\ Goto("supervisor", "returned")
  /\ UNCHANGED <<shared, private, app, proc, starts>>

(* The child has ended: restart it once, then ask the user.  The count is  *)
(* the supervisor's own, and is reset before its next start.               *)
MayRestartAgain == restarts <= MaxAutomaticRestarts
MayRestart == restarts < MaxAutomaticRestarts
MonitorExited ==
  /\ At("supervisor", "running") /\ mutex = NoThread
  /\ child # NoProc /\ proc[child] = "exited"
  /\ Become(child, "free")
  /\ child' = NoProc
  /\ \/ /\ MayRestart
        /\ restarts' = restarts + 1
        /\ page' = "starting"
        /\ Goto("supervisor", "top")
     \/ /\ ~MayRestart
        /\ restarts' = 0
        /\ page' = "failed"
        /\ Goto("supervisor", "failed")
  /\ UNCHANGED <<mutex, stopping, retry_requested, spawned, app, starts>>

TakeRetry == retry_requested /\ retry_requested' = FALSE /\ starts' = 0

MonitorRetry ==
  /\ At("supervisor", "running") /\ TakeRetry
  /\ restarts' = 0
  /\ Goto("supervisor", "stopRetry")
  /\ UNCHANGED <<child, mutex, stopping, spawned, page, app, proc>>

(* wait_for_retry() returns when the application is closing, and on a      *)
(* retry; either way the loop starts over.                                 *)
WaitForClosing ==
  /\ At("supervisor", "failed") /\ stopping
  /\ Goto("supervisor", "top")
  /\ UNCHANGED <<shared, private, app, proc, starts>>
WaitForRetry ==
  /\ At("supervisor", "failed")
  /\ \/ stopping /\ UNCHANGED <<retry_requested, starts>>
     \/ TakeRetry
  /\ Goto("supervisor", "top")
  /\ UNCHANGED <<child, mutex, stopping, private, app, proc>>

Supervise ==
  \/ Top \/ SpawnFails \/ Spawn \/ Store \/ StartupFails \/ StartupReady
  \/ MonitorReturns \/ MonitorExited \/ MonitorRetry \/ WaitForRetry
  \/ StopChild("supervisor")

-----------------------------------------------------------------------------
(* The user and the main thread.                                           *)

(* dola://retry, a link of the error page. *)
PressRetry ==
  /\ Open /\ page = "failed"
  /\ retry_requested' = TRUE
  /\ UNCHANGED <<child, mutex, stopping, pc, private, app, proc, starts>>

(* The first CloseRequested starts the closer, the others do nothing. *)
CloseWindow ==
  /\ At("main", "idle") /\ ~stopping
  /\ stopping' = TRUE
  /\ Goto("closer", "asking")
  /\ UNCHANGED <<child, mutex, retry_requested, private, app, proc, starts>>

(* request_graceful_shutdown(): a listening backend sets should_exit,      *)
(* unless the request is lost.                                             *)
AskToStop ==
  /\ At("closer", "asking")
  /\ \/ \E p \in Procs : proc[p] = "ready" /\ Become(p, "asked")
     \/ UNCHANGED proc
  /\ Goto("closer", "stopping")
  /\ UNCHANGED <<shared, private, app, starts>>

(* RunEvent::Exit, after app.exit(0) or when the system quits the app. *)
ExitEvent ==
  /\ At("main", "idle")
  /\ stopping' = TRUE
  /\ Goto("main", "stopping")
  /\ UNCHANGED <<child, mutex, retry_requested, private, app, proc, starts>>

(* The event loop returns: the process ends with all its threads. *)
Quit ==
  /\ At("main", "stopped")
  /\ app' = "quit"
  /\ UNCHANGED <<shared, pc, private, proc, starts>>

(* The shell crashes or is killed. *)
Kill ==
  /\ Open
  /\ app' = "killed"
  /\ UNCHANGED <<shared, pc, private, proc, starts>>

Close == AskToStop \/ StopChild("closer")
Exit  == (pc["closer"] = "stopped" /\ ExitEvent) \/ StopChild("main") \/ Quit

-----------------------------------------------------------------------------
(* The backend process.                                                    *)

untouched == <<shared, pc, private, app, starts>>

Listen(p) ==
  /\ proc[p] = "starting"
  /\ Become(p, "ready")
  /\ UNCHANGED untouched

(* _parent_is_alive() *)
NeverMissed == TRUE
ParentIsAlive == Open

(* _watch_parent() sets should_exit when the shell is gone. *)
Watch(p) ==
  /\ proc[p] \in {"starting", "ready"} /\ ~ParentIsAlive
  /\ Become(p, "asked")
  /\ UNCHANGED untouched

(* The graceful shutdown of the server, and a crash. *)
ShutDown(p) ==
  /\ proc[p] = "asked"
  /\ Become(p, "exited")
  /\ UNCHANGED untouched

Crash(p) ==
  /\ Alive(p)
  /\ Become(p, "exited")
  /\ UNCHANGED untouched

-----------------------------------------------------------------------------
Next ==
  \/ Supervise \/ PressRetry \/ CloseWindow \/ Close \/ ExitEvent
  \/ StopChild("main") \/ Quit \/ Kill
  \/ \E p \in Procs : Listen(p) \/ Watch(p) \/ ShutDown(p) \/ Crash(p)

Spec == Init /\ [][Next]_vars

(* Threads run; the mutex is not fair by turns, but a thread that waits    *)
(* for it gets it if it is free again and again; the watchdog polls, and a *)
(* server told to exit does when its parent is gone.                       *)
FairSpec ==
  /\ Spec
  /\ WF_vars(Supervise) /\ WF_vars(Close) /\ WF_vars(Exit)
  /\ \A x \in {"closer", "main"} : SF_vars(StopNothing(x) \/ StopLock(x))
  /\ \A p \in Procs : WF_vars(Watch(p)) /\ WF_vars(~Open /\ ShutDown(p))

-----------------------------------------------------------------------------
(* "Rust owns ... one child process" (desktop/README.md:4): two backends   *)
(* never run at once, whichever threads stop the child while the           *)
(* supervisor starts, restarts or gives it up (main.rs:281-414).           *)
OneBackend == \A p, q \in Procs : Alive(p) /\ Alive(q) => p = q

(* The supervisor starts the backend only when the one before is reaped:   *)
(* the slot never loses a process it still has to wait for.                *)
NoChildForgotten ==
  \A p \in Procs :
    proc[p] # "free" => p = child \/ p = spawned

(* The backend is started at most once per retry and restarted at most     *)
(* MAX_AUTOMATIC_RESTARTS times on its own: a backend that keeps crashing  *)
(* is not restarted forever (main.rs:327-347).                             *)
RestartsBounded == starts <= 1 + MaxAutomaticRestarts

(* The guard of the child slot is held only by a thread that will give it  *)
(* back: it is in stop_child() with a child that nobody else has reaped,   *)
(* which it can kill or reap, so that whoever waits for the slot waits for *)
(* a step and not for another waiter (main.rs:281-414).                    *)
GuardGivenBack ==
  mutex # NoThread =>
    /\ pc[mutex] \in {"stopping", "stopFailed", "stopRetry"}
    /\ child # NoProc /\ (Alive(child) \/ proc[child] = "exited")

(* A retry is not lost: the backend is started again, whatever the         *)
(* supervisor was doing when the link was pressed (main.rs:284, 348, 360). *)
RetryAnswered ==
  retry_requested ~> (pc["supervisor"] = "spawn" \/ stopping \/ ~Open)

(* Closing the window ends the application, even while the supervisor is   *)
(* starting, stopping or restarting the backend (main.rs:503-531).         *)
ClosingEnds == pc["closer"] = "asking" ~> ~Open

(* However the shell ends, its backend ends too: whoever was not stopped   *)
(* notices that its parent is gone (desktop_entry.py:37-42).               *)
NoOrphans == ~Open ~> \A p \in Procs : ~Alive(p)

(* "Quit during idle and active browser states; confirm the backend and    *)
(* Chromium process tree exits" (tools/release/README.md:115): once the    *)
(* exit handler is done no backend is running.                             *)
QuitLeavesNothing == app = "quit" => \A p \in Procs : ~Alive(p)
=============================================================================
