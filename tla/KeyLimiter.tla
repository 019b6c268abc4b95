---------------------------- MODULE KeyLimiter ----------------------------
(***************************************************************************)
(* The per-key concurrency limiter of the gateway: class                   *)
(* KeyConcurrencyLimiter of src/dola_gateway/server.py.                    *)
(*                                                                         *)
(* Every background worker (_run_task, _run_image_task, _resume_task)      *)
(* awaits acquire() before it starts and release() in its finally block.   *)
(* The limiter is an asyncio.Condition around a counter per key.  The      *)
(* condition's own lock is never held across a suspension (the only await  *)
(* under it is wait(), which gives it up), so a call runs in one event-    *)
(* loop turn up to wait(), and a notified worker re-evaluates the while    *)
(* condition in a turn of its own.                                         *)
(***************************************************************************)
EXTENDS Integers, FiniteSets

CONSTANTS
  Tasks,    \* background workers, one per task
  Keys,     \* API-key hashes
  NoKey,    \* the anonymous client: api_key_hash is None
  Limits    \* the concurrency_limit values an administrator gives each key

ASSUME TasksAssumption  == IsFiniteSet(Tasks)
ASSUME KeysAssumption   == NoKey \notin Keys
ASSUME LimitsAssumption == \A k \in Keys : Limits[k] \subseteq Nat

VARIABLES
  active,   \* _active: the counter of each key (an absent entry is 0)
  slot,     \* where each worker stands with the limiter
  call,     \* the arguments snapshotted into each task row at creation
  policy    \* the concurrency_limit of each key, in the api_keys table

vars == <<active, slot, call, policy>>

SlotState == {"new", "called", "waiting", "notified", "held", "done"}

Call == [key : Keys \union {NoKey}, limit : Nat]

(* Some limit of every key. *)
Policies == {p \in [Keys -> UNION {Limits[k] : k \in Keys}] :
               \A k \in Keys : p[k] \in Limits[k]}

TypeOK ==
  /\ active \in [Keys -> Nat]
  /\ slot   \in [Tasks -> SlotState]
  /\ call   \in [Tasks -> Call]
  /\ policy \in Policies

Init ==
  /\ active = [k \in Keys |-> 0]
  /\ slot   = [t \in Tasks |-> "new"]
  /\ call   = [t \in Tasks |-> [key |-> NoKey, limit |-> 0]]
  /\ policy \in Policies

-----------------------------------------------------------------------------
(* acquire() returns at once, without counting, for an anonymous client    *)
(* and for a limit of zero.                                                *)
Uncounted(t) == call[t].key = NoKey \/ call[t].limit = 0

(* The test of the while loop of acquire().                                *)
HasRoomOffByOne(t) == active[call[t].key] <= call[t].limit
HasRoom(t) == active[call[t].key] < call[t].limit

(* The loop, entered or re-entered by worker t.                            *)
TakeOrWait(t) ==
  \/ /\ HasRoom(t)
     /\ active' = [active EXCEPT ![call[t].key] = @ + 1]
     /\ slot'   = [slot EXCEPT ![t] = "held"]
  \/ /\ ~HasRoom(t)
     /\ slot' = [slot EXCEPT ![t] = "waiting"]
     /\ UNCHANGED active

Acquire(t) ==
  /\ slot[t] = "called"
  /\ \/ /\ Uncounted(t)
        /\ slot' = [slot EXCEPT ![t] = "held"]
        /\ UNCHANGED active
     \/ /\ ~Uncounted(t)
        /\ TakeOrWait(t)

(* A notified worker regains the condition and evaluates the loop again.   *)
Wake(t) ==
  /\ slot[t] = "notified"
  /\ TakeOrWait(t)

(* notify_all(): every sleeping worker becomes runnable, whatever its key. *)
NotifyOne(s) ==
  LET sleeping == {t \in Tasks : s[t] = "waiting"} IN
  [t \in Tasks |-> IF sleeping # {} /\ t = CHOOSE u \in sleeping : TRUE
                     THEN "notified" ELSE s[t]]
NotifyAll(s) == [t \in Tasks |-> IF s[t] = "waiting" THEN "notified" ELSE s[t]]

(* The counter after a release: it never goes below zero.                  *)
NotDecremented(n) == n
Decremented(n) == IF n > 0 THEN n - 1 ELSE 0

(* release() gives a place back and wakes everyone; it does not know       *)
(* whether acquire() counted this worker.                                  *)
Release(t) ==
  /\ slot[t] = "held"
  /\ \/ /\ call[t].key = NoKey
        /\ slot' = [slot EXCEPT ![t] = "done"]
        /\ UNCHANGED active
     \/ /\ call[t].key # NoKey
        /\ active' = [active EXCEPT ![call[t].key] = Decremented(@)]
        /\ slot'   = NotifyAll([slot EXCEPT ![t] = "done"])

-----------------------------------------------------------------------------
(* POST .../generations: the task row records the key and the limit the    *)
(* key has now; the worker it spawns uses this snapshot for its whole life.*)
Submit(t, k) ==
  /\ slot[t] = "new"
  /\ slot' = [slot EXCEPT ![t] = "called"]
  /\ call' = [call EXCEPT ![t] =
                [key |-> k, limit |-> IF k = NoKey THEN 0 ELSE policy[k]]]
  /\ UNCHANGED <<active, policy>>

(* PATCH /api/admin/keys/{key} with a new concurrency_limit.               *)
PatchLimit(k, n) ==
  /\ policy[k] # n
  /\ policy' = [policy EXCEPT ![k] = n]
  /\ UNCHANGED <<active, slot, call>>

Next ==
  \/ \E t \in Tasks, k \in Keys \union {NoKey} : Submit(t, k)
  \/ \E t \in Tasks :
       /\ Acquire(t) \/ Wake(t) \/ Release(t)
       /\ UNCHANGED <<call, policy>>
  \/ \E k \in Keys : \E n \in Limits[k] : PatchLimit(k, n)

(* The event loop runs every ready coroutine, and every worker reaches its *)
(* finally block: generation is bounded by timeouts on every path.         *)
Fairness ==
  \A t \in Tasks :
    WF_vars((Acquire(t) \/ Wake(t) \/ Release(t)) /\ UNCHANGED <<call, policy>>)

Spec     == Init /\ [][Next]_vars
FairSpec == Spec /\ Fairness

-----------------------------------------------------------------------------
(* Workers that hold a place and were admitted under a limit of key k.     *)
Holders(k) ==
  {t \in Tasks : slot[t] = "held" /\ call[t].key = k /\ call[t].limit > 0}

(* Keys that are never unlimited. *)
Metered == {k \in Keys : 0 \notin Limits[k]}

(* At most j of the running workers of k were admitted under a limit of at *)
(* most j.                                                                 *)
Respected(k) ==
  \A j \in Limits[k] : Cardinality({t \in Holders(k) : call[t].limit <= j}) <= j

(* A key that is never unlimited stays within its limit, also while the    *)
(* administrator raises and lowers it between admissions and whatever the  *)
(* workers of unlimited keys give back (server.py:160-183).                *)
WithinLimit == \A k \in Metered : Respected(k)

(* "Concurrency limits per API Key; 0 = unlimited" (server.py:161): every  *)
(* positive limit is respected, of the keys too that were once unlimited.  *)
EveryLimitRespected == \A k \in Keys : Respected(k)

(* A worker asleep in wait() really has no room: each place given back     *)
(* wakes every sleeper of its key, so no wakeup is lost or goes to a       *)
(* worker of another key only (release(), server.py:175-183).              *)
NoLostWakeup ==
  \A t \in Tasks :
    slot[t] = "waiting" => active[call[t].key] >= call[t].limit

(* The counter of a key that is never unlimited is the number of its      *)
(* workers inside: no place is leaked or given back twice                  *)
(* (server.py:167-183).                                                    *)
CountExact ==
  \A k \in Metered : active[k] = Cardinality(Holders(k))

(* Every worker that asks for a place is served and leaves, whichever keys *)
(* share the condition (server.py:493 and 543).                            *)
EveryWorkerFinishes ==
  \A t \in Tasks : slot[t] = "called" ~> slot[t] = "done"
=============================================================================
