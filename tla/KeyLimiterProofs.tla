------------------------- MODULE KeyLimiterProofs -------------------------
(***************************************************************************)
(* Proofs about KeyLimiter for every set of workers, keys and limits.      *)
(***************************************************************************)
EXTENDS KeyLimiter, FiniteSetTheorems, TLAPS

(* A worker of a key that is never unlimited was admitted under a positive *)
(* limit.                                                                  *)
KeyedHasLimit ==
  \A t \in Tasks : call[t].key \in Metered => call[t].limit > 0

(* The inductive invariant.  CountExact makes "the counter is below my     *)
(* limit" mean "fewer workers than my limit are inside"; KeyedHasLimit     *)
(* makes a release give back only what an acquire has taken.               *)
IInv == TypeOK /\ KeyedHasLimit /\ CountExact /\ WithinLimit

-----------------------------------------------------------------------------
LEMMA TypeInit == Init => TypeOK
BY DEF Init, TypeOK, SlotState, Call

LEMMA PolicyTypes ==
  ASSUME TypeOK, NEW k \in Keys
  PROVE  policy[k] \in Limits[k] /\ policy[k] \in Nat
BY LimitsAssumption DEF TypeOK, Policies

LEMMA TypeStep ==
  ASSUME TypeOK, [Next]_vars
  PROVE  TypeOK'
<1> USE LimitsAssumption, KeysAssumption DEF TypeOK, SlotState, Call
<1>1. CASE \E t \in Tasks, k \in Keys \union {NoKey} : Submit(t, k)
  BY <1>1, PolicyTypes DEF Submit
<1>2. ASSUME NEW t \in Tasks, Acquire(t), UNCHANGED <<call, policy>>
      PROVE  TypeOK'
  BY <1>2 DEF Acquire, TakeOrWait, Uncounted, HasRoom
<1>3. ASSUME NEW t \in Tasks, Wake(t), UNCHANGED <<call, policy>>
      PROVE  TypeOK'
  <2>1. PICK k \in Keys \union {NoKey} : k = call[t].key
    OBVIOUS
  <2>2. QED
    BY <1>3, <2>1 DEF Wake, TakeOrWait, HasRoom
<1>4. ASSUME NEW t \in Tasks, Release(t), UNCHANGED <<call, policy>>
      PROVE  TypeOK'
  BY <1>4 DEF Release, NotifyAll, Decremented
<1>5. CASE \E k \in Keys : \E n \in Limits[k] : PatchLimit(k, n)
  <2>1. PICK k \in Keys : \E n \in Limits[k] : PatchLimit(k, n)
    BY <1>5
  <2>2. PICK n \in Limits[k] : PatchLimit(k, n)
    BY <2>1
  <2>3. policy' = [policy EXCEPT ![k] = n] /\ UNCHANGED <<active, slot, call>>
    BY <2>2 DEF PatchLimit
  <2>4. policy' \in Policies
    BY <2>3 DEF Policies
  <2>5. QED
    BY <2>3, <2>4
<1>6. CASE UNCHANGED vars
  BY <1>6 DEF vars
<1>7. QED
  BY <1>1, <1>2, <1>3, <1>4, <1>5, <1>6 DEF Next

(* Every state satisfies the type invariant; the counters in particular    *)
(* never go negative, whatever limits are mixed (server.py:179).           *)
THEOREM TypeCorrect == Spec => []TypeOK
<1>1. TypeOK /\ [Next]_vars => TypeOK'
  BY TypeStep
<1>2. QED
  BY <1>1, TypeInit, PTL DEF Spec

-----------------------------------------------------------------------------
(* The workers a limit of at most j accounts for. *)
HoldersUpTo(k, j) == {t \in Holders(k) : call[t].limit <= j}

LEMMA HoldersFinite ==
  \A k, j : /\ IsFiniteSet(Holders(k)) /\ Cardinality(Holders(k)) \in Nat
           /\ IsFiniteSet(HoldersUpTo(k, j))
           /\ Cardinality(HoldersUpTo(k, j)) \in Nat
           /\ Cardinality(HoldersUpTo(k, j)) <= Cardinality(Holders(k))
<1> SUFFICES ASSUME NEW k, NEW j
             PROVE  /\ IsFiniteSet(Holders(k)) /\ Cardinality(Holders(k)) \in Nat
                    /\ IsFiniteSet(HoldersUpTo(k, j))
                    /\ Cardinality(HoldersUpTo(k, j)) \in Nat
                    /\ Cardinality(HoldersUpTo(k, j)) <= Cardinality(Holders(k))
  OBVIOUS
<1>1. Holders(k) \in SUBSET Tasks /\ HoldersUpTo(k, j) \in SUBSET Holders(k)
  BY DEF Holders, HoldersUpTo
<1>2. IsFiniteSet(Holders(k))
  BY <1>1, TasksAssumption, FS_Subset
<1>3. QED
  BY <1>1, <1>2, FS_Subset, FS_CardinalityType

LEMMA LimitTypes ==
  ASSUME TypeOK
  PROVE  /\ \A t \in Tasks : call[t].limit \in Nat
         /\ \A k \in Metered : \A j \in Limits[k] : j \in Nat /\ j > 0
<1>0. \A k \in Metered : \A j \in Limits[k] : j \in Nat /\ j > 0
  BY LimitsAssumption DEF Metered
<1>1. \A t \in Tasks : call[t] \in Call
  BY DEF TypeOK
<1>2. \A c \in Call : c.limit \in Nat
  BY DEF Call
<1>3. QED
  BY <1>0, <1>1, <1>2

(* A step that changes the holders of no key preserves both counts. *)
LEMMA SameHolders ==
  ASSUME CountExact, WithinLimit,
         \A k \in Metered : active'[k] = active[k],
         \A k \in Metered : Holders(k)' = Holders(k),
         \A k \in Metered : \A t \in Holders(k) : call'[t] = call[t]
  PROVE  CountExact' /\ WithinLimit'
<1>1. CountExact'
  BY DEF CountExact
<1>2. \A k \in Metered : \A j \in Limits[k] : HoldersUpTo(k, j)' = HoldersUpTo(k, j)
  BY DEF HoldersUpTo
<1>3. WithinLimit'
  BY <1>2 DEF WithinLimit, Respected, HoldersUpTo
<1>4. QED
  BY <1>1, <1>3

(* Admission below the limit: the newcomer counts only towards limits at   *)
(* least its own, and there were fewer holders than that.                  *)
LEMMA Admission ==
  ASSUME IInv, NEW t \in Tasks, slot[t] # "held", call[t].key \in Metered,
         HasRoom(t), active' = [active EXCEPT ![call[t].key] = @ + 1],
         slot' = [slot EXCEPT ![t] = "held"], UNCHANGED call
  PROVE  CountExact' /\ WithinLimit'
<1> DEFINE kt == call[t].key
<1> USE DEF Metered
<1>1. /\ Holders(kt)' = Holders(kt) \union {t}
      /\ t \notin Holders(kt)
      /\ \A k \in Metered : k # kt => Holders(k)' = Holders(k)
  BY DEF IInv, TypeOK, KeyedHasLimit, Holders
<1>2. CountExact'
  <2> SUFFICES ASSUME NEW k \in Metered
               PROVE  active'[k] = Cardinality(Holders(k)')
    BY DEF CountExact
  <2>1. CASE k = kt
    <3>1. active'[kt] = active[kt] + 1
      BY DEF IInv, TypeOK
    <3>2. Cardinality(Holders(kt) \union {t}) = Cardinality(Holders(kt)) + 1
      BY <1>1, HoldersFinite, FS_AddElement
    <3>3. QED
      BY <1>1, <2>1, <3>1, <3>2 DEF IInv, CountExact
  <2>2. CASE k # kt
    BY <1>1, <2>2 DEF IInv, TypeOK, CountExact
  <2>3. QED
    BY <2>1, <2>2
<1>3. WithinLimit'
  <2> SUFFICES ASSUME NEW k \in Metered, NEW j \in Limits[k]
               PROVE  Cardinality(HoldersUpTo(k, j)') <= j
    BY DEF WithinLimit, Respected, HoldersUpTo
  <2>1. CASE k = kt /\ call[t].limit <= j
    <3>1. HoldersUpTo(k, j)' = HoldersUpTo(k, j) \union {t}
      BY <1>1, <2>1 DEF HoldersUpTo
    <3>2. t \notin HoldersUpTo(k, j)
      BY <1>1, <2>1 DEF HoldersUpTo
    <3>3. Cardinality(HoldersUpTo(k, j)') = Cardinality(HoldersUpTo(k, j)) + 1
      BY <3>1, <3>2, HoldersFinite, FS_AddElement
    <3>4. Cardinality(Holders(k)) < call[t].limit
      BY <2>1 DEF IInv, CountExact, HasRoom
    <3>5. call[t].limit \in Nat /\ j \in Nat
      BY LimitTypes DEF IInv
    <3>6. QED
      BY <2>1, <3>3, <3>4, <3>5, HoldersFinite
  <2>2. CASE ~(k = kt /\ call[t].limit <= j)
    <3>1. HoldersUpTo(k, j)' = HoldersUpTo(k, j)
      BY <1>1, <2>2 DEF HoldersUpTo
    <3>2. QED
      BY <3>1 DEF IInv, WithinLimit, Respected, HoldersUpTo
  <2>3. QED
    BY <2>1, <2>2
<1>4. QED
  BY <1>2, <1>3

(* A release under a named key: the worker was counted, so the decrement   *)
(* takes back its own place.                                               *)
LEMMA Departure ==
  ASSUME IInv, NEW t \in Tasks, slot[t] = "held", call[t].key \in Metered,
         active' = [active EXCEPT ![call[t].key] = Decremented(@)],
         slot' = NotifyAll([slot EXCEPT ![t] = "done"]), UNCHANGED call
  PROVE  CountExact' /\ WithinLimit'
<1> DEFINE kt == call[t].key
<1> USE DEF Metered
<1>1. /\ Holders(kt)' = Holders(kt) \ {t}
      /\ t \in Holders(kt)
      /\ \A k \in Metered : k # kt => Holders(k)' = Holders(k)
  <2>1. \A u \in Tasks : slot'[u] = "held" <=> slot[u] = "held" /\ u # t
    BY DEF NotifyAll, IInv, TypeOK
  <2>2. QED
    BY <2>1 DEF IInv, TypeOK, KeyedHasLimit, Holders
<1>2. CountExact'
  <2> SUFFICES ASSUME NEW k \in Metered
               PROVE  active'[k] = Cardinality(Holders(k)')
    BY DEF CountExact
  <2>1. CASE k = kt
    <3>1. Cardinality(Holders(kt) \ {t}) = Cardinality(Holders(kt)) - 1
      BY <1>1, HoldersFinite, FS_RemoveElement
    <3>2. Cardinality(Holders(kt)) > 0
      <4>1. Holders(kt) # {} /\ IsFiniteSet(Holders(kt))
        BY <1>1, HoldersFinite
      <4>2. Cardinality(Holders(kt)) # 0 /\ Cardinality(Holders(kt)) \in Nat
        BY <4>1, HoldersFinite, FS_EmptySet, Zenon
      <4>3. QED
        BY <4>2
    <3>3. active[kt] > 0 /\ active'[kt] = active[kt] - 1
      BY <3>2 DEF IInv, TypeOK, CountExact, Decremented
    <3>4. QED
      BY <1>1, <2>1, <3>1, <3>3 DEF IInv, CountExact
  <2>2. CASE k # kt
    BY <1>1, <2>2 DEF IInv, TypeOK, CountExact
  <2>3. QED
    BY <2>1, <2>2
<1>3. WithinLimit'
  <2> SUFFICES ASSUME NEW k \in Metered, NEW j \in Limits[k]
               PROVE  Cardinality(HoldersUpTo(k, j)') <= j
    BY DEF WithinLimit, Respected, HoldersUpTo
  <2>1. HoldersUpTo(k, j)' \in SUBSET HoldersUpTo(k, j)
    BY <1>1 DEF HoldersUpTo
  <2>2. Cardinality(HoldersUpTo(k, j)') <= Cardinality(HoldersUpTo(k, j))
    BY <2>1, HoldersFinite, FS_Subset
  <2>3. Cardinality(HoldersUpTo(k, j)') \in Nat
    BY <2>1, HoldersFinite, FS_Subset, FS_CardinalityType
  <2>4. Cardinality(HoldersUpTo(k, j)) <= j
    BY DEF IInv, WithinLimit, Respected, HoldersUpTo
  <2>5. QED
    BY <2>2, <2>3, <2>4, LimitTypes, HoldersFinite DEF IInv
<1>4. QED
  BY <1>2, <1>3

-----------------------------------------------------------------------------
(* The inductive step, one case per action. *)
LEMMA Inductive ==
  ASSUME IInv, [Next]_vars
  PROVE  IInv'
<1>1. TypeOK'
  BY TypeStep DEF IInv
<1>2. KeyedHasLimit'
  <2>1. CASE \E t \in Tasks, k \in Keys \union {NoKey} : Submit(t, k)
    <3>1. PICK t \in Tasks, k \in Keys \union {NoKey} : Submit(t, k)
      BY <2>1
    <3>2. k \in Metered => policy[k] > 0
      BY PolicyTypes DEF IInv, Metered
    <3>3. /\ call'[t] = [key |-> k, limit |-> IF k = NoKey THEN 0 ELSE policy[k]]
          /\ \A u \in Tasks : u # t => call'[u] = call[u]
      BY <3>1 DEF Submit, IInv, TypeOK
    <3>4. QED
      BY <3>2, <3>3, KeysAssumption DEF IInv, KeyedHasLimit, Metered
  <2>2. CASE UNCHANGED call
    BY <2>2 DEF IInv, KeyedHasLimit
  <2>3. QED
    BY <2>1, <2>2 DEF Next, PatchLimit, vars
<1>3. CountExact' /\ WithinLimit'
  <2>1. CASE \E t \in Tasks, k \in Keys \union {NoKey} : Submit(t, k)
    <3>1. PICK t \in Tasks, k \in Keys \union {NoKey} : Submit(t, k)
      BY <2>1
    <3>2. \A u \in Tasks : /\ u # t => slot'[u] = slot[u] /\ call'[u] = call[u]
                          /\ slot[t] # "held" /\ slot'[t] # "held"
      BY <3>1 DEF Submit, IInv, TypeOK
    <3>3. /\ \A q \in Metered : Holders(q)' = Holders(q)
          /\ \A q \in Metered : \A u \in Holders(q) : call'[u] = call[u]
      BY <3>2 DEF Holders
    <3>4. UNCHANGED active
      BY <3>1 DEF Submit
    <3>5. QED
      BY <3>3, <3>4, SameHolders DEF IInv
  <2>2. ASSUME NEW t \in Tasks, Acquire(t) \/ Wake(t), UNCHANGED <<call, policy>>
        PROVE  CountExact' /\ WithinLimit'
    <3>1. call[t].key \in Keys \union {NoKey} /\ slot[t] # "held"
      BY <2>2 DEF Acquire, Wake, IInv, TypeOK, Call
    <3>2. CASE call[t].key \in Metered /\ HasRoom(t)
      <4>1. call[t].limit # 0 /\ call[t].key # NoKey
        BY <3>2, KeysAssumption, LimitTypes DEF IInv, KeyedHasLimit, Metered
      <4>2. /\ active' = [active EXCEPT ![call[t].key] = @ + 1]
            /\ slot' = [slot EXCEPT ![t] = "held"]
        BY <2>2, <3>2, <4>1 DEF Acquire, Wake, TakeOrWait, Uncounted
      <4>3. QED
        BY <2>2, <3>1, <3>2, <4>2, Admission
    <3>3. CASE call[t].key \in Metered /\ ~HasRoom(t)
      <4>1. call[t].limit # 0 /\ call[t].key # NoKey
        BY <3>3, KeysAssumption, LimitTypes DEF IInv, KeyedHasLimit, Metered
      <4>2. UNCHANGED active /\ slot' = [slot EXCEPT ![t] = "waiting"]
        BY <2>2, <3>3, <4>1 DEF Acquire, Wake, TakeOrWait, Uncounted
      <4>3. /\ \A q \in Metered : Holders(q)' = Holders(q)
            /\ \A q \in Metered : \A u \in Holders(q) : call'[u] = call[u]
        BY <2>2, <3>1, <4>2 DEF Holders, IInv, TypeOK
      <4>4. QED
        BY <4>2, <4>3, SameHolders DEF IInv
    <3>4. CASE call[t].key \notin Metered
      <4>1. \A q \in Metered : active'[q] = active[q]
        BY <2>2, <3>4 DEF Acquire, Wake, TakeOrWait, IInv, TypeOK, Metered
      <4>2. \A u \in Tasks : u # t => slot'[u] = slot[u]
        BY <2>2 DEF Acquire, Wake, TakeOrWait, IInv, TypeOK
      <4>3. /\ \A q \in Metered : Holders(q)' = Holders(q)
            /\ \A q \in Metered : \A u \in Holders(q) : call'[u] = call[u]
        BY <2>2, <3>4, <4>2 DEF Holders
      <4>4. QED
        BY <4>1, <4>3, SameHolders DEF IInv
    <3>5. QED
      BY <3>1, <3>2, <3>3, <3>4
  <2>3. ASSUME NEW t \in Tasks, Release(t), UNCHANGED <<call, policy>>
        PROVE  CountExact' /\ WithinLimit'
    <3>1. CASE call[t].key \notin Metered
      <4>1. \A q \in Metered : active'[q] = active[q]
        BY <2>3, <3>1 DEF Release, IInv, TypeOK, Metered
      <4>2. \A u \in Tasks : u # t => (slot'[u] = "held" <=> slot[u] = "held")
        BY <2>3 DEF Release, NotifyAll, IInv, TypeOK
      <4>3. /\ \A q \in Metered : Holders(q)' = Holders(q)
            /\ \A q \in Metered : \A u \in Holders(q) : call'[u] = call[u]
        BY <2>3, <3>1, <4>2 DEF Holders
      <4>4. QED
        BY <4>1, <4>3, SameHolders DEF IInv
    <3>2. CASE call[t].key \in Metered
      <4>1. call[t].key # NoKey /\ slot[t] = "held"
        BY <2>3, <3>2, KeysAssumption DEF Release, Metered
      <4>2. QED
        BY <2>3, <3>2, <4>1, Departure DEF Release
    <3>3. QED
      BY <3>1, <3>2
  <2>4. CASE UNCHANGED <<active, slot, call>>
    BY <2>4, SameHolders DEF Holders, IInv
  <2>5. QED
    BY <2>1, <2>2, <2>3, <2>4 DEF Next, PatchLimit, vars
<1>4. QED
  BY <1>1, <1>2, <1>3 DEF IInv

(* The initial states satisfy the inductive invariant. *)
LEMMA Initial == Init => IInv
<1> SUFFICES ASSUME Init PROVE IInv
  OBVIOUS
<1>1. \A k, j : Holders(k) = {} /\ HoldersUpTo(k, j) = {}
  BY DEF Init, Holders, HoldersUpTo
<1>2. CountExact
  BY <1>1, FS_EmptySet DEF CountExact, Init, Metered
<1>3. \A k \in Metered : \A j \in Limits[k] : j \in Nat
  BY LimitTypes, TypeInit
<1>4. \A k \in Metered : \A j \in Limits[k] : Cardinality(HoldersUpTo(k, j)) <= j
  BY <1>1, <1>3, FS_EmptySet
<1>5. WithinLimit
  BY <1>4 DEF WithinLimit, Respected, HoldersUpTo
<1>6. QED
  BY <1>2, <1>5, TypeInit, KeysAssumption DEF IInv, Init, KeyedHasLimit, Metered

(* The limiter keeps every key within its limit, whatever positive values  *)
(* the administrator sets while tasks run (server.py:160-183).             *)
THEOREM LimitHolds == Spec => []WithinLimit
<1>1. IInv /\ [Next]_vars => IInv'
  BY Inductive
<1>2. IInv => WithinLimit
  BY DEF IInv
<1>3. QED
  BY <1>1, <1>2, Initial, PTL DEF Spec

(* The counter of each key is the number of workers inside: nothing leaks  *)
(* and nothing is given back twice (server.py:171-183).                    *)
THEOREM CounterExact == Spec => []CountExact
<1>1. IInv /\ [Next]_vars => IInv'
  BY Inductive
<1>2. IInv => CountExact
  BY DEF IInv
<1>3. QED
  BY <1>1, <1>2, Initial, PTL DEF Spec

-----------------------------------------------------------------------------
(* Only a worker whose key is counted sleeps. *)
WaiterCounted ==
  \A t \in Tasks : slot[t] \in {"waiting", "notified"} => call[t].key \in Keys

WInv == TypeOK /\ WaiterCounted /\ NoLostWakeup

LEMMA WakeupStep ==
  ASSUME WInv, [Next]_vars
  PROVE  WaiterCounted' /\ NoLostWakeup'
<1> USE KeysAssumption DEF WInv, TypeOK, SlotState, Call
<1>1. \A t \in Tasks : call[t].limit \in Nat /\ call[t].key \in Keys \union {NoKey}
  OBVIOUS
<1>2. CASE \E t \in Tasks, k \in Keys \union {NoKey} : Submit(t, k)
  <2>1. PICK t \in Tasks, k \in Keys \union {NoKey} : Submit(t, k)
    BY <1>2
  <2>2. /\ UNCHANGED active /\ slot'[t] = "called"
        /\ \A u \in Tasks : u # t => slot'[u] = slot[u] /\ call'[u] = call[u]
    BY <2>1 DEF Submit
  <2>3. QED
    BY <2>2 DEF WaiterCounted, NoLostWakeup
<1>3. ASSUME NEW t \in Tasks, slot[t] \in {"called", "notified"}, call[t].key \in Keys,
             TakeOrWait(t), UNCHANGED call
      PROVE  WaiterCounted' /\ NoLostWakeup'
  <2>1. \A u \in Tasks : u # t => slot'[u] = slot[u]
    BY <1>3 DEF TakeOrWait
  <2>2. CASE HasRoom(t)
    <3>1. /\ slot'[t] = "held"
          /\ \A k \in Keys : active'[k] \in Nat /\ active'[k] >= active[k]
      BY <1>3, <2>2 DEF TakeOrWait
    <3>2. WaiterCounted'
      BY <1>3, <2>1, <3>1 DEF WaiterCounted
    <3>3. NoLostWakeup'
      <4> SUFFICES ASSUME NEW u \in Tasks, slot'[u] = "waiting"
                   PROVE  active'[call[u].key] >= call[u].limit
        BY <1>3 DEF NoLostWakeup
      <4>1. u # t /\ slot[u] = "waiting" /\ call[u].key \in Keys
        BY <2>1, <3>1 DEF WaiterCounted
      <4>2. QED
        BY <1>1, <3>1, <4>1 DEF NoLostWakeup
    <3>4. QED
      BY <3>2, <3>3
  <2>3. CASE ~HasRoom(t)
    <3>1. UNCHANGED active
      BY <1>3, <2>3 DEF TakeOrWait
    <3>2. active[call[t].key] >= call[t].limit
      BY <1>1, <1>3, <2>3 DEF HasRoom
    <3>3. QED
      BY <1>3, <2>1, <3>1, <3>2 DEF WaiterCounted, NoLostWakeup
  <2>4. QED
    BY <2>2, <2>3
<1>4. ASSUME NEW t \in Tasks, Acquire(t), UNCHANGED <<call, policy>>
      PROVE  WaiterCounted' /\ NoLostWakeup'
  <2>1. CASE Uncounted(t) /\ slot' = [slot EXCEPT ![t] = "held"] /\ UNCHANGED active
    BY <1>4, <2>1 DEF WaiterCounted, NoLostWakeup
  <2>2. CASE ~Uncounted(t) /\ TakeOrWait(t)
    BY <1>1, <1>3, <1>4, <2>2 DEF Acquire, Uncounted
  <2>3. QED
    BY <1>4, <2>1, <2>2 DEF Acquire
<1>5. ASSUME NEW t \in Tasks, Wake(t), UNCHANGED <<call, policy>>
      PROVE  WaiterCounted' /\ NoLostWakeup'
  BY <1>3, <1>5 DEF Wake, WaiterCounted
<1>6. ASSUME NEW t \in Tasks, Release(t), UNCHANGED <<call, policy>>
      PROVE  WaiterCounted' /\ NoLostWakeup'
  <2>1. CASE slot' = [slot EXCEPT ![t] = "done"] /\ UNCHANGED active
    BY <1>6, <2>1 DEF WaiterCounted, NoLostWakeup
  <2>2. CASE slot' = NotifyAll([slot EXCEPT ![t] = "done"])
    <3>1. \A u \in Tasks : /\ slot'[u] # "waiting"
                           /\ slot'[u] = "notified" => slot[u] \in {"waiting", "notified"}
      BY <2>2 DEF NotifyAll
    <3>2. NoLostWakeup'
      BY <3>1 DEF NoLostWakeup
    <3>3. WaiterCounted'
      <4> SUFFICES ASSUME NEW u \in Tasks, slot'[u] = "notified"
                   PROVE  call[u].key \in Keys
        BY <1>6, <3>1 DEF WaiterCounted
      <4>1. slot[u] \in {"waiting", "notified"}
        BY <3>1
      <4>2. QED
        BY <4>1 DEF WaiterCounted
    <3>4. QED
      BY <3>2, <3>3
  <2>3. QED
    BY <1>6, <2>1, <2>2 DEF Release
<1>7. CASE UNCHANGED <<active, slot, call>>
  BY <1>7 DEF WaiterCounted, NoLostWakeup
<1>8. QED
  BY <1>2, <1>4, <1>5, <1>6, <1>7 DEF Next, PatchLimit, vars

(* No worker sleeps while its key has room: every place that is given back *)
(* wakes all who wait, of whatever key (server.py:171-183).                *)
THEOREM WakeupsReach == Spec => []NoLostWakeup
<1>1. Init => WInv
  BY TypeInit DEF Init, WInv, WaiterCounted, NoLostWakeup
<1>2. WInv /\ [Next]_vars => WInv'
  BY TypeStep, WakeupStep DEF WInv
<1>3. WInv => NoLostWakeup
  BY DEF WInv
<1>4. QED
  BY <1>1, <1>2, <1>3, PTL DEF Spec
=============================================================================
