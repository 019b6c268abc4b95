------------------------- MODULE BrowserPoolProofs -------------------------
(***************************************************************************)
(* Proofs about BrowserPool for every set of tasks, accounts and permits,  *)
(* and however often accounts are removed and added again.                 *)
(***************************************************************************)
EXTENDS BrowserPool, SequenceTheorems, FiniteSetTheorems, TLAPS

(* A task that uses an account holds the lock it got for it, and the other *)
(* way round: this is what makes the lock mean what the scheduler takes it *)
(* to mean.  While no removal dropped it, it is free exactly when nobody   *)
(* uses the profile.                                                       *)
UserHoldsLock ==
  \A t \in Tasks : Using(t) =>
    at[t] \in Accounts /\ lock[at[t]][mine[t]].holder = t

HolderUses ==
  \A a \in Accounts, g \in Eras, t \in Tasks :
    lock[a][g].holder = t => Using(t) /\ at[t] = a /\ mine[t] = g

WaiterHasAccount ==
  \A t \in Tasks : pc[t] = "locking" => at[t] \in Accounts

(* Nobody has a lock that is yet to come: a removal makes every lock that  *)
(* is asked for or held a dropped one.                                     *)
LockOfItsTime ==
  /\ \A t \in Tasks : Using(t) \/ pc[t] = "locking" => mine[t] <= era[at[t]]
  /\ \A a \in Accounts : era[a] <= edits

DrivenExists ==
  \A t \in Tasks : Driving(t) => account[at[t]].exists \/ Dropped(t)

LockInv == UserHoldsLock /\ HolderUses /\ WaiterHasAccount /\ LockOfItsTime

IInv == TypeOK /\ LockInv /\ DrivenExists

-----------------------------------------------------------------------------
LEMMA JobKinds ==
  ASSUME NEW t \in Tasks
  PROVE  /\ Resume(t) \/ Image(t) \/ Video(t)
         /\ Job[t].pin \in Accounts \union {NoAccount}
         /\ Resume(t) => Job[t].pin \in Accounts
         /\ Retry(t) => Job[t].pin \in Accounts
         /\ MediaOf(t) \in Media
BY JobAssumption DEF Resume, Image, Video, Retry, MediaOf, Media

LEMMA UsableAreAccounts ==
  ASSUME TypeOK, NEW t \in Tasks
  PROVE  Usable(t) \subseteq Accounts
<1>1. CASE Resume(t)
  BY <1>1, JobKinds DEF Usable, Retry, Resume, Image, Video
<1>2. CASE Retry(t)
  BY <1>2, JobKinds DEF Usable, Retry
<1>3. CASE ~Resume(t) /\ ~Retry(t)
  BY <1>3, JobKinds DEF Usable, TypeOK, Image, Video, Resume
<1>4. QED
  BY <1>1, <1>2, <1>3

-----------------------------------------------------------------------------
(* The three ways in which a lock changes: it is got or looked at under    *)
(* it, one more task asks for it, it is given back.                        *)
Locks == [Accounts -> [Eras -> Lock]]

LEMMA Halves ==
  ASSUME NEW H, NEW Q, NEW m \in [holder : H, queue : Q], NEW h \in H, NEW q \in Q
  PROVE  /\ m.holder \in H /\ m.queue \in Q
         /\ [m EXCEPT !.queue = q] = [holder |-> m.holder, queue |-> q]
         /\ [m EXCEPT !.holder = h] = [holder |-> h, queue |-> m.queue]
         /\ [holder |-> m.holder, queue |-> q] \in [holder : H, queue : Q]
         /\ [holder |-> h, queue |-> m.queue] \in [holder : H, queue : Q]
OBVIOUS

LEMMA LockHalves ==
  ASSUME NEW m \in Lock, NEW h \in Tasks \union {NoTask}, NEW q \in Seq(Tasks)
  PROVE  /\ m.holder \in Tasks \union {NoTask} /\ m.queue \in Seq(Tasks)
         /\ [m EXCEPT !.queue = q] = [holder |-> m.holder, queue |-> q]
         /\ [m EXCEPT !.holder = h] = [holder |-> h, queue |-> m.queue]
         /\ [holder |-> m.holder, queue |-> q] \in Lock
         /\ [holder |-> h, queue |-> m.queue] \in Lock
<1> DEFINE H == Tasks \union {NoTask}
           Q == Seq(Tasks)
<1>1. m \in [holder : H, queue : Q] /\ h \in H /\ q \in Q
  BY DEF Lock
<1> HIDE DEF H, Q
<1>2. /\ m.holder \in H /\ m.queue \in Q
      /\ [m EXCEPT !.queue = q] = [holder |-> m.holder, queue |-> q]
      /\ [m EXCEPT !.holder = h] = [holder |-> h, queue |-> m.queue]
      /\ [holder |-> m.holder, queue |-> q] \in [holder : H, queue : Q]
      /\ [holder |-> h, queue |-> m.queue] \in [holder : H, queue : Q]
  BY <1>1, Halves
<1>3. QED
  BY <1>2 DEF H, Q, Lock

LEMMA OneLock ==
  ASSUME NEW f \in Locks, NEW a \in Accounts, NEW g \in Eras, NEW r \in Lock,
         NEW f2, f2 = [f EXCEPT ![a] = [f[a] EXCEPT ![g] = r]]
  PROVE  /\ f2 \in Locks
         /\ f2[a][g] = r
         /\ \A b \in Accounts, h \in Eras : b # a \/ h # g => f2[b][h] = f[b][h]
<1>1. [f[a] EXCEPT ![g] = r] \in [Eras -> Lock]
  BY DEF Locks
<1>2. f2 \in Locks
  BY <1>1 DEF Locks
<1>3. f2[a] = [f[a] EXCEPT ![g] = r] /\ \A b \in Accounts : b # a => f2[b] = f[b]
  BY DEF Locks
<1>4. f[a] \in [Eras -> Lock]
  BY DEF Locks
<1>5. f2[a][g] = r /\ \A h \in Eras : h # g => f2[a][h] = f[a][h]
  BY <1>3, <1>4
<1>6. QED
  BY <1>2, <1>3, <1>5

Others(t) ==
  \A u \in Tasks : u # t => pc'[u] = pc[u] /\ at'[u] = at[u] /\ mine'[u] = mine[u]

OtherLocks(a, g) ==
  \A b \in Accounts, h \in Eras : b # a \/ h # g => lock'[b][h] = lock[b][h]

TypedMove ==
  /\ lock' \in Locks /\ pc' \in [Tasks -> PC]
  /\ at' \in [Tasks -> Accounts \union {NoAccount}] /\ mine' \in [Tasks -> Eras]

LEMMA WithLockEffect ==
  ASSUME TypeOK, NEW t \in Tasks, NEW a \in Accounts, NEW g \in Eras, NEW q \in Seq(Tasks),
         WithLock(t, a, g, q)
  PROVE  /\ TypedMove /\ Others(t) /\ OtherLocks(a, g)
         /\ lock'[a][g].queue = q
         /\ \/ /\ StillFit(t, a) /\ lock'[a][g].holder = t
               /\ pc'[t] = "launching" /\ at'[t] = a /\ mine'[t] = g
            \/ /\ ~StillFit(t, a) /\ lock'[a][g].holder = lock[a][g].holder
               /\ pc'[t] \in {"scan", "failed"}
<1> USE DEF TypeOK
<1>0. lock \in Locks /\ lock[a][g] \in Lock
  BY DEF Locks
<1>1. CASE StillFit(t, a)
  <2>1. [holder |-> t, queue |-> q] \in Lock
    BY DEF Lock
  <2>2. lock' = [lock EXCEPT ![a] = [lock[a] EXCEPT ![g] = [holder |-> t, queue |-> q]]]
    BY <1>1 DEF WithLock
  <2>3. /\ lock' \in Locks /\ lock'[a][g] = [holder |-> t, queue |-> q] /\ OtherLocks(a, g)
    BY <1>0, <2>1, <2>2, OneLock DEF OtherLocks
  <2>4. /\ pc' = [pc EXCEPT ![t] = "launching"] /\ at' = [at EXCEPT ![t] = a]
        /\ mine' = [mine EXCEPT ![t] = g]
    BY <1>1 DEF WithLock, Goto
  <2>5. TypedMove /\ Others(t)
    BY <2>3, <2>4 DEF TypedMove, Others, PC
  <2>6. QED
    BY <1>1, <2>3, <2>4, <2>5
<1>2. CASE ~StillFit(t, a)
  <2> DEFINE r == [holder |-> lock[a][g].holder, queue |-> q]
  <2>1. r \in Lock /\ [lock[a][g] EXCEPT !.queue = q] = r
    BY <1>0, LockHalves
  <2>2. lock' = [lock EXCEPT ![a] = [lock[a] EXCEPT ![g] = [lock[a][g] EXCEPT !.queue = q]]]
    BY <1>2 DEF WithLock
  <2>3. lock' = [lock EXCEPT ![a] = [lock[a] EXCEPT ![g] = r]]
    BY <2>1, <2>2
  <2>4. lock' \in Locks /\ lock'[a][g] = r /\ OtherLocks(a, g)
    <3> HIDE DEF r
    <3> QED
      BY <1>0, <2>1, <2>3, OneLock DEF OtherLocks
  <2>5. PICK p \in {"scan", "failed"} :
          /\ pc' = [pc EXCEPT ![t] = p] /\ at' = [at EXCEPT ![t] = NoAccount]
          /\ mine' = [mine EXCEPT ![t] = 0]
    BY <1>2 DEF WithLock, Goto
  <2>6. TypedMove /\ Others(t)
    BY <2>4, <2>5, NumbersAssumption DEF TypedMove, Others, PC, Ended, Eras
  <2>7. QED
    BY <1>2, <2>4, <2>5, <2>6
<1>3. QED
  BY <1>1, <1>2

(* The second half of Choose: to the end of the queue. *)
Asks(t, a) ==
  /\ lock' = [lock EXCEPT ![a][era[a]].queue = Append(@, t)]
  /\ Goto(t, "locking")
  /\ at' = [at EXCEPT ![t] = a] /\ mine' = [mine EXCEPT ![t] = era[a]]

LEMMA AsksEffect ==
  ASSUME TypeOK, NEW t \in Tasks, NEW a \in Accounts, Asks(t, a)
  PROVE  /\ TypedMove /\ Others(t) /\ OtherLocks(a, era[a])
         /\ lock'[a][era[a]].queue = Append(lock[a][era[a]].queue, t)
         /\ lock'[a][era[a]].holder = lock[a][era[a]].holder
         /\ pc'[t] = "locking" /\ at'[t] = a /\ mine'[t] = era[a]
<1> USE DEF TypeOK
<1> DEFINE g == era[a]
           mutex == lock[a][g]
           r == [holder |-> mutex.holder, queue |-> Append(mutex.queue, t)]
<1>0. lock \in Locks /\ g \in Eras /\ mutex \in Lock
  BY DEF Locks
<1>1. r \in Lock /\ [mutex EXCEPT !.queue = Append(mutex.queue, t)] = r
  <2> HIDE DEF mutex
  <2>1. mutex.queue \in Seq(Tasks)
    BY <1>0, LockHalves, <<>> \in Seq(Tasks)
  <2>2. Append(mutex.queue, t) \in Seq(Tasks)
    BY <2>1, AppendProperties
  <2>3. QED
    BY <1>0, <2>2, LockHalves
<1>2. lock' = [lock EXCEPT ![a] = [lock[a] EXCEPT ![g] =
                 [mutex EXCEPT !.queue = Append(mutex.queue, t)]]]
  BY DEF Asks
<1>3. lock' = [lock EXCEPT ![a] = [lock[a] EXCEPT ![g] = r]]
  BY <1>1, <1>2
<1>4. lock' \in Locks /\ lock'[a][g] = r /\ OtherLocks(a, g)
  <2> HIDE DEF r, g, mutex
  <2> QED
    BY <1>0, <1>1, <1>3, OneLock DEF OtherLocks
<1>5. /\ pc' = [pc EXCEPT ![t] = "locking"] /\ at' = [at EXCEPT ![t] = a]
      /\ mine' = [mine EXCEPT ![t] = g]
  BY DEF Asks, Goto
<1>6. TypedMove /\ Others(t)
  BY <1>0, <1>4, <1>5 DEF TypedMove, Others, PC
<1>7. QED
  BY <1>4, <1>5, <1>6

LEMMA LeaveEffect ==
  ASSUME TypeOK, NEW t \in Tasks, at[t] \in Accounts, NEW p \in PC, Leave(t, p)
  PROVE  /\ TypedMove /\ Others(t) /\ OtherLocks(at[t], mine[t])
         /\ lock'[at[t]][mine[t]].queue = lock[at[t]][mine[t]].queue
         /\ lock'[at[t]][mine[t]].holder = NoTask
         /\ pc'[t] = p
         /\ cands' \in [Tasks -> SUBSET Accounts]
         /\ UNCHANGED <<era, verifying, signing, edits>>
<1> USE DEF TypeOK
<1> DEFINE a == at[t]
           g == mine[t]
           mutex == lock[a][g]
           r == [holder |-> NoTask, queue |-> mutex.queue]
<1>0. lock \in Locks /\ a \in Accounts /\ g \in Eras /\ mutex \in Lock
  BY DEF Locks
<1>1. r \in Lock /\ [mutex EXCEPT !.holder = NoTask] = r
  <2> HIDE DEF mutex
  <2> QED
    BY <1>0, LockHalves, <<>> \in Seq(Tasks)
<1>2. lock' = [lock EXCEPT ![a] = [lock[a] EXCEPT ![g] = [mutex EXCEPT !.holder = NoTask]]]
  BY DEF Leave
<1>3. lock' = [lock EXCEPT ![a] = [lock[a] EXCEPT ![g] = r]]
  BY <1>1, <1>2
<1>4. lock' \in Locks /\ lock'[a][g] = r /\ OtherLocks(a, g)
  <2> HIDE DEF r, g, a, mutex
  <2> QED
    BY <1>0, <1>1, <1>3, OneLock DEF OtherLocks
<1>5. /\ pc' = [pc EXCEPT ![t] = p] /\ at' = [at EXCEPT ![t] = NoAccount]
      /\ mine' = [mine EXCEPT ![t] = 0]
  BY DEF Leave, Goto
<1>6. TypedMove /\ Others(t)
  BY <1>4, <1>5, NumbersAssumption DEF TypedMove, Others, Eras
<1>7. cands' \in [Tasks -> SUBSET Accounts] /\ UNCHANGED <<era, verifying, signing, edits>>
  BY DEF Leave, admin
<1>8. pc'[t] = p
  BY <1>5
<1> HIDE DEF mutex
<1>9. r.queue = mutex.queue /\ r.holder = NoTask
  OBVIOUS
<1> HIDE DEF r
<1>10. lock'[a][g].queue = mutex.queue /\ lock'[a][g].holder = NoTask /\ OtherLocks(a, g)
  BY <1>4, <1>9
<1>11. QED
  BY <1>6, <1>7, <1>8, <1>10 DEF mutex

LEMMA Initial == Init => IInv
<1> SUFFICES ASSUME Init PROVE IInv
  OBVIOUS
<1>1. TypeOK
  <2>1. Unlocked \in Lock /\ 0 \in Eras
    BY NumbersAssumption DEF Unlocked, Lock, Eras
  <2>2. lock \in [Accounts -> [Eras -> Lock]]
    BY <2>1 DEF Init
  <2>3. account \in [Accounts -> AccountRow]
    BY DEF Init
  <2>4. QED
    BY <2>1, <2>2, <2>3, NumbersAssumption DEF Init, TypeOK, PC
<1>2. UserHoldsLock /\ WaiterHasAccount /\ DrivenExists
  BY DEF Init, UserHoldsLock, WaiterHasAccount, DrivenExists, Using, Driving
<1>3. HolderUses
  BY TasksAssumption DEF Init, HolderUses, Unlocked
<1>4. LockOfItsTime
  BY DEF Init, LockOfItsTime, Using
<1>5. QED
  BY <1>1, <1>2, <1>3, <1>4 DEF IInv, LockInv
-----------------------------------------------------------------------------
(* The kinds of step: a generation's turn that touches no lock, the ways   *)
(* of leaving an account, and the steps that get or ask for a lock.        *)
LEMMA Quiet ==
  ASSUME TypeOK, NEW t \in Tasks, Enter(t) \/ Exhausted(t) \/ Launch(t) \/ Send(t)
  PROVE  /\ UNCHANGED <<account, lock, era, at, mine, verifying, signing, edits>>
         /\ pc' \in [Tasks -> PC] /\ cands' \in [Tasks -> SUBSET Accounts]
         /\ \A u \in Tasks : u # t => pc'[u] = pc[u]
         /\ pc[t] # "locking" /\ pc'[t] # "locking" /\ (Using(t) <=> Using(t)')
BY DEF TypeOK, Enter, Exhausted, Launch, Send, Goto, locks, admin, PC, Ended, Using

LEMMA Leaving ==
  ASSUME IInv, NEW t \in Tasks,
         Complete(t) \/ Fail(t) \/ Restricted(t) \/ LoginExpired(t) \/ LaunchFailed(t)
  PROVE  /\ Using(t) /\ at[t] \in Accounts
         /\ \E p \in Ended \union {"scan"} : Leave(t, p)
         /\ account' \in [Accounts -> AccountRow]
         /\ \A a \in Accounts : account'[a].exists = account[a].exists
<1> USE DEF IInv, LockInv, TypeOK
<1>1. Using(t) /\ at[t] \in Accounts
  BY DEF Complete, Fail, Restricted, LoginExpired, LaunchFailed, Using, Driving, UserHoldsLock
<1>2. \E p \in Ended \union {"scan"} : Leave(t, p)
  BY DEF Complete, Fail, Restricted, LoginExpired, LaunchFailed, Ended
<1>3. /\ account' \in [Accounts -> AccountRow]
      /\ \A a \in Accounts : account'[a].exists = account[a].exists
  <2>1. account[at[t]] \in AccountRow
    BY <1>1
  <2>2. ASSUME NEW r \in AccountRow, account' = [account EXCEPT ![at[t]] = r],
               r.exists = account[at[t]].exists
        PROVE  /\ account' \in [Accounts -> AccountRow]
               /\ \A a \in Accounts : account'[a].exists = account[a].exists
    BY <1>1, <2>2
  <2>3. CASE Complete(t)
    <3>1. [account[at[t]] EXCEPT !.restricted = Lifted(t)] \in AccountRow
      BY <1>1, <2>1 DEF Lifted, AccountRow
    <3>2. [account[at[t]] EXCEPT !.restricted = Lifted(t)].exists = account[at[t]].exists
      BY <2>1 DEF AccountRow
    <3>3. QED
      BY <2>2, <2>3, <3>1, <3>2 DEF Complete
  <2>4. CASE Restricted(t)
    <3> DEFINE s == account[at[t]].restricted \union {MediaOf(t)}
    <3>1. [account[at[t]] EXCEPT !.row = TRUE, !.restricted = s] \in AccountRow
      BY <2>1, JobKinds DEF AccountRow
    <3>2. [account[at[t]] EXCEPT !.row = TRUE, !.restricted = s].exists = account[at[t]].exists
      BY <2>1 DEF AccountRow
    <3>3. account' = [account EXCEPT ![at[t]] =
                        [account[at[t]] EXCEPT !.row = TRUE, !.restricted = s]]
      BY <1>1, <2>1, <2>4 DEF Restricted, AccountRow
    <3>4. QED
      BY <2>2, <3>1, <3>2, <3>3
  <2>5. CASE LoginExpired(t)
    <3>1. [account[at[t]] EXCEPT !.row = TRUE, !.login = FALSE] \in AccountRow
      BY <2>1 DEF AccountRow
    <3>2. [account[at[t]] EXCEPT !.row = TRUE, !.login = FALSE].exists = account[at[t]].exists
      BY <2>1 DEF AccountRow
    <3>3. account' = [account EXCEPT ![at[t]] =
                        [account[at[t]] EXCEPT !.row = TRUE, !.login = FALSE]]
      BY <1>1, <2>1, <2>5 DEF LoginExpired, AccountRow
    <3>4. QED
      BY <2>2, <3>1, <3>2, <3>3
  <2>6. CASE Fail(t) \/ LaunchFailed(t)
    BY <2>6 DEF Fail, LaunchFailed
  <2>7. QED
    BY <2>3, <2>4, <2>5, <2>6
<1>4. QED
  BY <1>1, <1>2, <1>3

LEMMA Choosing ==
  ASSUME TypeOK, NEW t \in Tasks, Choose(t)
  PROVE  /\ \E a \in Usable(t) : \/ Available(a) /\ WithLock(t, a, era[a], <<>>)
                                 \/ Asks(t, a)
         /\ ~Using(t) /\ pc[t] # "locking"
         /\ cands' \in [Tasks -> SUBSET Accounts]
         /\ UNCHANGED <<account, era, verifying, signing, edits>>
<1> USE DEF TypeOK
<1>1. PICK a \in Usable(t) :
         /\ cands' = [cands EXCEPT ![t] = {c \in cands[t] : c > a}]
         /\ \/ Available(a) /\ WithLock(t, a, era[a], <<>>)
            \/ Asks(t, a)
  BY DEF Choose, Asks
<1>2. cands' \in [Tasks -> SUBSET Accounts]
  BY <1>1
<1>3. QED
  BY <1>1, <1>2 DEF Choose, Using, admin

LEMMA Granting ==
  ASSUME IInv, NEW t \in Tasks, Granted(t)
  PROVE  /\ at[t] \in Accounts /\ mine[t] \in Eras /\ mine[t] <= era[at[t]]
         /\ ~Using(t) /\ pc[t] = "locking"
         /\ lock[at[t]][mine[t]].holder = NoTask
         /\ lock[at[t]][mine[t]].queue \in Seq(Tasks)
         /\ lock[at[t]][mine[t]].queue # <<>> /\ Head(lock[at[t]][mine[t]].queue) = t
         /\ Tail(lock[at[t]][mine[t]].queue) \in Seq(Tasks)
         /\ WithLock(t, at[t], mine[t], Tail(lock[at[t]][mine[t]].queue))
         /\ UNCHANGED <<account, era, cands, verifying, signing, edits>>
<1> USE DEF IInv, LockInv, TypeOK
<1>1. at[t] \in Accounts /\ mine[t] \in Eras
  BY DEF Granted, WaiterHasAccount
<1>2. lock[at[t]][mine[t]] \in Lock
  BY <1>1
<1>3. lock[at[t]][mine[t]].queue \in Seq(Tasks)
  BY <1>2, LockHalves, <<>> \in Seq(Tasks)
<1>4. Tail(lock[at[t]][mine[t]].queue) \in Seq(Tasks)
  BY <1>3 DEF Granted
<1>5. QED
  BY <1>1, <1>3, <1>4 DEF Granted, Using, LockOfItsTime, admin

(* What the administrator does to the accounts and their locks. *)
LEMMA Administering ==
  ASSUME IInv, NEW a \in Accounts, Administer(a)
  PROVE  /\ TypeOK' /\ UNCHANGED <<lock, pc, at, mine, cands>>
         /\ \/ DeleteAccount(a)
            \/ /\ UNCHANGED era /\ edits <= edits'
               /\ \A b \in Accounts : account[b].exists => account'[b].exists
               /\ \A b \in Accounts : account'[b].restricted = account[b].restricted
<1> USE NumbersAssumption DEF IInv, LockInv, TypeOK, Edit, locks
<1>0. account[a] \in AccountRow
  OBVIOUS
<1>1. ASSUME NEW r \in AccountRow, account' = [account EXCEPT ![a] = r],
             account[a].exists => r.exists, r.restricted = account[a].restricted
      PROVE  /\ account' \in [Accounts -> AccountRow]
             /\ \A b \in Accounts : account[b].exists => account'[b].exists
             /\ \A b \in Accounts : account'[b].restricted = account[b].restricted
  BY <1>1
<1>2. ASSUME NEW ok \in BOOLEAN, account' = [account EXCEPT ![a].login = ok]
      PROVE  /\ account' \in [Accounts -> AccountRow]
             /\ \A b \in Accounts : account[b].exists => account'[b].exists
             /\ \A b \in Accounts : account'[b].restricted = account[b].restricted
  <2>1. /\ [account[a] EXCEPT !.login = ok] \in AccountRow
        /\ [account[a] EXCEPT !.login = ok].exists = account[a].exists
        /\ [account[a] EXCEPT !.login = ok].restricted = account[a].restricted
    BY <1>0 DEF AccountRow
  <2>2. QED
    BY <1>1, <1>2, <2>1
<1>3. CASE SetScheduling(a)
  <2> DEFINE r == [account[a] EXCEPT !.scheduling = ~account[a].scheduling]
  <2>1. (~account[a].scheduling) \in BOOLEAN
    OBVIOUS
  <2>2. r \in AccountRow /\ r.exists = account[a].exists
        /\ r.restricted = account[a].restricted
    BY <1>0, <2>1 DEF AccountRow
  <2>3. account' = [account EXCEPT ![a] = r]
    BY <1>3 DEF SetScheduling
  <2> HIDE DEF r
  <2>4. /\ account' \in [Accounts -> AccountRow]
        /\ \A b \in Accounts : account[b].exists => account'[b].exists
        /\ \A b \in Accounts : account'[b].restricted = account[b].restricted
    BY <1>1, <2>2, <2>3
  <2>5. QED
    BY <1>3, <2>4 DEF SetScheduling
<1>4. CASE DeleteAccount(a)
  <2>1. Removed \in AccountRow
    BY DEF Removed, AccountRow
  <2>2. account' \in [Accounts -> AccountRow]
    BY <1>4, <2>1 DEF DeleteAccount
  <2>3. era[a] \in Eras /\ era[a] <= edits /\ edits < MaxEdits
    BY <1>4 DEF DeleteAccount, LockOfItsTime
  <2>4. era[a] + 1 \in Eras
    BY <2>3 DEF Eras
  <2>5. era' \in [Accounts -> Eras]
    BY <1>4, <2>4 DEF DeleteAccount
  <2>6. QED
    BY <1>4, <2>2, <2>5 DEF DeleteAccount
<1>5. CASE VerifyAccount(a)
  BY <1>5 DEF VerifyAccount
<1>6. CASE Verified(a)
  <2>1. /\ account' \in [Accounts -> AccountRow]
        /\ \A b \in Accounts : account[b].exists => account'[b].exists
        /\ \A b \in Accounts : account'[b].restricted = account[b].restricted
    <3>1. CASE UNCHANGED account
      BY <3>1
    <3>2. ASSUME NEW ok \in BOOLEAN,
                 account' = [account EXCEPT ![a].login = ok /\ account[a].row]
          PROVE  /\ account' \in [Accounts -> AccountRow]
                 /\ \A b \in Accounts : account[b].exists => account'[b].exists
                 /\ \A b \in Accounts : account'[b].restricted = account[b].restricted
      <4>1. (ok /\ account[a].row) \in BOOLEAN
        OBVIOUS
      <4>2. QED
        BY <1>2, <3>2, <4>1
    <3>3. QED
      BY <1>6, <3>1, <3>2 DEF Verified
  <2>2. QED
    BY <1>6, <2>1 DEF Verified
<1>7. CASE SignIn(a)
  <2> DEFINE r == [account[a] EXCEPT !.exists = TRUE, !.row = TRUE]
  <2>1. r \in AccountRow /\ r.exists /\ r.restricted = account[a].restricted
    BY <1>0 DEF AccountRow
  <2>2. account' = [account EXCEPT ![a] = r]
    BY <1>0, <1>7 DEF SignIn, AccountRow
  <2> HIDE DEF r
  <2>3. /\ account' \in [Accounts -> AccountRow]
        /\ \A b \in Accounts : account[b].exists => account'[b].exists
        /\ \A b \in Accounts : account'[b].restricted = account[b].restricted
    BY <1>1, <2>1, <2>2
  <2>4. QED
    BY <1>7, <2>3 DEF SignIn
<1>8. CASE SignedIn(a)
  <2>1. /\ account' \in [Accounts -> AccountRow]
        /\ \A b \in Accounts : account[b].exists => account'[b].exists
        /\ \A b \in Accounts : account'[b].restricted = account[b].restricted
    <3>1. CASE UNCHANGED account
      BY <3>1
    <3>2. CASE account' = [account EXCEPT ![a].login = TRUE]
      BY <1>2, <3>2
    <3>3. QED
      BY <1>8, <3>1, <3>2 DEF SignedIn
  <2>2. QED
    BY <1>8, <2>1 DEF SignedIn
<1>9. QED
  BY <1>3, <1>4, <1>5, <1>6, <1>7, <1>8 DEF Administer

LEMMA TypeStep ==
  ASSUME IInv, [Next]_vars
  PROVE  TypeOK'
<1> USE DEF IInv
<1>1. ASSUME NEW t \in Tasks, Enter(t) \/ Exhausted(t) \/ Launch(t) \/ Send(t)
      PROVE  TypeOK'
  BY <1>1, Quiet DEF TypeOK
<1>2. ASSUME NEW t \in Tasks, Choose(t)
      PROVE  TypeOK'
  <2>1. PICK a \in Accounts : WithLock(t, a, era[a], <<>>) \/ Asks(t, a)
    BY <1>2, Choosing, UsableAreAccounts
  <2>2. era[a] \in Eras /\ <<>> \in Seq(Tasks)
    BY DEF TypeOK
  <2>3. TypedMove
    BY <2>1, <2>2, WithLockEffect, AsksEffect
  <2>4. QED
    BY <1>2, <2>3, Choosing DEF TypedMove, TypeOK, Locks
<1>3. ASSUME NEW t \in Tasks, Granted(t)
      PROVE  TypeOK'
  <2>1. TypedMove
    BY <1>3, Granting, WithLockEffect
  <2>2. QED
    BY <1>3, <2>1, Granting DEF TypedMove, TypeOK, Locks
<1>4. ASSUME NEW t \in Tasks,
             Complete(t) \/ Fail(t) \/ Restricted(t) \/ LoginExpired(t) \/ LaunchFailed(t)
      PROVE  TypeOK'
  <2>1. PICK p \in PC : Leave(t, p)
    BY <1>4, Leaving DEF PC, Ended
  <2>2. at[t] \in Accounts /\ account' \in [Accounts -> AccountRow]
    BY <1>4, Leaving
  <2>3. /\ TypedMove /\ cands' \in [Tasks -> SUBSET Accounts]
        /\ UNCHANGED <<era, verifying, signing, edits>>
    BY <2>1, <2>2, LeaveEffect
  <2>4. QED
    BY <2>2, <2>3 DEF TypedMove, TypeOK, Locks
<1>5. ASSUME NEW a \in Accounts, Administer(a)
      PROVE  TypeOK'
  BY <1>5, Administering
<1>6. CASE UNCHANGED vars
  BY <1>6 DEF vars, TypeOK
<1>7. QED
  BY <1>1, <1>2, <1>3, <1>4, <1>5, <1>6 DEF Next, Generate
-----------------------------------------------------------------------------
(* Who holds which lock, and who uses which account, after each kind of    *)
(* step: one task gets a lock, one task leaves, or nothing of it changes.  *)
LEMMA SameLocks ==
  ASSUME IInv, UNCHANGED <<lock, at, mine>>,
         \A t \in Tasks : (Using(t) <=> Using(t)') /\ (pc'[t] = "locking" => pc[t] = "locking"),
         \A a \in Accounts : era[a] <= era'[a] /\ era'[a] <= edits',
         era' \in [Accounts -> Nat]
  PROVE  LockInv'
<1> USE DEF IInv, LockInv, TypeOK
<1>1. UserHoldsLock' /\ WaiterHasAccount'
  BY DEF UserHoldsLock, WaiterHasAccount
<1>2. HolderUses'
  BY DEF HolderUses
<1>3. LockOfItsTime'
  <2>1. ASSUME NEW t \in Tasks, Using(t)' \/ pc'[t] = "locking"
        PROVE  mine'[t] <= era'[at'[t]]
    <3>1. mine[t] <= era[at[t]] /\ at[t] \in Accounts /\ mine[t] \in Nat /\ era[at[t]] \in Nat
      BY <2>1 DEF LockOfItsTime, UserHoldsLock, WaiterHasAccount, Eras
    <3>2. era[at[t]] <= era'[at[t]] /\ era'[at[t]] \in Nat
      BY <3>1
    <3>3. QED
      BY <3>1, <3>2
  <2>2. QED
    BY <2>1 DEF LockOfItsTime
<1>4. QED
  BY <1>1, <1>2, <1>3

LEMMA SameEras ==
  ASSUME IInv, UNCHANGED era, edits' \in Nat, edits <= edits'
  PROVE  /\ era' \in [Accounts -> Nat]
         /\ \A a \in Accounts : era[a] <= era'[a] /\ era'[a] <= edits'
<1>1. \A a \in Accounts : era[a] \in Nat /\ era[a] <= edits
  BY DEF IInv, LockInv, TypeOK, LockOfItsTime, Eras
<1>2. edits \in Nat /\ era \in [Accounts -> Nat]
  BY <1>1 DEF IInv, TypeOK
<1>3. QED
  BY <1>1, <1>2

LEMMA HolderOf ==
  ASSUME HolderUses, NEW a \in Accounts, NEW g \in Eras, NEW t \in Tasks,
         lock[a][g].holder = t
  PROVE  Using(t) /\ at[t] = a /\ mine[t] = g
BY DEF HolderUses

(* A task that used nothing gets a free lock, or gives it back at once. *)
LEMMA LockTaken ==
  ASSUME IInv, NEW t \in Tasks, NEW a \in Accounts, NEW g \in Eras, NEW q \in Seq(Tasks),
         ~Using(t), lock[a][g].holder = NoTask, g <= era[a],
         WithLock(t, a, g, q), UNCHANGED <<account, era, edits>>
  PROVE  LockInv' /\ DrivenExists'
<1> USE DEF IInv, LockInv, TypeOK
<1>0. /\ Others(t) /\ OtherLocks(a, g)
      /\ \/ /\ lock'[a][g].holder = t
            /\ pc'[t] = "launching" /\ at'[t] = a /\ mine'[t] = g
         \/ lock'[a][g].holder = NoTask /\ pc'[t] \in {"scan", "failed"}
  BY WithLockEffect
<1>1. \A u \in Tasks : Using(u) =>
        /\ u # t /\ at[u] \in Accounts /\ mine[u] \in Eras /\ (at[u] # a \/ mine[u] # g)
  BY TasksAssumption DEF UserHoldsLock
<1>2. \A u \in Tasks : u # t => Using(u)' = Using(u) /\ Driving(u)' = Driving(u)
  BY <1>0 DEF Others, Using, Driving
<1>3. UserHoldsLock'
  BY <1>0, <1>1, <1>2 DEF UserHoldsLock, Others, OtherLocks, Using
<1>4. WaiterHasAccount'
  BY <1>0 DEF WaiterHasAccount, Others
<1>5. HolderUses'
  <2> SUFFICES ASSUME NEW b \in Accounts, NEW h \in Eras, NEW w \in Tasks,
                      lock'[b][h].holder = w
               PROVE  Using(w)' /\ at'[w] = b /\ mine'[w] = h
    BY DEF HolderUses
  <2>1. CASE b # a \/ h # g
    <3>1. lock'[b][h] = lock[b][h]
      BY <1>0, <2>1 DEF OtherLocks
    <3>0. lock[b][h].holder = w
      BY <3>1
    <3>2. Using(w) /\ at[w] = b /\ mine[w] = h
      BY <3>0, HolderOf
    <3>3. w # t
      BY <1>1, <3>2
    <3>4. QED
      BY <1>0, <1>2, <3>2, <3>3 DEF Others
  <2>2. CASE b = a /\ h = g
    BY <1>0, <2>2, TasksAssumption DEF Using
  <2>3. QED
    BY <2>1, <2>2
<1>6. LockOfItsTime'
  BY <1>0, <1>2 DEF LockOfItsTime, Others, Using
<1>7. DrivenExists'
  <2> SUFFICES ASSUME NEW u \in Tasks, Driving(u)'
               PROVE  account[at'[u]].exists \/ mine'[u] # era[at'[u]]
    BY DEF DrivenExists, Dropped
  <2>1. u # t
    BY <1>0 DEF Driving
  <2>2. QED
    BY <1>0, <1>2, <2>1 DEF DrivenExists, Dropped, Others
<1>8. QED
  BY <1>3, <1>4, <1>5, <1>6, <1>7

(* A task asks for the lock the table has. *)
LEMMA LockAsked ==
  ASSUME IInv, NEW t \in Tasks, NEW a \in Accounts, ~Using(t), pc[t] # "locking",
         Asks(t, a), UNCHANGED <<account, era, edits>>
  PROVE  LockInv' /\ DrivenExists'
<1> USE DEF IInv, LockInv, TypeOK
<1>0. /\ Others(t) /\ OtherLocks(a, era[a])
      /\ lock'[a][era[a]].holder = lock[a][era[a]].holder
      /\ pc'[t] = "locking" /\ at'[t] = a /\ mine'[t] = era[a] /\ era[a] \in Eras
  BY AsksEffect
<1>1. \A b \in Accounts, h \in Eras : lock'[b][h].holder = lock[b][h].holder
  BY <1>0 DEF OtherLocks
<1>2. \A u \in Tasks : u # t => Using(u)' = Using(u) /\ Driving(u)' = Driving(u)
  BY <1>0 DEF Others, Using, Driving
<1>3. ~Using(t)' /\ ~Driving(t)'
  BY <1>0 DEF Using, Driving
<1>4. UserHoldsLock'
  BY <1>0, <1>1, <1>2, <1>3 DEF UserHoldsLock, Others
<1>5. HolderUses'
  <2> SUFFICES ASSUME NEW b \in Accounts, NEW h \in Eras, NEW w \in Tasks,
                      lock'[b][h].holder = w
               PROVE  Using(w)' /\ at'[w] = b /\ mine'[w] = h
    BY DEF HolderUses
  <2>0. lock[b][h].holder = w
    BY <1>1
  <2>1. Using(w) /\ at[w] = b /\ mine[w] = h
    BY <2>0, HolderOf
  <2>2. w # t
    BY <2>1
  <2>3. QED
    BY <1>0, <1>2, <2>1, <2>2 DEF Others
<1>6. WaiterHasAccount'
  BY <1>0 DEF WaiterHasAccount, Others
<1>7. LockOfItsTime'
  <2>1. \A h \in Eras : h <= h
    BY DEF Eras
  <2>2. QED
    BY <1>0, <1>2, <1>3, <2>1 DEF LockOfItsTime, Others
<1>8. DrivenExists'
  BY <1>0, <1>2, <1>3 DEF DrivenExists, Dropped, Others
<1>9. QED
  BY <1>4, <1>5, <1>7, <1>8, <1>6

(* A task leaves its account: the lock it held is free again. *)
LEMMA LockGivenBack ==
  ASSUME IInv, NEW t \in Tasks, Using(t), NEW p \in Ended \union {"scan"}, Leave(t, p),
         \A a \in Accounts : account'[a].exists = account[a].exists
  PROVE  LockInv' /\ DrivenExists'
<1> USE DEF IInv, LockInv, TypeOK
<1>0. p \in PC /\ p \notin {"launching", "open", "sent", "locking"}
  BY DEF PC, Ended
<1>1. /\ at[t] \in Accounts /\ mine[t] \in Eras /\ lock[at[t]][mine[t]].holder = t
      /\ Others(t) /\ OtherLocks(at[t], mine[t])
      /\ lock'[at[t]][mine[t]].holder = NoTask
      /\ pc'[t] = p /\ UNCHANGED <<era, edits>>
  BY <1>0, LeaveEffect DEF UserHoldsLock
<1>2. \A u \in Tasks : u # t => Using(u)' = Using(u) /\ Driving(u)' = Driving(u)
  BY <1>1 DEF Others, Using, Driving
<1>3. ~Using(t)' /\ ~Driving(t)' /\ pc'[t] # "locking"
  BY <1>0, <1>1 DEF Using, Driving
<1>4. \A u \in Tasks : Using(u) /\ u # t =>
        at[u] \in Accounts /\ mine[u] \in Eras /\ (at[u] # at[t] \/ mine[u] # mine[t])
  BY <1>1 DEF UserHoldsLock
<1>5. UserHoldsLock'
  BY <1>1, <1>2, <1>3, <1>4 DEF UserHoldsLock, Others, OtherLocks
<1>6. WaiterHasAccount' /\ LockOfItsTime'
  BY <1>1, <1>2, <1>3 DEF WaiterHasAccount, LockOfItsTime, Others
<1>7. HolderUses'
  <2> SUFFICES ASSUME NEW b \in Accounts, NEW h \in Eras, NEW w \in Tasks,
                      lock'[b][h].holder = w
               PROVE  Using(w)' /\ at'[w] = b /\ mine'[w] = h
    BY DEF HolderUses
  <2>1. b # at[t] \/ h # mine[t]
    BY <1>1, TasksAssumption
  <2>2. lock'[b][h] = lock[b][h]
    BY <1>1, <2>1 DEF OtherLocks
  <2>3. Using(w) /\ at[w] = b /\ mine[w] = h /\ w # t
    BY <2>1, <2>2 DEF HolderUses
  <2>4. QED
    BY <1>1, <1>2, <2>3 DEF Others
<1>8. DrivenExists'
  <2> SUFFICES ASSUME NEW u \in Tasks, Driving(u)'
               PROVE  account'[at'[u]].exists \/ mine'[u] # era[at'[u]]
    BY <1>1 DEF DrivenExists, Dropped
  <2>1. u # t /\ Driving(u) /\ at[u] \in Accounts
    BY <1>2, <1>3, <1>4 DEF Driving, Using
  <2>2. QED
    BY <1>1, <2>1 DEF DrivenExists, Dropped, Others
<1>9. QED
  BY <1>5, <1>6, <1>7, <1>8

LEMMA LockStep ==
  ASSUME IInv, [Next]_vars
  PROVE  LockInv' /\ DrivenExists'
<1> USE DEF IInv
<1>0. edits \in Nat /\ edits <= edits
  BY NumbersAssumption DEF TypeOK
<1>1. ASSUME NEW t \in Tasks, Enter(t) \/ Exhausted(t) \/ Launch(t) \/ Send(t)
      PROVE  LockInv' /\ DrivenExists'
  <2>1. /\ UNCHANGED <<account, lock, era, at, mine, edits>>
        /\ \A u \in Tasks : u # t => pc'[u] = pc[u]
        /\ pc'[t] # "locking" /\ (Using(t) <=> Using(t)')
    BY <1>1, Quiet
  <2>2. \A u \in Tasks : (Using(u) <=> Using(u)') /\ (pc'[u] = "locking" => pc[u] = "locking")
    BY <2>1 DEF Using
  <2>3. LockInv'
    BY <1>0, <2>1, <2>2, SameEras, SameLocks
  <2>4. Driving(t)' => Driving(t) \/ account[at[t]].exists
    BY <1>1 DEF Enter, Exhausted, Launch, Send, Goto, Driving, Ended, TypeOK
  <2>5. \A u \in Tasks : u # t => Driving(u)' = Driving(u)
    BY <2>1 DEF Driving
  <2>6. DrivenExists'
    BY <2>1, <2>4, <2>5 DEF DrivenExists, Dropped
  <2>7. QED
    BY <2>3, <2>6
<1>2. ASSUME NEW t \in Tasks, Choose(t)
      PROVE  LockInv' /\ DrivenExists'
  <2>1. PICK a \in Accounts :
           (Available(a) /\ WithLock(t, a, era[a], <<>>)) \/ Asks(t, a)
    BY <1>2, Choosing, UsableAreAccounts
  <2>2. ~Using(t) /\ pc[t] # "locking" /\ UNCHANGED <<account, era, edits>>
    BY <1>2, Choosing
  <2>3. CASE Available(a) /\ WithLock(t, a, era[a], <<>>)
    <3>1. <<>> \in Seq(Tasks) /\ era[a] \in Eras /\ era[a] <= era[a]
      BY DEF TypeOK, Eras
    <3>2. lock[a][era[a]].holder = NoTask
      BY <2>3 DEF Available, Locked, Registered
    <3>3. QED
      BY <2>2, <2>3, <3>1, <3>2, LockTaken
  <2>4. QED
    BY <2>1, <2>2, <2>3, LockAsked
<1>3. ASSUME NEW t \in Tasks, Granted(t)
      PROVE  LockInv' /\ DrivenExists'
  <2> DEFINE q == Tail(lock[at[t]][mine[t]].queue)
  <2>1. /\ at[t] \in Accounts /\ mine[t] \in Eras /\ mine[t] <= era[at[t]]
        /\ ~Using(t) /\ lock[at[t]][mine[t]].holder = NoTask /\ q \in Seq(Tasks)
        /\ WithLock(t, at[t], mine[t], q) /\ UNCHANGED <<account, era, edits>>
    BY <1>3, Granting
  <2> HIDE DEF q
  <2>2. QED
    BY <2>1, LockTaken
<1>4. ASSUME NEW t \in Tasks,
             Complete(t) \/ Fail(t) \/ Restricted(t) \/ LoginExpired(t) \/ LaunchFailed(t)
      PROVE  LockInv' /\ DrivenExists'
  BY <1>4, Leaving, LockGivenBack
<1>5. ASSUME NEW a \in Accounts, Administer(a)
      PROVE  LockInv' /\ DrivenExists'
  <2>1. /\ TypeOK' /\ UNCHANGED <<lock, pc, at, mine>>
        /\ \/ DeleteAccount(a)
           \/ /\ UNCHANGED era /\ edits <= edits'
              /\ \A b \in Accounts : account[b].exists => account'[b].exists
    BY <1>5, Administering
  <2>2. edits' \in Nat /\ era' \in [Accounts -> Nat]
    BY <2>1, NumbersAssumption DEF TypeOK, Eras
  <2>3. \A u \in Tasks : /\ (Using(u) <=> Using(u)') /\ (Driving(u) <=> Driving(u)')
                         /\ (pc'[u] = "locking" => pc[u] = "locking")
    BY <2>1 DEF Using, Driving
  <2>4. \A u \in Tasks : Driving(u) => at[u] \in Accounts /\ mine[u] <= era[at[u]]
    BY DEF LockInv, UserHoldsLock, LockOfItsTime, Using, Driving
  <2>5. CASE DeleteAccount(a)
    <3>1. /\ era' = [era EXCEPT ![a] = era[a] + 1] /\ edits' = edits + 1
          /\ \A b \in Accounts : b # a => account'[b] = account[b]
      BY <2>5 DEF DeleteAccount, Edit
    <3>2. \A b \in Accounts : era[b] \in Nat /\ era[b] <= edits
      BY DEF TypeOK, Eras, LockInv, LockOfItsTime
    <3>3. \A b \in Accounts : era[b] <= era'[b] /\ era'[b] <= edits'
      BY <1>0, <3>1, <3>2 DEF TypeOK
    <3>4. LockInv'
      BY <2>1, <2>2, <2>3, <3>3, SameLocks
    <3>5. DrivenExists'
      <4> SUFFICES ASSUME NEW u \in Tasks, Driving(u)
                   PROVE  account'[at[u]].exists \/ mine[u] # era'[at[u]]
        BY <2>1, <2>3 DEF DrivenExists, Dropped
      <4>1. CASE at[u] = a
        <5>1. mine[u] \in Nat /\ mine[u] <= era[a] /\ era'[a] = era[a] + 1 /\ era[a] \in Nat
          BY <2>4, <3>1, <3>2, <4>1 DEF TypeOK, Eras
        <5>2. QED
          BY <4>1, <5>1
      <4>2. CASE at[u] # a
        BY <2>4, <3>1, <4>2 DEF DrivenExists, Dropped, TypeOK
      <4>3. QED
        BY <4>1, <4>2
    <3>6. QED
      BY <3>4, <3>5
  <2>6. CASE /\ UNCHANGED era /\ edits <= edits'
             /\ \A b \in Accounts : account[b].exists => account'[b].exists
    <3>1. LockInv'
      BY <2>1, <2>2, <2>3, <2>6, SameEras, SameLocks
    <3>2. DrivenExists'
      BY <2>1, <2>3, <2>4, <2>6 DEF DrivenExists, Dropped
    <3>3. QED
      BY <3>1, <3>2
  <2>7. QED
    BY <2>1, <2>5, <2>6
<1>6. CASE UNCHANGED vars
  <2>1. /\ UNCHANGED <<lock, at, mine, pc, era, account, edits>>
        /\ \A u \in Tasks : (Using(u) <=> Using(u)') /\ (pc'[u] = "locking" => pc[u] = "locking")
    BY <1>6 DEF vars, Using
  <2>2. LockInv'
    BY <1>0, <2>1, SameEras, SameLocks
  <2>3. DrivenExists'
    BY <2>1 DEF DrivenExists, Dropped, Driving
  <2>4. QED
    BY <2>2, <2>3
<1>7. QED
  BY <1>1, <1>2, <1>3, <1>4, <1>5, <1>6 DEF Next, Generate

LEMMA Inductive == IInv /\ [Next]_vars => IInv'
BY TypeStep, LockStep DEF IInv

(* The pool's state is well formed in every behaviour. *)
THEOREM TypeCorrect == Spec => []TypeOK
<1>1. IInv => TypeOK
  BY DEF IInv
<1>2. QED
  BY <1>1, Initial, Inductive, PTL DEF Spec

(* Two generations use one browser profile at the same time only if one of *)
(* them has a lock that delete_account() dropped, however often accounts   *)
(* are removed and added again (browser_pool.py:284, 401-424, 474, 514-518)*)
THEOREM MutualExclusion == Spec => []ProfileExclusive
<1>1. ASSUME IInv
      PROVE  ProfileExclusive
  <2> SUFFICES ASSUME NEW t \in Tasks, NEW u \in Tasks, Using(t), Using(u), t # u, at[t] = at[u]
               PROVE  mine[t] # mine[u] /\ (Dropped(t) \/ Dropped(u))
    BY DEF ProfileExclusive
  <2>1. lock[at[t]][mine[t]].holder = t /\ lock[at[u]][mine[u]].holder = u
    BY <1>1 DEF IInv, LockInv, UserHoldsLock
  <2>2. mine[t] # mine[u]
    BY <2>1
  <2>3. QED
    BY <2>2 DEF Dropped
<1>2. QED
  BY <1>1, Initial, Inductive, PTL DEF Spec

(* Only its removal takes a profile away. *)
LEMMA ProfileKept ==
  ASSUME IInv, [Next]_vars, NEW b \in Accounts
  PROVE  \/ DeleteAccount(b)
         \/ era'[b] = era[b] /\ (account[b].exists => account'[b].exists)
<1>1. ASSUME NEW t \in Tasks, Generate(t)
      PROVE  era'[b] = era[b] /\ (account[b].exists => account'[b].exists)
  <2>1. CASE Enter(t) \/ Exhausted(t) \/ Launch(t) \/ Send(t)
    BY <2>1, Quiet DEF IInv
  <2>2. CASE Choose(t)
    BY <2>2, Choosing DEF IInv
  <2>3. CASE Granted(t)
    BY <2>3, Granting
  <2>4. CASE Complete(t) \/ Fail(t) \/ Restricted(t) \/ LoginExpired(t) \/ LaunchFailed(t)
    <3>1. \A a \in Accounts : account'[a].exists = account[a].exists
      BY <2>4, Leaving
    <3>2. UNCHANGED era
      BY <2>4 DEF Complete, Fail, Restricted, LoginExpired, LaunchFailed, Leave
    <3>3. QED
      BY <3>1, <3>2
  <2>5. QED
    BY <1>1, <2>1, <2>2, <2>3, <2>4 DEF Generate
<1>2. ASSUME NEW a \in Accounts, Administer(a), ~DeleteAccount(b)
      PROVE  era'[b] = era[b] /\ (account[b].exists => account'[b].exists)
  <2>1. CASE DeleteAccount(a)
    <3>1. a # b
      BY <1>2, <2>1
    <3>2. account'[b] = account[b] /\ era'[b] = era[b]
      BY <2>1, <3>1 DEF DeleteAccount, IInv, TypeOK
    <3>3. QED
      BY <3>2
  <2>2. CASE ~DeleteAccount(a)
    BY <1>2, <2>2, Administering
  <2>3. QED
    BY <2>1, <2>2
<1>3. CASE UNCHANGED vars
  BY <1>3 DEF vars
<1>4. QED
  BY <1>1, <1>2, <1>3 DEF Next

(* The administrator never removes a profile from under a generation that  *)
(* has the lock of the table, nor drops that lock (browser_pool.py:266-284)*)
THEOREM RemovalSafe == Spec => ProfileStays
<1>1. ASSUME IInv, [Next]_vars
      PROVE  \A t \in Tasks : Using(t) /\ ~Dropped(t) =>
               /\ era'[at[t]] = era[at[t]]
               /\ Driving(t) => account'[at[t]].exists
  <2> SUFFICES ASSUME NEW t \in Tasks, Using(t), ~Dropped(t)
               PROVE  /\ era'[at[t]] = era[at[t]]
                      /\ Driving(t) => account'[at[t]].exists
    OBVIOUS
  <2>1. at[t] \in Accounts /\ lock[at[t]][mine[t]].holder = t
    BY <1>1 DEF IInv, LockInv, UserHoldsLock
  <2>2. ~DeleteAccount(at[t])
    BY <2>1, TasksAssumption DEF DeleteAccount, MayRemove, Locked, Registered, Dropped
  <2>3. Driving(t) => account[at[t]].exists
    BY <1>1 DEF IInv, DrivenExists
  <2>4. QED
    BY <1>1, <2>1, <2>2, <2>3, ProfileKept
<1>2. QED
  BY <1>1, Initial, Inductive, PTL DEF Spec, ProfileStays

(* No path through the pool leaks an account's lock                        *)
(* (browser_pool.py:423-468, 475, 517).                                    *)
THEOREM LocksGivenBack == Spec => []NoLockLeak
<1>1. ASSUME IInv
      PROVE  NoLockLeak
  <2> SUFFICES ASSUME NEW a \in Accounts, NEW g \in Eras, NEW t, t = lock[a][g].holder,
                      t # NoTask
               PROVE  Using(t) /\ at[t] = a /\ mine[t] = g
    BY DEF NoLockLeak
  <2>1. lock[a][g] \in Lock
    BY <1>1 DEF IInv, TypeOK
  <2>2. t \in Tasks
    BY <2>1, LockHalves, <<>> \in Seq(Tasks)
  <2>3. HolderUses
    BY <1>1 DEF IInv, LockInv
  <2>4. QED
    BY <2>2, <2>3 DEF HolderUses
<1>2. QED
  BY <1>1, Initial, Inductive, PTL DEF Spec

-----------------------------------------------------------------------------
(* What a step may do.  A manual retry waits for its own account only.     *)
RetryAtPin ==
  \A t \in Tasks :
    Retry(t) /\ (Using(t) \/ pc[t] = "locking") => at[t] = Job[t].pin

SInv == IInv /\ RetryAtPin

LEMMA InitialSInv == Init => SInv
BY Initial DEF Init, SInv, RetryAtPin, Using

(* The ways of a task: it gets a lock, or asks for it, only for an account *)
(* it chose, and the prompt is sent from the profile that was opened.      *)
Stays(t)   == pc'[t] = pc[t] /\ at'[t] = at[t]
GoesOn(t)  == Using(t) /\ Using(t)' /\ at'[t] = at[t]
Rests(t)   == pc'[t] \in Ended \union {"scan", "paused"}
AsksFor(t) == \E a \in Usable(t) : pc'[t] = "locking" /\ at'[t] = a
GetsLock(t) ==
  \E a \in Accounts : /\ a \in Usable(t) \/ (pc[t] = "locking" /\ a = at[t])
                      /\ ~Using(t) /\ StillFit(t, a)
                      /\ pc'[t] = "launching" /\ at'[t] = a

LEMMA TaskMoves ==
  ASSUME IInv, [Next]_vars, NEW t \in Tasks
  PROVE  Stays(t) \/ GoesOn(t) \/ Rests(t) \/ AsksFor(t) \/ GetsLock(t)
<1>1. ASSUME NEW u \in Tasks, Enter(u) \/ Exhausted(u)
      PROVE  Stays(t) \/ Rests(t)
  BY <1>1 DEF Enter, Exhausted, Goto, locks, Stays, Rests, Ended, IInv, TypeOK
<1>2. ASSUME NEW u \in Tasks, Launch(u) \/ Send(u)
      PROVE  Stays(t) \/ GoesOn(t)
  <2>1. /\ UNCHANGED at /\ pc[u] \in {"launching", "open"}
        /\ \E p \in {"open", "sent"} : pc' = [pc EXCEPT ![u] = p]
    BY <1>2 DEF Launch, Send, Goto, locks
  <2>2. CASE u = t
    BY <2>1, <2>2 DEF GoesOn, Using, IInv, TypeOK
  <2>3. CASE u # t
    BY <2>1, <2>3 DEF Stays, IInv, TypeOK
  <2>4. QED
    BY <2>2, <2>3
<1>3. ASSUME NEW u \in Tasks,
             Complete(u) \/ Fail(u) \/ Restricted(u) \/ LoginExpired(u) \/ LaunchFailed(u)
      PROVE  Stays(t) \/ Rests(t)
  <2>1. PICK p \in Ended \union {"scan"} : Leave(u, p)
    BY <1>3, Leaving
  <2>2. pc' = [pc EXCEPT ![u] = p] /\ at' = [at EXCEPT ![u] = NoAccount]
    BY <2>1 DEF Leave, Goto
  <2>3. QED
    BY <2>2 DEF Stays, Rests, IInv, TypeOK
<1>4. ASSUME NEW u \in Tasks, NEW a \in Accounts, NEW g \in Eras, NEW q \in Seq(Tasks),
             WithLock(u, a, g, q), ~Using(u), a \in Usable(u) \/ (pc[u] = "locking" /\ a = at[u])
      PROVE  Stays(t) \/ Rests(t) \/ GetsLock(t)
  <2>1. /\ Others(u)
        /\ \/ StillFit(u, a) /\ pc'[u] = "launching" /\ at'[u] = a
           \/ pc'[u] \in {"scan", "failed"}
    BY <1>4, WithLockEffect DEF IInv
  <2>2. CASE u = t
    BY <1>4, <2>1, <2>2 DEF GetsLock, Rests, Ended
  <2>3. CASE u # t
    BY <2>1, <2>3 DEF Others, Stays
  <2>4. QED
    BY <2>2, <2>3
<1>5. ASSUME NEW u \in Tasks, Choose(u)
      PROVE  Stays(t) \/ Rests(t) \/ AsksFor(t) \/ GetsLock(t)
  <2>1. PICK a \in Usable(u) : WithLock(u, a, era[a], <<>>) \/ Asks(u, a)
    BY <1>5, Choosing DEF IInv
  <2>2. a \in Accounts /\ era[a] \in Eras /\ <<>> \in Seq(Tasks) /\ ~Using(u)
    BY <1>5, UsableAreAccounts, Choosing DEF IInv, TypeOK
  <2>3. CASE WithLock(u, a, era[a], <<>>)
    BY <1>4, <2>2, <2>3
  <2>4. CASE Asks(u, a)
    <3>1. Others(u) /\ pc'[u] = "locking" /\ at'[u] = a
      BY <2>2, <2>4, AsksEffect DEF IInv
    <3>2. QED
      BY <3>1 DEF Others, Stays, AsksFor
  <2>5. QED
    BY <2>1, <2>3, <2>4
<1>6. ASSUME NEW u \in Tasks, Granted(u)
      PROVE  Stays(t) \/ Rests(t) \/ GetsLock(t)
  <2> DEFINE q == Tail(lock[at[u]][mine[u]].queue)
  <2>1. /\ pc[u] = "locking" /\ at[u] \in Accounts /\ mine[u] \in Eras /\ ~Using(u)
        /\ q \in Seq(Tasks) /\ WithLock(u, at[u], mine[u], q)
    BY <1>6, Granting
  <2> HIDE DEF q
  <2>2. QED
    BY <1>4, <2>1
<1>7. ASSUME NEW a \in Accounts, Administer(a)
      PROVE  Stays(t)
  BY <1>7, Administering DEF Stays
<1>8. CASE UNCHANGED vars
  BY <1>8 DEF vars, Stays
<1>9. QED
  BY <1>1, <1>2, <1>3, <1>5, <1>6, <1>7, <1>8 DEF Next, Generate

LEMMA RetryAtPinStep ==
  ASSUME SInv, [Next]_vars
  PROVE  RetryAtPin'
<1> SUFFICES ASSUME NEW t \in Tasks, Retry(t), Using(t)' \/ pc'[t] = "locking"
             PROVE  at'[t] = Job[t].pin
  BY DEF RetryAtPin, Retry, Resume
<1>1. Usable(t) \subseteq {Job[t].pin}
  BY DEF Usable, Retry
<1>2. Using(t) \/ pc[t] = "locking" => at[t] = Job[t].pin
  BY DEF SInv, RetryAtPin
<1>3. CASE Stays(t)
  BY <1>2, <1>3 DEF Stays, Using
<1>4. CASE GoesOn(t)
  BY <1>2, <1>4 DEF GoesOn
<1>5. CASE Rests(t)
  BY <1>5 DEF Rests, Using, Ended
<1>6. CASE AsksFor(t)
  BY <1>1, <1>6 DEF AsksFor
<1>7. CASE GetsLock(t)
  BY <1>1, <1>2, <1>7 DEF GetsLock
<1>8. QED
  BY <1>3, <1>4, <1>5, <1>6, <1>7, TaskMoves DEF SInv

LEMMA SInductive == SInv /\ [Next]_vars => SInv'
BY Inductive, RetryAtPinStep DEF SInv

(* How the reasons recorded for an account change. *)
LEMMA RestrictionMoves ==
  ASSUME IInv, [Next]_vars, NEW a \in Accounts
  PROVE  \/ ~account'[a].exists
         \/ account[a].restricted \subseteq account'[a].restricted
         \/ \E t \in Tasks : /\ Retry(t) /\ at[t] = a
                             /\ account'[a].restricted
                                  = account[a].restricted \ {MediaOf(t)}
                             /\ pc[t] = "sent" /\ pc'[t] = "completed"
<1> USE DEF IInv, TypeOK
<1>1. ASSUME NEW t \in Tasks,
             \/ Enter(t) \/ Choose(t) \/ Exhausted(t) \/ Granted(t) \/ Launch(t)
             \/ Send(t) \/ Fail(t) \/ LaunchFailed(t)
      PROVE  UNCHANGED account
  BY <1>1 DEF Enter, Choose, Exhausted, Granted, Launch, Send, Fail, LaunchFailed
<1>2. ASSUME NEW t \in Tasks, Complete(t), account'[a].restricted # account[a].restricted
      PROVE  /\ Retry(t) /\ at[t] = a
             /\ account'[a].restricted = account[a].restricted \ {MediaOf(t)}
             /\ pc[t] = "sent" /\ pc'[t] = "completed"
  <2>1. /\ account' = [account EXCEPT ![at[t]] = [account[at[t]] EXCEPT !.restricted = Lifted(t)]]
        /\ pc[t] = "sent" /\ pc'[t] = "completed"
    BY <1>2 DEF Complete, Leave, Goto
  <2>2. at[t] = a /\ account'[a] = [account[a] EXCEPT !.restricted = Lifted(t)]
    BY <1>2, <2>1
  <2>3. account'[a].restricted = Lifted(t)
    BY <2>2 DEF AccountRow
  <2>4. QED
    BY <1>2, <2>1, <2>2, <2>3 DEF Lifted
<1>3. ASSUME NEW t \in Tasks, Restricted(t) \/ LoginExpired(t)
      PROVE  account[a].restricted \subseteq account'[a].restricted
  <2>1. at[t] \in Accounts
    BY <1>3, Leaving
  <2>2. account[a] \in AccountRow /\ account[at[t]] \in AccountRow
    BY <2>1
  <2>3. CASE at[t] # a
    BY <1>3, <2>3 DEF Restricted, LoginExpired
  <2>4. CASE at[t] = a /\ Restricted(t)
    <3>1. account'[a] = [account[a] EXCEPT !.row = TRUE,
                           !.restricted = account[a].restricted \union {MediaOf(t)}]
      BY <2>2, <2>4 DEF Restricted, AccountRow
    <3>2. QED
      BY <2>2, <3>1 DEF AccountRow
  <2>5. CASE at[t] = a /\ LoginExpired(t)
    <3>1. account'[a] = [account[a] EXCEPT !.row = TRUE, !.login = FALSE]
      BY <2>2, <2>5 DEF LoginExpired, AccountRow
    <3>2. QED
      BY <2>2, <3>1 DEF AccountRow
  <2>6. QED
    BY <1>3, <2>3, <2>4, <2>5
<1>4. ASSUME NEW b \in Accounts, Administer(b)
      PROVE  ~account'[a].exists \/ account[a].restricted \subseteq account'[a].restricted
  <2>1. CASE DeleteAccount(b)
    <3>1. account' = [account EXCEPT ![b] = Removed]
      BY <2>1 DEF DeleteAccount
    <3>2. QED
      BY <3>1 DEF Removed
  <2>2. CASE ~DeleteAccount(b)
    BY <1>4, <2>2, Administering
  <2>3. QED
    BY <2>1, <2>2
<1>5. CASE UNCHANGED vars
  BY <1>5 DEF vars
<1>6. QED
  BY <1>1, <1>2, <1>3, <1>4, <1>5 DEF Next, Generate

(* A browser is launched for a prompt only with an account that is fit for *)
(* its medium when its lock is obtained (browser_pool.py:424-430, 517-521).*)
THEOREM DispatchSafe == Spec => DispatchedFit
<1>1. ASSUME IInv, [Next]_vars
      PROVE  \A t \in Tasks : ~Using(t) /\ Using(t)' /\ ~Resume(t) =>
               LET row == account[at'[t]] IN
               /\ row.exists /\ row.scheduling /\ row.login
               /\ Retry(t) <=> MediaOf(t) \in row.restricted
  <2> SUFFICES ASSUME NEW t \in Tasks, ~Using(t), Using(t)', ~Resume(t)
               PROVE  LET row == account[at'[t]] IN
                      /\ row.exists /\ row.scheduling /\ row.login
                      /\ Retry(t) <=> MediaOf(t) \in row.restricted
    OBVIOUS
  <2>1. GetsLock(t)
    BY <1>1, TaskMoves DEF Stays, GoesOn, Rests, AsksFor, Ended, Using
  <2>2. StillFit(t, at'[t])
    BY <2>1 DEF GetsLock
  <2>3. CASE Retry(t)
    BY <2>2, <2>3 DEF StillFit, RetryFits
  <2>4. CASE ~Retry(t)
    BY <2>2, <2>4 DEF StillFit, Schedulable
  <2>5. QED
    BY <2>3, <2>4
<1>2. QED
  BY <1>1, Initial, Inductive, PTL DEF Spec, DispatchedFit

(* A restriction outlives everything but its account and a deliberate retry*)
(* that succeeds (browser_pool.py:177-193, 462, 532).                      *)
THEOREM RestrictionsStick == Spec => RestrictionSticks
<1>1. ASSUME SInv, [Next]_vars
      PROVE  \A a \in Accounts, m \in Media :
               m \in account[a].restricted /\ m \notin account'[a].restricted =>
                 \/ ~account'[a].exists
                 \/ \E t \in Tasks : /\ Retry(t) /\ MediaOf(t) = m /\ Job[t].pin = a
                                     /\ pc[t] = "sent" /\ pc'[t] = "completed"
  <2> SUFFICES ASSUME NEW a \in Accounts, NEW m \in Media, m \in account[a].restricted,
                      m \notin account'[a].restricted, account'[a].exists
               PROVE  \E t \in Tasks : /\ Retry(t) /\ MediaOf(t) = m /\ Job[t].pin = a
                                       /\ pc[t] = "sent" /\ pc'[t] = "completed"
    OBVIOUS
  <2>1. PICK t \in Tasks : /\ Retry(t) /\ at[t] = a
                           /\ account'[a].restricted = account[a].restricted \ {MediaOf(t)}
                           /\ pc[t] = "sent" /\ pc'[t] = "completed"
    BY <1>1, RestrictionMoves DEF SInv
  <2>2. Job[t].pin = a
    BY <1>1, <2>1 DEF SInv, RetryAtPin, Using
  <2>3. QED
    BY <2>1, <2>2
<1>2. QED
  BY <1>1, InitialSInv, SInductive, PTL DEF Spec, RestrictionSticks

-----------------------------------------------------------------------------
(* No standstill.  The queue of every lock, dropped or not, has each task  *)
(* that waits for it, once, and nobody else; only new images pause.        *)
Waits(t, a, g) == pc[t] = "locking" /\ at[t] = a /\ mine[t] = g

QueuesWait ==
  \A a \in Accounts, g \in Eras :
    /\ IsInjective(lock[a][g].queue)
    /\ \A t \in Tasks : t \in Range(lock[a][g].queue) <=> Waits(t, a, g)

ImagesPause == \A t \in Tasks : pc[t] = "paused" => Image(t) /\ ~Retry(t)

LInv == IInv /\ QueuesWait /\ ImagesPause

LEMMA InitialLInv == Init => LInv
<1> SUFFICES ASSUME Init PROVE LInv
  OBVIOUS
<1>1. QueuesWait
  BY DEF Init, QueuesWait, Unlocked, IsInjective, Range, Waits
<1>2. ImagesPause
  BY DEF Init, ImagesPause
<1>3. QED
  BY <1>1, <1>2, Initial DEF LInv

(* One more at the end of a queue, one less at its head. *)
LEMMA LongerQueue ==
  ASSUME NEW S, NEW q \in Seq(S), NEW e \in S, e \notin Range(q), IsInjective(q)
  PROVE  /\ IsInjective(Append(q, e))
         /\ Range(Append(q, e)) = Range(q) \union {e}
<1> DEFINE r == Append(q, e)
<1>1. /\ DOMAIN q = 1..Len(q) /\ DOMAIN r = 1..(Len(q) + 1) /\ Len(q) \in Nat
      /\ \A i \in 1..Len(q) : r[i] = q[i]
      /\ r[Len(q) + 1] = e
  BY AppendProperties
<1> HIDE DEF r
<1>2. DOMAIN r = DOMAIN q \union {Len(q) + 1}
  BY <1>1
<1>3. Range(r) = Range(q) \union {e}
  BY <1>1, <1>2 DEF Range
<1>4. \A i \in DOMAIN q : q[i] # e
  BY DEF Range
<1>5. IsInjective(r)
  BY <1>1, <1>2, <1>4 DEF IsInjective
<1>6. QED
  BY <1>3, <1>5 DEF r

LEMMA ShorterQueue ==
  ASSUME NEW S, NEW q \in Seq(S), q # <<>>, IsInjective(q)
  PROVE  /\ IsInjective(Tail(q))
         /\ Range(Tail(q)) = Range(q) \ {Head(q)}
         /\ Head(q) \in S /\ Head(q) \in Range(q)
<1> DEFINE r == Tail(q)
<1>1. /\ DOMAIN q = 1..Len(q) /\ DOMAIN r = 1..(Len(q) - 1) /\ Len(q) \in Nat \ {0}
      /\ \A i \in DOMAIN r : r[i] = q[i + 1]
      /\ Head(q) = q[1] /\ Head(q) \in S
  BY HeadTailProperties
<1> HIDE DEF r
<1>2. \A i \in DOMAIN q : i = 1 \/ (i - 1 \in DOMAIN r /\ r[i - 1] = q[i])
  BY <1>1
<1>3. \A i \in DOMAIN r : i + 1 \in DOMAIN q /\ i + 1 # 1 /\ i \in Nat
  BY <1>1
<1>4. \A i \in DOMAIN r : r[i] # Head(q)
  BY <1>1, <1>3 DEF IsInjective
<1>5. Range(r) = Range(q) \ {Head(q)}
  <2>1. Range(r) \subseteq Range(q) \ {Head(q)}
    BY <1>1, <1>3, <1>4 DEF Range
  <2>2. Range(q) \ {Head(q)} \subseteq Range(r)
    BY <1>1, <1>2 DEF Range
  <2>3. QED
    BY <2>1, <2>2
<1>6. IsInjective(r)
  BY <1>1, <1>3 DEF IsInjective
<1>7. Head(q) \in Range(q)
  BY <1>1 DEF Range
<1>8. QED
  BY <1>1, <1>5, <1>6, <1>7 DEF r

(* The queues stay, and so does everyone in them. *)
LEMMA QueuesKept ==
  ASSUME QueuesWait,
         \A a \in Accounts, g \in Eras : lock'[a][g].queue = lock[a][g].queue,
         \A t \in Tasks : /\ pc'[t] = "locking" <=> pc[t] = "locking"
                          /\ pc[t] = "locking" => at'[t] = at[t] /\ mine'[t] = mine[t]
  PROVE  QueuesWait'
<1> SUFFICES ASSUME NEW a \in Accounts, NEW g \in Eras
             PROVE  /\ IsInjective(lock'[a][g].queue)
                    /\ \A t \in Tasks : t \in Range(lock'[a][g].queue) <=> Waits(t, a, g)'
  BY DEF QueuesWait
<1>1. lock'[a][g].queue = lock[a][g].queue
  OBVIOUS
<1>2. \A t \in Tasks : Waits(t, a, g)' <=> Waits(t, a, g)
  BY DEF Waits
<1>3. QED
  BY <1>1, <1>2 DEF QueuesWait

(* One more waiter, who did not wait before. *)
LEMMA QueueGrows ==
  ASSUME TypeOK, QueuesWait, NEW t \in Tasks, NEW a \in Accounts, pc[t] # "locking", Asks(t, a)
  PROVE  QueuesWait'
<1> SUFFICES ASSUME NEW b \in Accounts, NEW h \in Eras
             PROVE  /\ IsInjective(lock'[b][h].queue)
                    /\ \A u \in Tasks : u \in Range(lock'[b][h].queue) <=> Waits(u, b, h)'
  BY DEF QueuesWait
<1> DEFINE q == lock[b][h].queue
<1>1. /\ Others(t) /\ OtherLocks(a, era[a])
      /\ lock'[a][era[a]].queue = Append(lock[a][era[a]].queue, t)
      /\ pc'[t] = "locking" /\ at'[t] = a /\ mine'[t] = era[a]
  BY AsksEffect
<1>2. lock[b][h] \in Lock
  BY DEF TypeOK
<1>3. q \in Seq(Tasks)
  BY <1>2, LockHalves, <<>> \in Seq(Tasks)
<1>4. IsInjective(q) /\ \A u \in Tasks : u \in Range(q) <=> Waits(u, b, h)
  BY DEF QueuesWait
<1>5. t \notin Range(q)
  BY <1>4 DEF Waits
<1>6. \A u \in Tasks : u # t => (Waits(u, b, h)' <=> Waits(u, b, h))
  BY <1>1 DEF Others, Waits
<1>7. Waits(t, b, h)' <=> b = a /\ h = era[a]
  BY <1>1 DEF Waits
<1>8. CASE b = a /\ h = era[a]
  <2>1. lock'[b][h].queue = Append(q, t)
    BY <1>1, <1>8
  <2> HIDE DEF q
  <2>2. IsInjective(Append(q, t)) /\ Range(Append(q, t)) = Range(q) \union {t}
    BY <1>3, <1>4, <1>5, LongerQueue
  <2>3. QED
    BY <1>4, <1>6, <1>7, <1>8, <2>1, <2>2
<1>9. CASE ~(b = a /\ h = era[a])
  <2>1. lock'[b][h].queue = q
    BY <1>1, <1>9 DEF OtherLocks
  <2> HIDE DEF q
  <2>2. QED
    BY <1>4, <1>5, <1>6, <1>7, <1>9, <2>1
<1>10. QED
  BY <1>8, <1>9

(* The first waiter leaves its queue. *)
LEMMA QueueShrinks ==
  ASSUME IInv, QueuesWait, NEW t \in Tasks, Granted(t)
  PROVE  QueuesWait'
<1> SUFFICES ASSUME NEW b \in Accounts, NEW h \in Eras
             PROVE  /\ IsInjective(lock'[b][h].queue)
                    /\ \A u \in Tasks : u \in Range(lock'[b][h].queue) <=> Waits(u, b, h)'
  BY DEF QueuesWait
<1> DEFINE a == at[t]
           g == mine[t]
           q == lock[b][h].queue
           w == Tail(lock[a][g].queue)
<1>1. /\ a \in Accounts /\ g \in Eras /\ w \in Seq(Tasks) /\ pc[t] = "locking"
      /\ lock[a][g].queue \in Seq(Tasks) /\ lock[a][g].queue # <<>>
      /\ Head(lock[a][g].queue) = t
      /\ WithLock(t, a, g, w)
  BY Granting
<1>2. /\ Others(t) /\ OtherLocks(a, g) /\ lock'[a][g].queue = w /\ pc'[t] # "locking"
  <2> HIDE DEF a, g, w
  <2> QED
    BY <1>1, WithLockEffect DEF IInv
<1>3. IsInjective(q) /\ \A u \in Tasks : u \in Range(q) <=> Waits(u, b, h)
  BY DEF QueuesWait
<1>4. \A u \in Tasks : u # t => (Waits(u, b, h)' <=> Waits(u, b, h))
  BY <1>2 DEF Others, Waits
<1>5. ~Waits(t, b, h)'
  BY <1>2 DEF Waits
<1>6. Waits(t, b, h) <=> b = a /\ h = g
  BY <1>1 DEF Waits
<1>7. CASE b = a /\ h = g
  <2>1. q \in Seq(Tasks) /\ q # <<>> /\ Head(q) = t /\ lock'[b][h].queue = Tail(q)
    BY <1>1, <1>2, <1>7
  <2> HIDE DEF q
  <2>2. IsInjective(Tail(q)) /\ Range(Tail(q)) = Range(q) \ {t}
    BY <1>3, <2>1, ShorterQueue
  <2>3. QED
    BY <1>3, <1>4, <1>5, <2>1, <2>2
<1>8. CASE ~(b = a /\ h = g)
  <2>1. lock'[b][h].queue = q
    BY <1>2, <1>8 DEF OtherLocks
  <2> HIDE DEF q, a, g
  <2>2. QED
    BY <1>3, <1>4, <1>5, <1>6, <1>8, <2>1
<1>9. QED
  BY <1>7, <1>8

LEMMA QueuesWaitStep ==
  ASSUME IInv, QueuesWait, [Next]_vars
  PROVE  QueuesWait'
<1> USE DEF IInv
<1>1. ASSUME NEW t \in Tasks, Enter(t) \/ Exhausted(t) \/ Launch(t) \/ Send(t)
      PROVE  QueuesWait'
  BY <1>1, Quiet, QueuesKept
<1>2. ASSUME NEW t \in Tasks,
             Complete(t) \/ Fail(t) \/ Restricted(t) \/ LoginExpired(t) \/ LaunchFailed(t)
      PROVE  QueuesWait'
  <2>1. PICK p \in Ended \union {"scan"} : Leave(t, p)
    BY <1>2, Leaving
  <2>2. Using(t) /\ at[t] \in Accounts /\ p \in PC /\ p # "locking" /\ mine[t] \in Eras
    BY <1>2, Leaving DEF PC, Ended, TypeOK
  <2>3. /\ Others(t) /\ OtherLocks(at[t], mine[t]) /\ pc'[t] = p
        /\ lock'[at[t]][mine[t]].queue = lock[at[t]][mine[t]].queue
    BY <2>1, <2>2, LeaveEffect
  <2>4. \A a \in Accounts, g \in Eras : lock'[a][g].queue = lock[a][g].queue
    BY <2>3 DEF OtherLocks
  <2>5. pc[t] # "locking"
    BY <2>2 DEF Using
  <2>6. QED
    BY <2>2, <2>3, <2>4, <2>5, QueuesKept DEF Others
<1>3. ASSUME NEW t \in Tasks, Choose(t)
      PROVE  QueuesWait'
  <2>1. PICK a \in Accounts :
           (Available(a) /\ WithLock(t, a, era[a], <<>>)) \/ Asks(t, a)
    BY <1>3, Choosing, UsableAreAccounts
  <2>2. pc[t] # "locking"
    BY <1>3, Choosing
  <2>3. CASE Available(a) /\ WithLock(t, a, era[a], <<>>)
    <3>1. era[a] \in Eras /\ <<>> \in Seq(Tasks)
      BY DEF TypeOK
    <3>2. /\ Others(t) /\ OtherLocks(a, era[a]) /\ lock'[a][era[a]].queue = <<>>
          /\ pc'[t] # "locking"
      <4> DEFINE none == <<>>
      <4>1. none \in Seq(Tasks) /\ WithLock(t, a, era[a], none)
        BY <2>3, <3>1
      <4> HIDE DEF none
      <4>2. /\ Others(t) /\ OtherLocks(a, era[a]) /\ lock'[a][era[a]].queue = none
            /\ pc'[t] \in {"launching", "scan", "failed"}
        BY <3>1, <4>1, WithLockEffect
      <4>3. QED
        BY <4>2 DEF none
    <3>3. \A b \in Accounts, g \in Eras : lock'[b][g].queue = lock[b][g].queue
      BY <2>3, <3>2 DEF OtherLocks, Available, Registered
    <3>4. QED
      BY <2>2, <3>2, <3>3, QueuesKept DEF Others
  <2>4. QED
    BY <2>1, <2>2, <2>3, QueueGrows
<1>4. ASSUME NEW a \in Accounts, Administer(a)
      PROVE  QueuesWait'
  BY <1>4, Administering, QueuesKept
<1>5. CASE UNCHANGED vars
  BY <1>5, QueuesKept DEF vars
<1>6. QED
  BY <1>1, <1>2, <1>3, <1>4, <1>5, QueueShrinks DEF Next, Generate

LEMMA ImagesPauseStep ==
  ASSUME IInv, ImagesPause, [Next]_vars
  PROVE  ImagesPause'
<1> SUFFICES ASSUME NEW t \in Tasks, pc'[t] = "paused", pc[t] # "paused"
             PROVE  Image(t) /\ ~Retry(t)
  BY DEF ImagesPause, Image, Retry, Resume
<1>1. ASSUME NEW u \in Tasks, Generate(u)
      PROVE  Exhausted(t)
  <2>1. CASE Enter(u) \/ Exhausted(u)
    BY <2>1 DEF Enter, Exhausted, Goto, IInv, TypeOK
  <2>2. CASE Launch(u) \/ Send(u)
    BY <2>2 DEF Launch, Send, Goto, IInv, TypeOK
  <2>3. CASE Complete(u) \/ Fail(u) \/ Restricted(u) \/ LoginExpired(u) \/ LaunchFailed(u)
    <3>1. PICK p \in Ended \union {"scan"} : Leave(u, p)
      BY <2>3, Leaving
    <3>2. QED
      BY <3>1 DEF Leave, Goto, Ended, IInv, TypeOK
  <2>4. CASE Choose(u) \/ Granted(u)
    <3>1. \E p \in {"launching", "scan", "failed", "locking"} : pc' = [pc EXCEPT ![u] = p]
      BY <2>4 DEF Choose, Granted, WithLock, Goto
    <3>2. QED
      BY <3>1 DEF IInv, TypeOK
  <2>5. QED
    BY <1>1, <2>1, <2>2, <2>3, <2>4 DEF Generate
<1>2. \A a \in Accounts : ~Administer(a)
  BY Administering DEF IInv
<1>3. ~UNCHANGED vars
  BY DEF vars
<1>4. Exhausted(t)
  BY <1>1, <1>2, <1>3 DEF Next
<1>5. QED
  BY <1>4 DEF Exhausted, Goto, IInv, TypeOK

LEMMA LInductive == LInv /\ [Next]_vars => LInv'
BY Inductive, QueuesWaitStep, ImagesPauseStep DEF LInv

(* Behind every lock that is held or waited for, somebody can move. *)
LEMMA SomebodyBehindLock ==
  ASSUME LInv, LoopFree, NEW a \in Accounts, NEW g \in Eras,
         lock[a][g].holder # NoTask \/ lock[a][g].queue # <<>>
  PROVE  \E t \in Tasks : CanMove(t)
<1> DEFINE mutex == lock[a][g]
<1>1. mutex \in Lock
  BY DEF LInv, IInv, TypeOK
<1>2. mutex.holder \in Tasks \union {NoTask} /\ mutex.queue \in Seq(Tasks)
  BY <1>1, LockHalves, <<>> \in Seq(Tasks)
<1>3. CASE mutex.holder # NoTask
  <2>1. HolderUses
    BY DEF LInv, IInv, LockInv
  <2>2. mutex.holder \in Tasks /\ Using(mutex.holder)
    BY <1>2, <1>3, <2>1 DEF HolderUses
  <2>3. QED
    BY <2>2 DEF CanMove
<1>4. CASE mutex.holder = NoTask /\ mutex.queue # <<>>
  <2>1. IsInjective(mutex.queue)
    BY DEF LInv, QueuesWait
  <2> DEFINE t == Head(mutex.queue)
  <2>2. t \in Tasks /\ t \in Range(mutex.queue)
    <3> HIDE DEF mutex
    <3> QED
      BY <1>2, <1>4, <2>1, ShorterQueue
  <2>3. Waits(t, a, g)
    BY <2>2 DEF LInv, QueuesWait
  <2>4. CanMove(t)
    BY <1>4, <2>3 DEF CanMove, Waits
  <2>5. QED
    BY <2>2, <2>4
<1>5. QED
  BY <1>3, <1>4

(* The pool never comes to a standstill (browser_pool.py:385, 412-420,     *)
(* 473-475, 505): the permits are enough because a task that holds one and *)
(* waits, waits for a lock whose holder needs no further permit, also when *)
(* that lock was dropped.                                                  *)
THEOREM PoolNeverStalls == Spec => []SomebodyMoves
<1>1. ASSUME LInv, NEW t \in Tasks, pc[t] \notin Ended
      PROVE  \E u \in Tasks : CanMove(u)
  <2> USE <1>1
  <2>1. CASE ~LoopFree
    BY <2>1 DEF LoopFree, CanMove
  <2>2. ASSUME LoopFree, NEW u \in Tasks, u \in Inside
        PROVE  \E v \in Tasks : CanMove(v)
    <3>1. CASE Using(u)
      BY <2>2, <3>1 DEF CanMove
    <3>2. CASE pc[u] = "locking"
      <4>1. at[u] \in Accounts /\ mine[u] \in Eras
        BY <3>2 DEF LInv, IInv, LockInv, WaiterHasAccount, TypeOK
      <4>2. u \in Range(lock[at[u]][mine[u]].queue)
        BY <3>2, <4>1 DEF LInv, QueuesWait, Waits
      <4>3. lock[at[u]][mine[u]].queue # <<>>
        BY <4>2 DEF Range
      <4>4. QED
        BY <2>2, <4>1, <4>3, SomebodyBehindLock
    <3>3. CASE pc[u] = "paused"
      <4>1. CASE Usable(u) # {} \/ ~\E a \in Accounts : Schedulable(a, "image")
        BY <2>2, <3>3, <4>1 DEF CanMove
      <4>2. ASSUME Usable(u) = {}, NEW a \in Accounts, Schedulable(a, "image")
            PROVE  \E v \in Tasks : CanMove(v)
        <5>1. Image(u) /\ ~Retry(u) /\ ~Resume(u)
          BY <3>3 DEF LInv, ImagesPause, Image, Resume
        <5>2. Usable(u) = {b \in Accounts : Schedulable(b, "image") /\ ~Locked(b)}
          BY <5>1 DEF Usable, Image, Video
        <5>3. lock[a][era[a]].holder # NoTask /\ era[a] \in Eras
          BY <4>2, <5>2 DEF Locked, Registered, LInv, IInv, TypeOK
        <5>4. QED
          BY <2>2, <5>3, SomebodyBehindLock
      <4>3. QED
        BY <4>1, <4>2
    <3>4. pc[u] \in {"paused", "locking"} \/ Using(u)
      BY <2>2 DEF Inside, LInv, IInv, TypeOK, PC, Using, LoopFree
    <3>5. QED
      BY <3>1, <3>2, <3>3, <3>4
  <2>3. CASE LoopFree /\ Inside = {}
    <3>1. pc[t] = "new"
      BY <2>3 DEF Inside
    <3>2. Cardinality(Inside) < MaxConcurrency
      BY <2>3, FS_EmptySet, NumbersAssumption
    <3>3. QED
      BY <2>3, <3>1, <3>2 DEF CanMove
  <2>4. QED
    <3>1. Inside \subseteq Tasks
      BY DEF Inside
    <3>2. QED
      BY <2>1, <2>2, <2>3, <3>1
<1>2. LInv => SomebodyMoves
  BY <1>1 DEF SomebodyMoves
<1>3. QED
  BY <1>2, InitialLInv, LInductive, PTL DEF Spec

-----------------------------------------------------------------------------
(* The refinement of AccountUse, task by task.                             *)

(* A step that leaves a task where it was, or moves it between the places  *)
(* where it has no profile, is not seen there.                             *)
Waiting == {"new", "scan", "paused", "locking", "launching"}

LEMMA UseCases ==
  ASSUME NEW t \in Tasks
  PROVE  /\ pc[t] \in Waiting => UseOf(t) = "waiting"
         /\ pc[t] = "open" => UseOf(t) = "open"
         /\ pc[t] = "sent" => UseOf(t) = "sent"
         /\ pc[t] = "completed" => UseOf(t) = "completed"
         /\ pc[t] = "failed" => UseOf(t) = "failed"
BY DEF UseOf, Driving, Waiting

LEMMA UseCasesNext ==
  ASSUME NEW t \in Tasks
  PROVE  /\ pc'[t] \in Waiting => UseOf(t)' = "waiting"
         /\ pc'[t] = "open" => UseOf(t)' = "open"
         /\ pc'[t] = "sent" => UseOf(t)' = "sent"
         /\ pc'[t] = "completed" => UseOf(t)' = "completed"
         /\ pc'[t] = "failed" => UseOf(t)' = "failed"
BY DEF UseOf, Driving, Waiting

LEMMA KindCases ==
  ASSUME NEW t \in Tasks
  PROVE  /\ Resume(t) <=> KindOf(t) = "resume"
         /\ Retry(t) <=> KindOf(t) = "retry"
         /\ ~Resume(t) /\ ~Retry(t) <=> KindOf(t) = "new"
BY DEF KindOf, Retry

LEMMA TurnStep ==
  ASSUME IInv, [Next]_vars
  PROVE  \A t \in Tasks : Turn(t)!Step \/ UNCHANGED UseOf(t)
<1> SUFFICES ASSUME NEW t \in Tasks
             PROVE  Turn(t)!Step \/ UNCHANGED UseOf(t)
  OBVIOUS
<1> USE UseCases, UseCasesNext, KindCases DEF IInv, TypeOK
<1>0. CASE pc'[t] = pc[t]
  BY <1>0 DEF UseOf, Driving
<1>1. ASSUME NEW u \in Tasks, Generate(u), u # t
      PROVE  pc'[t] = pc[t]
  BY <1>1 DEF Generate, Enter, Choose, Exhausted, Granted, Launch, Send, Complete,
              Fail, Restricted, LoginExpired, LaunchFailed, WithLock, Leave, Goto
<1>2. CASE Enter(t) \/ Exhausted(t) \/ Choose(t) \/ Granted(t)
  <2>1. /\ pc[t] \in Waiting
        /\ pc'[t] \in Waiting \union {"failed"}
    BY <1>2 DEF Enter, Exhausted, Choose, Granted, WithLock, Goto, Waiting
  <2>2. QED
    BY <2>1 DEF Turn!Step, Turn!Fail, Turn!Pending
<1>3. CASE Launch(t)
  <2>1. /\ pc[t] \in Waiting
        /\ \/ Resume(t) /\ pc'[t] = "sent"
           \/ ~Resume(t) /\ pc'[t] = "open"
    BY <1>3 DEF Launch, Goto, Waiting
  <2>2. QED
    BY <2>1 DEF Turn!Step, Turn!Open, Turn!Follow
<1>4. CASE Send(t)
  BY <1>4 DEF Send, Goto, Turn!Step, Turn!Send
<1>5. CASE Complete(t)
  BY <1>5 DEF Complete, Leave, Goto, Turn!Step, Turn!Complete
<1>6. CASE Fail(t)
  BY <1>6 DEF Fail, Leave, Goto, Using, Waiting, Turn!Step, Turn!Fail, Turn!Pending
<1>7. CASE Restricted(t) \/ LoginExpired(t) \/ LaunchFailed(t)
  <2>1. /\ pc[t] \in {"launching", "open", "sent"}
        /\ \/ pc'[t] = "failed"
           \/ pc'[t] = "scan" /\ ~Retry(t) /\ ~Resume(t)
    BY <1>7, JobKinds DEF Restricted, LoginExpired, LaunchFailed, Leave, Goto, Image, Video, Resume
  <2>2. QED
    BY <2>1 DEF Waiting, Turn!Step, Turn!Fail, Turn!Pending, Turn!MoveOn
<1>8. ASSUME NEW a \in Accounts, Administer(a)
      PROVE  pc'[t] = pc[t]
  BY <1>8, Administering
<1>9. CASE UNCHANGED vars
  BY <1>0, <1>9 DEF vars
<1>10. QED
  BY <1>0, <1>1, <1>2, <1>3, <1>4, <1>5, <1>6, <1>7, <1>8, <1>9 DEF Next, Generate

(* Whatever the scheduler, the locks, the restrictions and the administrator*)
(* do, each generation takes its turn as AccountUse says.                  *)
THEOREM PoolTakesTurns == Spec => TakesTurns
<1>1. IInv /\ [Next]_vars => [\A t \in Tasks : Turn(t)!Step \/ UNCHANGED UseOf(t)]_vars
  BY TurnStep
<1>2. QED
  BY <1>1, Initial, Inductive, PTL DEF Spec, TakesTurns

(* Each generation of the pool, taken by itself, implements AccountUse.    *)
THEOREM PoolImplementsTurn ==
  ASSUME NEW t \in Tasks
  PROVE  Spec => Turn(t)!Spec
<1>1. Init => Turn(t)!Init
  BY UseCases DEF Init, Turn!Init, KindOf, Waiting
<1>2. IInv /\ [Next]_vars
        => [Turn(t)!Step /\ UNCHANGED KindOf(t)]_<<KindOf(t), UseOf(t)>>
  BY TurnStep DEF KindOf, Resume, Retry
<1>3. QED
  BY <1>1, <1>2, Initial, Inductive, PTL DEF Spec, Turn!Spec
=============================================================================
