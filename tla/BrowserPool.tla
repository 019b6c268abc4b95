---------------------------- MODULE BrowserPool ----------------------------
(***************************************************************************)
(* The account pool of src/dola_gateway/browser_pool.py: generation tasks  *)
(* share the browser profiles of a few accounts under one asyncio lock per *)
(* account and one semaphore, while the administrator enables, verifies,   *)
(* signs in and removes accounts.                                          *)
(*                                                                         *)
(* A coroutine runs without interruption between two awaits that suspend.  *)
(* A task whose pc is "scan" is in the middle of such a turn, and nobody   *)
(* else moves until it has left it.  A released asyncio.Lock is free at    *)
(* once (locked() is false), but its first waiter gets it before anyone    *)
(* who asks later.                                                         *)
(*                                                                         *)
(* Removing an account takes its lock out of the pool's table, not away    *)
(* from the coroutines that wait for it: they go on with the dropped lock, *)
(* and an account of the same name added afterwards has a lock of its own. *)
(***************************************************************************)
EXTENDS Naturals, Sequences, FiniteSets

CONSTANTS
  Tasks, NoTask,   \* generation coroutines, one per task; nobody
  Job,             \* of each: [kind, pin], pin = retry_account or the
                   \* account of an accepted conversation
  NumAccounts,     \* accounts are numbered in the order of the listing
  NoAccount,       \* no pinned account
  MaxConcurrency,  \* permits of the semaphore
  MaxEdits         \* bound: actions of the administrator

Accounts == 1..NumAccounts
Media    == {"video", "image"}
Eras     == 0..MaxEdits   \* the locks an account has had, by removals before

ASSUME TasksAssumption == NoTask \notin Tasks /\ IsFiniteSet(Tasks)
ASSUME NumbersAssumption ==
  NumAccounts \in Nat /\ MaxConcurrency \in Nat \ {0} /\ MaxEdits \in Nat
ASSUME JobAssumption ==
  /\ NoAccount \notin Accounts
  /\ Job \in [Tasks -> [kind : Media \union {"resume"}, pin : Accounts \union {NoAccount}]]
  /\ \A t \in Tasks : Job[t].kind = "resume" => Job[t].pin # NoAccount

VARIABLES
  account,    \* directory and accounts_meta row of each account
  lock,       \* holder and waiters of every lock of every account
  era,        \* which of an account's locks the table _locks has
  pc,         \* where each task stands
  at,         \* the account a task waits for or uses
  mine,       \* which of its locks the task waits for or holds
  cands,      \* candidates the video loop has not visited yet
  verifying,  \* accounts whose login check is running
  signing,    \* accounts with an open sign-in browser
  edits       \* actions of the administrator so far

vars == <<account, lock, era, pc, at, mine, cands, verifying, signing, edits>>

(* media_type of the pool's calls for a task. *)
MediaOf(t) == IF Job[t].kind = "image" THEN "image" ELSE "video"
Image(t)  == Job[t].kind = "image"
Video(t)  == Job[t].kind = "video"
Resume(t) == Job[t].kind = "resume"
Retry(t)  == ~Resume(t) /\ Job[t].pin # NoAccount

Ended   == {"completed", "failed"}
PC      == {"new", "scan", "paused", "locking", "launching", "open", "sent"} \union Ended

(* Between acquire() and release(), and while the browser is up. *)
Using(t)   == pc[t] \in {"launching", "open", "sent"}
Driving(t) == pc[t] \in {"open", "sent"}

AccountRow == [exists : BOOLEAN, row : BOOLEAN, scheduling : BOOLEAN,
               login : BOOLEAN, restricted : SUBSET Media]

Lock == [holder : Tasks \union {NoTask}, queue : Seq(Tasks)]

TypeOK ==
  /\ account \in [Accounts -> AccountRow]
  /\ lock \in [Accounts -> [Eras -> Lock]]
  /\ era \in [Accounts -> Eras]
  /\ pc \in [Tasks -> PC]
  /\ at \in [Tasks -> Accounts \union {NoAccount}]
  /\ mine \in [Tasks -> Eras]
  /\ cands \in [Tasks -> SUBSET Accounts]
  /\ verifying \in SUBSET Accounts
  /\ signing \in SUBSET Accounts
  /\ edits \in 0..MaxEdits

Unlocked == [holder |-> NoTask, queue |-> <<>>]

Init ==
  /\ account \in [Accounts -> {r \in AccountRow :
                               r.exists /\ r.row /\ r.scheduling /\ r.login}]
  /\ lock  = [a \in Accounts |-> [g \in Eras |-> Unlocked]]
  /\ era   = [a \in Accounts |-> 0]
  /\ pc    = [t \in Tasks |-> "new"]
  /\ at    = [t \in Tasks |-> NoAccount]
  /\ mine  = [t \in Tasks |-> 0]
  /\ cands = [t \in Tasks |-> {}]
  /\ verifying = {}
  /\ signing = {}
  /\ edits = 0

-----------------------------------------------------------------------------
(* The event loop: a coroutine is resumed only when none is mid-turn. *)
LoopFree == \A u \in Tasks : pc[u] # "scan"

(* The lock _locks has for an account. *)
Registered(a) == lock[a][era[a]]
Locked(a) == Registered(a).holder # NoTask

(* acquire() returns at once: nobody holds the lock or was before us. *)
Available(a) == Registered(a).queue = <<>> /\ ~Locked(a)

(* delete_account() dropped the lock this task waits for or holds. *)
Dropped(t) == mine[t] # era[at[t]]

(* _schedulable() and _image_schedulable() of an account that is listed. *)
Schedulable(a, m) ==
  /\ account[a].exists /\ account[a].scheduling /\ account[a].login
  /\ m \notin account[a].restricted

(* validate_manual_retry(), without and with require_idle. *)
RetryFits(a, m) ==
  /\ account[a].exists /\ account[a].scheduling /\ account[a].login
  /\ m \in account[a].restricted
RetryMayStart(a, m) == RetryFits(a, m) /\ ~Locked(a)

Goto(t, p) == pc' = [pc EXCEPT ![t] = p]

locks == <<lock, era, at, mine>>
admin == <<verifying, signing, edits>>

-----------------------------------------------------------------------------
(* Choosing an account.                                                    *)

Inside == {t \in Tasks : pc[t] \notin Ended \union {"new"}}

(* async with self.semaphore; a video task takes its snapshot of the       *)
(* schedulable accounts here.                                              *)
Enter(t) ==
  /\ pc[t] = "new" /\ LoopFree
  /\ Cardinality(Inside) < MaxConcurrency
  /\ Goto(t, "scan")
  /\ cands' = [cands EXCEPT ![t] =
                 {a \in Accounts : Video(t) /\ ~Retry(t) /\ Schedulable(a, "video")}]
  /\ UNCHANGED <<account, locks, admin>>

(* Accounts a scan may settle on.  A resumption asks for its account's     *)
(* lock whoever holds it; everyone else passes over locked accounts.       *)
Usable(t) ==
  CASE Resume(t) -> {Job[t].pin}
    [] Retry(t)  -> {a \in {Job[t].pin} : RetryMayStart(a, MediaOf(t))}
    [] Image(t) /\ ~Retry(t) -> {a \in Accounts : Schedulable(a, "image") /\ ~Locked(a)}
    [] Video(t) /\ ~Retry(t) -> {a \in cands[t] : ~Locked(a)}

(* What is checked again under the lock, in the turn that gets it; a       *)
(* resumption checks nothing before its browser is launched.               *)
NotRechecked(t, a) == account[a].exists
StillFit(t, a) ==
  CASE Resume(t) -> TRUE
    [] Retry(t)  -> RetryFits(a, MediaOf(t))
    [] OTHER     -> Schedulable(a, MediaOf(t))

(* The task goes on with the profile on the strength of its look at the    *)
(* lock.                                                                   *)
OpenedUnlocked(t, a, g, q) ==
  /\ StillFit(t, a)
  /\ lock' = [lock EXCEPT ![a][g].queue = q]
  /\ Goto(t, "launching")
  /\ at' = [at EXCEPT ![t] = a] /\ mine' = [mine EXCEPT ![t] = g]

(* The task has lock g of a, whose waiters are now q: it starts to launch  *)
(* the browser, or gives the lock back and looks for another account, or   *)
(* fails.                                                                  *)
WithLock(t, a, g, q) ==
  \/ /\ StillFit(t, a)
     /\ lock' = [lock EXCEPT ![a][g] = [holder |-> t, queue |-> q]]
     /\ Goto(t, "launching")
     /\ at' = [at EXCEPT ![t] = a] /\ mine' = [mine EXCEPT ![t] = g]
  \/ /\ ~StillFit(t, a)
     /\ lock' = [lock EXCEPT ![a][g].queue = q]
     /\ Goto(t, IF account[a].exists /\ ~Retry(t) THEN "scan" ELSE "failed")
     /\ at' = [at EXCEPT ![t] = NoAccount] /\ mine' = [mine EXCEPT ![t] = 0]

(* The first usable account: its lock is taken at once, or waited for if   *)
(* it is held or was released for somebody else a moment ago.              *)
Choose(t) ==
  /\ pc[t] = "scan" \/ (pc[t] = "paused" /\ LoopFree)
  /\ \E a \in Usable(t) :
       /\ \A b \in Usable(t) : a <= b
       /\ cands' = [cands EXCEPT ![t] = {c \in cands[t] : c > a}]
       /\ \/ /\ Available(a)
             /\ WithLock(t, a, era[a], <<>>)
          \/ /\ ~Available(a)
             /\ lock' = [lock EXCEPT ![a][era[a]].queue = Append(@, t)]
             /\ Goto(t, "locking")
             /\ at' = [at EXCEPT ![t] = a] /\ mine' = [mine EXCEPT ![t] = era[a]]
  /\ UNCHANGED <<account, era, admin>>

(* Nothing to settle on: an image waits while a fit account is only busy,  *)
(* looking again on every notification and every half second; everything   *)
(* else gives up.                                                          *)
Exhausted(t) ==
  /\ pc[t] = "scan" \/ (pc[t] = "paused" /\ LoopFree)
  /\ Usable(t) = {}
  /\ LET busy == \E a \in Accounts : Schedulable(a, "image") IN
     \/ (Retry(t) \/ Video(t)) /\ Goto(t, "failed")
     \/ Image(t) /\ ~Retry(t) /\ busy /\ pc[t] = "scan" /\ Goto(t, "paused")
     \/ Image(t) /\ ~Retry(t) /\ ~busy /\ Goto(t, "failed")
  /\ UNCHANGED <<account, locks, cands, admin>>

(* The first waiter of a free lock gets it, though the account may be gone *)
(* by now, or gone and added again.                                        *)
Granted(t) ==
  /\ pc[t] = "locking" /\ LoopFree
  /\ LET mutex == lock[at[t]][mine[t]] IN
     /\ mutex.holder = NoTask
     /\ mutex.queue # <<>> /\ Head(mutex.queue) = t
     /\ WithLock(t, at[t], mine[t], Tail(mutex.queue))
  /\ UNCHANGED <<account, era, cands, admin>>

-----------------------------------------------------------------------------
(* Using an account.                                                       *)

(* async_playwright() has started: the profile's directory is there and    *)
(* the browser opens it.                                                   *)
Launch(t) ==
  /\ pc[t] = "launching" /\ LoopFree
  /\ account[at[t]].exists
  /\ Goto(t, IF Resume(t) THEN "sent" ELSE "open")
  /\ UNCHANGED <<account, locks, cands, admin>>

(* The prompt is typed and Enter is pressed. *)
Send(t) ==
  /\ pc[t] = "open" /\ LoopFree
  /\ Goto(t, "sent")
  /\ UNCHANGED <<account, locks, cands, admin>>

(* The browser is closed and the lock released, its waiters keeping their  *)
(* order; then p.                                                          *)
LeakLock(t, p) ==
  /\ Goto(t, p)
  /\ at' = [at EXCEPT ![t] = NoAccount] /\ mine' = [mine EXCEPT ![t] = 0]
  /\ UNCHANGED <<lock, era, cands, admin>>
Leave(t, p) ==
  /\ lock' = [lock EXCEPT ![at[t]][mine[t]].holder = NoTask]
  /\ Goto(t, p)
  /\ at' = [at EXCEPT ![t] = NoAccount] /\ mine' = [mine EXCEPT ![t] = 0]
  /\ cands' = [cands EXCEPT ![t] = IF p = "scan" THEN @ ELSE {}]
  /\ UNCHANGED <<era, admin>>

(* A result.  A successful manual retry lifts the restriction it defied.   *)
LiftedAlways(t) == account[at[t]].restricted \ Media
Lifted(t) ==
  IF Retry(t) THEN account[at[t]].restricted \ {MediaOf(t)}
              ELSE account[at[t]].restricted
Complete(t) ==
  /\ pc[t] = "sent" /\ LoopFree
  /\ account' = [account EXCEPT ![at[t]].restricted = Lifted(t)]
  /\ Leave(t, "completed")

(* A rejected prompt, an ambiguous answer, a timeout, a browser error. *)
Fail(t) ==
  /\ Using(t) /\ LoopFree
  /\ UNCHANGED account
  /\ Leave(t, "failed")

(* Dola answers with an explicit restriction of the account: the reason is *)
(* recorded, and a new generation moves on to another account.             *)
Restricted(t) ==
  /\ pc[t] = "sent" /\ LoopFree
  /\ account' = [account EXCEPT ![at[t]].row = TRUE,
                                ![at[t]].restricted = @ \union {MediaOf(t)}]
  /\ Leave(t, IF Retry(t) \/ Resume(t) THEN "failed" ELSE "scan")

(* LoginExpiredError of the image worker, before the prompt is sent. *)
LoginExpired(t) ==
  /\ Image(t) /\ pc[t] = "open" /\ LoopFree
  /\ account' = [account EXCEPT ![at[t]].row = TRUE, ![at[t]].login = FALSE]
  /\ Leave(t, IF Retry(t) THEN "failed" ELSE "scan")

(* FileNotFoundError of the launch: the profile, the browser or the        *)
(* extension is not there.  The video loop goes on, for a manual retry to  *)
(* its end; nobody else expects it.                                        *)
LaunchFailed(t) ==
  /\ pc[t] = "launching" /\ LoopFree
  /\ UNCHANGED account
  /\ Leave(t, IF Video(t) /\ ~Retry(t) THEN "scan" ELSE "failed")

-----------------------------------------------------------------------------
(* The administrator.                                                      *)

Edit == edits < MaxEdits /\ edits' = edits + 1 /\ LoopFree

(* PATCH /api/admin/accounts/{name} *)
SetScheduling(a) ==
  /\ Edit /\ account[a].exists
  /\ account' = [account EXCEPT ![a].scheduling = ~@]
  /\ UNCHANGED <<locks, pc, cands, verifying, signing>>

(* DELETE /api/admin/accounts/{name}: profile, row and table entry of the  *)
(* lock go in one turn, once a sign-in it cancelled has ended.             *)
Removed == [exists |-> FALSE, row |-> FALSE, scheduling |-> TRUE,
            login |-> FALSE, restricted |-> {}]
RemovedInUse(a) == account[a].exists
MayRemove(a) == account[a].exists /\ ~Locked(a)
DeleteAccount(a) ==
  /\ Edit /\ MayRemove(a) /\ a \notin signing
  /\ account' = [account EXCEPT ![a] = Removed]
  /\ era' = [era EXCEPT ![a] = @ + 1]
  /\ UNCHANGED <<lock, pc, at, mine, cands, verifying, signing>>

(* POST /api/admin/accounts/{name}/verify: the lock is looked at, not held,*)
(* while the profile is opened for the check.                              *)
VerifyAccount(a) ==
  /\ Edit /\ account[a].exists /\ ~Locked(a) /\ a \notin verifying
  /\ verifying' = verifying \union {a}
  /\ UNCHANGED <<account, locks, pc, cands, signing>>

(* The check answers, or fails without an answer.  The answer is an UPDATE,*)
(* lost if the row is gone.                                                *)
Verified(a) ==
  /\ a \in verifying /\ LoopFree
  /\ verifying' = verifying \ {a}
  /\ \/ \E ok \in BOOLEAN :
          account' = [account EXCEPT ![a].login = ok /\ account[a].row]
     \/ UNCHANGED account
  /\ UNCHANGED <<locks, pc, cands, signing, edits>>

(* POST /api/admin/accounts: a login is opened for an account that is new  *)
(* or logged out, without its lock, whoever still waits for or holds a     *)
(* lock of an earlier account of this name.  Its row may be there already: *)
(* a late restriction makes one for an account that was removed.           *)
SignIn(a) ==
  /\ Edit /\ a \notin signing /\ ~(account[a].exists /\ account[a].login)
  /\ account' = [account EXCEPT ![a].exists = TRUE, ![a].row = TRUE]
  /\ signing' = signing \union {a}
  /\ UNCHANGED <<locks, pc, cands, verifying>>

(* The session was found, or the login failed, timed out or was cancelled. *)
SignedIn(a) ==
  /\ a \in signing /\ LoopFree
  /\ signing' = signing \ {a}
  /\ \/ account' = [account EXCEPT ![a].login = TRUE]
     \/ UNCHANGED account
  /\ UNCHANGED <<locks, pc, cands, verifying, edits>>

-----------------------------------------------------------------------------
Generate(t) ==
  \/ Enter(t) \/ Choose(t) \/ Exhausted(t) \/ Granted(t) \/ Launch(t)
  \/ Send(t) \/ Complete(t) \/ Fail(t) \/ Restricted(t) \/ LoginExpired(t)
  \/ LaunchFailed(t)

Administer(a) ==
  \/ SetScheduling(a) \/ DeleteAccount(a)
  \/ VerifyAccount(a) \/ Verified(a) \/ SignIn(a) \/ SignedIn(a)

Next == (\E t \in Tasks : Generate(t)) \/ (\E a \in Accounts : Administer(a))

Spec == Init /\ [][Next]_vars

(* The event loop keeps resuming coroutines that are ready, and the browser*)
(* answers or fails; of which task is not said, as none can keep the loop  *)
(* to itself.  The administrator does as he likes.                         *)
FairSpec == Spec /\ WF_vars(\E t \in Tasks : Generate(t))

-----------------------------------------------------------------------------
(* Two generations use one account only under different locks of it, so    *)
(* only after delete_account() dropped one of them: an account that was    *)
(* never removed is never shared, whichever of the two was waiting,        *)
(* resumed or rotated (browser_pool.py:284, 514-518).                      *)
ProfileExclusive ==
  \A t, u \in Tasks :
    Using(t) /\ Using(u) /\ t # u /\ at[t] = at[u] =>
      mine[t] # mine[u] /\ (Dropped(t) \/ Dropped(u))

(* While a generation has the lock that the table has, its account is not  *)
(* removed: that lock stays in the table, and the profile stays once it is *)
(* open ("so a generation cannot claim this profile in the middle of       *)
(* deletion", server.py:1107).  So only a generation still waiting when    *)
(* its account goes comes to use a dropped lock.                           *)
ProfileStays ==
  [][\A t \in Tasks : Using(t) /\ ~Dropped(t) =>
       /\ era'[at[t]] = era[at[t]]
       /\ Driving(t) => account'[at[t]].exists]_vars

(* Every error path gives the account back: a lock, dropped or not, is     *)
(* held only by the task that is using the account right now               *)
(* (browser_pool.py:424-468).                                              *)
NoLockLeak ==
  \A a \in Accounts, g \in Eras :
    LET t == lock[a][g].holder IN
    t # NoTask => Using(t) /\ at[t] = a /\ mine[t] = g

(* A generation goes on with an account only if that is fit for the medium *)
(* when it has the lock, not because it was when the candidates were listed*)
(* or the lock was asked for (browser_pool.py:426-430, 518-521).           *)
DispatchedFit ==
  [][\A t \in Tasks : ~Using(t) /\ Using(t)' /\ ~Resume(t) =>
       LET row == account[at'[t]] IN
       /\ row.exists /\ row.scheduling /\ row.login
       /\ Retry(t) <=> MediaOf(t) \in row.restricted]_vars

(* A restriction ends only with the account or with a deliberate retry of  *)
(* that medium succeeding on that account: no other result, concurrent or  *)
(* resumed, lifts it (browser_pool.py:462, 532).                           *)
RestrictionSticks ==
  [][\A a \in Accounts, m \in Media :
       m \in account[a].restricted /\ m \notin account'[a].restricted =>
         \/ ~account'[a].exists
         \/ \E t \in Tasks : /\ Retry(t) /\ MediaOf(t) = m /\ Job[t].pin = a
                             /\ pc[t] = "sent" /\ pc'[t] = "completed"]_vars

(* Every task ends, though tasks hold permits while they wait for locks    *)
(* and images wait for accounts: nobody waits on somebody who waits on him *)
(* (browser_pool.py:385, 412-420, 473-475, 505).                           *)
EveryTaskEnds == <>(\A t \in Tasks : pc[t] \in Ended)

(* What a task can do by itself: the guards of Generate(t). *)
CanMove(t) ==
  \/ pc[t] = "scan"
  \/ /\ LoopFree
     /\ \/ pc[t] = "new" /\ Cardinality(Inside) < MaxConcurrency
        \/ Using(t)
        \/ pc[t] = "paused" /\ (Usable(t) # {} \/ ~\E a \in Accounts : Schedulable(a, "image"))
        \/ pc[t] = "locking" /\
             LET mutex == lock[at[t]][mine[t]] IN
             mutex.holder = NoTask /\ mutex.queue # <<>> /\ Head(mutex.queue) = t

(* The pool never comes to a standstill: while a generation is unfinished, *)
(* one can go on without help of the administrator, whatever permits and   *)
(* locks the others hold while they wait (browser_pool.py:385, 412-420,    *)
(* 473-475, 505).                                                          *)
SomebodyMoves ==
  (\E t \in Tasks : pc[t] \notin Ended) => \E t \in Tasks : CanMove(t)

(* Each generation takes its turn on the accounts as AccountUse says: a    *)
(* profile is opened before the prompt is sent, a retry and a resumption   *)
(* stay with their account, and nothing follows the end                    *)
(* (browser_pool.py:384-572).                                              *)
KindOf(t) == IF Resume(t) THEN "resume" ELSE IF Retry(t) THEN "retry" ELSE "new"
UseOf(t) ==
  CASE Driving(t)            -> pc[t]
    [] pc[t] = "completed"   -> "completed"
    [] pc[t] = "failed"      -> "failed"
    [] OTHER                 -> "waiting"
Turn(t) == INSTANCE AccountUse WITH kind <- KindOf(t), use <- UseOf(t)
TakesTurns ==
  [][\A t \in Tasks : Turn(t)!Step \/ UNCHANGED UseOf(t)]_vars

(* No two browsers ever run on one profile: not two generations, and not a *)
(* generation beside a login check or a sign-in ("Skip busy accounts to    *)
(* prevent concurrent collisions on same profile", browser_pool.py:514).   *)
NeverShared ==
  \A t, u \in Tasks : Driving(t) /\ Driving(u) /\ t # u => at[t] # at[u]
OneBrowserPerProfile ==
  /\ NeverShared
  /\ \A t \in Tasks : Driving(t) => at[t] \notin verifying \union signing
  /\ verifying \intersect signing = {}
=============================================================================
