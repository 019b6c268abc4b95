-------------------------- MODULE LoginJobsProofs --------------------------
(***************************************************************************)
(* Proofs about LoginJobs, for every number of logins and requests.        *)
(***************************************************************************)
EXTENDS LoginJobs, TLAPS

(* No step leaves the types. *)
LEMMA TypeStep == TypeOK /\ [Next]_vars => TypeOK'
<1> SUFFICES ASSUME TypeOK, [Next]_vars PROVE TypeOK'
  OBVIOUS
<1> USE LoginsAssumption, OpAssumption DEF TypeOK
<1>1. ASSUME NEW l \in Logins, Run(l) PROVE TypeOK'
  <2>1. CASE Start(l)
    BY <2>1 DEF Start
  <2>2. CASE Succeed(l)
    BY <2>2 DEF Succeed, End, Untrack
  <2>3. CASE Fail(l)
    BY <2>3 DEF Fail, End, Untrack
  <2>4. CASE Closed(l)
    <3> PICK status \in {"cancelled", "failed"} : End(l, status)
      BY <2>4 DEF Closed
    <3> QED BY <2>4 DEF Closed, End, Untrack
  <2> QED BY <1>1, <2>1, <2>2, <2>3, <2>4 DEF Run
<1>2. ASSUME NEW r \in Requests, Add(r) PROVE TypeOK'
  <2>1. req' \in [Requests -> {"idle", "awaiting", "answered", "crashed"}]
    BY <1>2 DEF Add, Answer
  <2>2. ASSUME NEW l \in Logins,
               login' = [login EXCEPT ![l] = "spawned"],
               behind' = [behind EXCEPT ![l] = {h \in Requests : Runnable(h)}],
               tracked' = l, job' = "running"
        PROVE  TypeOK'
    BY <1>2, <2>1, <2>2 DEF Add
  <2>3. CASE UNCHANGED <<tracked, login, behind>>
    BY <1>2, <2>1, <2>3 DEF Add
  <2> QED BY <1>2, <2>2, <2>3 DEF Add
<1>3. ASSUME NEW r \in Requests, CancelAndAwait(r) PROVE TypeOK'
  BY <1>3 DEF CancelAndAwait, Live, Answer
<1>4. ASSUME NEW r \in Requests, Cancel(r) PROVE TypeOK'
  BY <1>3, <1>4 DEF Cancel, Answer
<1>5. ASSUME NEW r \in Requests, DeleteAccount(r) PROVE TypeOK'
  BY <1>5 DEF DeleteAccount, ForgetLogin, Answer
<1>6. ASSUME NEW r \in Requests, Remove(r) PROVE TypeOK'
  BY <1>3, <1>5, <1>6 DEF Remove, Answer
<1>7. ASSUME NEW r \in Requests, Resume(r) PROVE TypeOK'
  BY <1>5, <1>7 DEF Resume, RemoveResumes, CancelResumes, AwaitRaises, Answer
<1>8. CASE UNCHANGED vars
  BY <1>8 DEF vars
<1> QED BY <1>1, <1>2, <1>4, <1>6, <1>7, <1>8 DEF Next

(* No step leaves a live login without a job: only the two requests that   *)
(* drop the job drop the task with it.                                     *)
LEMMA CancellableStep ==
  TypeOK /\ OpenIsCancellable /\ [Next]_vars => OpenIsCancellable'
<1> SUFFICES ASSUME TypeOK, OpenIsCancellable, [Next]_vars PROVE OpenIsCancellable'
  OBVIOUS
<1> USE LoginsAssumption DEF TypeOK, OpenIsCancellable, Live
<1>1. ASSUME NEW l \in Logins, Start(l) PROVE OpenIsCancellable'
  BY <1>1 DEF Start
<1>2. ASSUME NEW l \in Logins, NEW status \in {"success", "failed", "cancelled"},
             End(l, status), login[l] \in {"open", "closing"}
      PROVE  OpenIsCancellable'
  BY <1>2 DEF End, Untrack
<1>3. ASSUME NEW r \in Requests, Add(r) PROVE OpenIsCancellable'
  BY <1>3 DEF Add
<1>4. ASSUME NEW r \in Requests, CancelAndAwait(r) PROVE OpenIsCancellable'
  BY <1>4 DEF CancelAndAwait
<1>5. ASSUME NEW r \in Requests, Cancel(r) PROVE OpenIsCancellable'
  BY <1>4, <1>5 DEF Cancel
<1>6. ASSUME NEW r \in Requests, DeleteAccount(r) PROVE OpenIsCancellable'
  BY <1>6 DEF DeleteAccount, ForgetLogin
<1>7. ASSUME NEW r \in Requests, Remove(r) PROVE OpenIsCancellable'
  BY <1>4, <1>6, <1>7 DEF Remove
<1>8. ASSUME NEW r \in Requests, Resume(r) PROVE OpenIsCancellable'
  BY <1>6, <1>8 DEF Resume, RemoveResumes, CancelResumes, AwaitRaises
<1>9. CASE UNCHANGED vars
  BY <1>9 DEF vars
<1> QED
  BY <1>1, <1>2, <1>3, <1>5, <1>7, <1>8, <1>9
  DEF Next, Run, Succeed, Fail, Closed

LEMMA Inductive == Spec => [](TypeOK /\ OpenIsCancellable)
<1>1. Init => TypeOK /\ OpenIsCancellable
  BY LoginsAssumption DEF Init, TypeOK, OpenIsCancellable, Live
<1> QED BY <1>1, TypeStep, CancellableStep, PTL DEF Spec

-----------------------------------------------------------------------------
(* The variables keep their types. *)
THEOREM TypeCorrect == Spec => []TypeOK
BY Inductive, PTL

(* An open login can be cancelled, through every race of the requests. *)
THEOREM Cancellable == Spec => []OpenIsCancellable
BY Inductive, PTL

(* Whatever requests and logins interleave, a running login is dropped     *)
(* from ADD_JOB_TASKS only by a handler that comes back from awaiting      *)
(* another one: the run login_jobs_twice shows all there is to repair.     *)
THEOREM LostByLateHandlers == Spec => LostByLateHandlersOnly
<1> DEFINE Lost(l) == Live(l) /\ Live(l)' /\ tracked = l /\ tracked' # l
           Late(l) == \E r \in Requests : /\ req[r] = "awaiting" /\ req'[r] # "awaiting"
                                          /\ awaits[r] # l
<1>1. ASSUME TypeOK, [Next]_vars, NEW l \in Logins, Lost(l) PROVE Late(l)
  <2> USE <1>1, LoginsAssumption DEF TypeOK, Live
  <2>1. ASSUME NEW m \in Logins, Run(m) PROVE FALSE
    <3>1. CASE Start(m)
      BY <3>1 DEF Start
    <3>2. ASSUME NEW status, End(m, status), login[m] \in {"open", "closing"} PROVE FALSE
      BY <3>2 DEF End, Untrack
    <3> QED BY <2>1, <3>1, <3>2 DEF Run, Succeed, Fail, Closed
  <2>2. ASSUME NEW r \in Requests, Add(r) PROVE FALSE
    BY <2>2 DEF Add
  <2>3. ASSUME NEW r \in Requests, Cancel(r) \/ Remove(r) PROVE FALSE
    BY <2>3 DEF Cancel, Remove, CancelAndAwait, DeleteAccount
  <2>4. ASSUME NEW r \in Requests, Resume(r) PROVE Late(l)
    <3>1. Runnable(r) /\ req' \in {[req EXCEPT ![r] = a] : a \in {"answered", "crashed"}}
      BY <2>4 DEF Resume, CancelResumes, RemoveResumes, AwaitRaises, DeleteAccount, Answer
    <3>2. req[r] = "awaiting" /\ awaits[r] # l
      BY <3>1 DEF Runnable
    <3>3. req'[r] # "awaiting"
      BY <3>1
    <3> QED BY <3>2, <3>3
  <2>5. ~UNCHANGED vars
    BY DEF vars
  <2> QED BY <2>1, <2>2, <2>3, <2>4, <2>5 DEF Next
<1>2. TypeOK /\ [Next]_vars => [\A l \in Logins : Lost(l) => Late(l)]_vars
  BY <1>1
<1>3. Spec => []TypeOK
  BY TypeCorrect
<1> QED BY <1>2, <1>3, PTL DEF Spec, LostByLateHandlersOnly
=============================================================================
