----------------------------- MODULE LoginJobs -----------------------------
(***************************************************************************)
(* The login jobs of src/dola_gateway/server.py: signing one account in    *)
(* through a visible browser, cancelling that, and removing the account.   *)
(* JOBS holds the status the administrator sees, ADD_JOB_TASKS the task of *)
(* the login; both are keyed by account name, and names do not interact.   *)
(*                                                                         *)
(* A handler runs without interruption up to the await of a cancelled      *)
(* task.  When a task is done the handlers that await it become runnable:  *)
(* other handlers may still run before them, but a task spawned after that *)
(* takes its first step after them (the event loop is a FIFO queue).       *)
(***************************************************************************)
EXTENDS Naturals

CONSTANTS
  Logins, NoLogin,  \* tasks of _run_add_job(), in any order; none
  Requests,         \* requests of the administrator
  Op                \* what each does: "add", "cancel" or "remove"

ASSUME LoginsAssumption == NoLogin \notin Logins
ASSUME OpAssumption == Op \in [Requests -> {"add", "cancel", "remove"}]

VARIABLES
  job,      \* JOBS[name]["status"], "none" while there is no entry
  tracked,  \* ADD_JOB_TASKS[name]
  login,    \* where each task stands
  req,      \* where the handler of each request stands
  awaits,   \* the task it awaits
  behind,   \* handlers that were runnable when a task was spawned
  profile,  \* the profile directory exists
  login_ok  \* the account's row says it is logged in

vars == <<job, tracked, login, req, awaits, behind, profile, login_ok>>

TypeOK ==
  /\ job \in {"none", "running", "success", "failed", "cancelled"}
  /\ tracked \in Logins \union {NoLogin}
  /\ login \in [Logins -> {"new", "spawned", "revoked", "open", "closing", "done", "broken"}]
  /\ req \in [Requests -> {"idle", "awaiting", "answered", "crashed"}]
  /\ awaits \in [Requests -> Logins \union {NoLogin}]
  /\ behind \in [Logins -> SUBSET Requests]
  /\ profile \in BOOLEAN /\ login_ok \in BOOLEAN

(* A new name, an account that is logged out, or one that is logged in. *)
Init ==
  /\ job = "none" /\ tracked = NoLogin
  /\ login  = [l \in Logins |-> "new"]
  /\ req    = [r \in Requests |-> "idle"]
  /\ awaits = [r \in Requests |-> NoLogin]
  /\ behind = [l \in Logins |-> {}]
  /\ profile \in BOOLEAN
  /\ login_ok \in BOOLEAN /\ (login_ok => profile)

Live(l) == l # NoLogin /\ login[l] \in {"spawned", "revoked", "open", "closing"}

(* The browser of a login has the profile open. *)
HasProfile(l) == login[l] \in {"open", "closing"}

Answer(r, a) == req' = [req EXCEPT ![r] = a]
Received(r, op) == req[r] = "idle" /\ Op[r] = op
Runnable(r) == req[r] = "awaiting" /\ login[awaits[r]] \in {"done", "broken"}

-----------------------------------------------------------------------------
(* The task.                                                               *)

(* Its first step, after every handler that was runnable before it; a task *)
(* cancelled before that never runs.                                       *)
Start(l) ==
  /\ \A r \in behind[l] : ~Runnable(r)
  /\ \/ /\ login[l] = "spawned"
        /\ login' = [login EXCEPT ![l] = "open"]
        /\ job' = "running"
        /\ profile' = TRUE
     \/ /\ login[l] = "revoked"
        /\ login' = [login EXCEPT ![l] = "done"]
        /\ UNCHANGED <<job, profile>>
  /\ UNCHANGED <<tracked, req, awaits, behind, login_ok>>

(* Its end: the entry of JOBS is updated, a KeyError if there is none any  *)
(* more, and the task leaves ADD_JOB_TASKS if it is the one in there.      *)
Untrack(l) == IF tracked = l THEN NoLogin ELSE tracked
End(l, status) ==
  /\ login' = [login EXCEPT ![l] = IF job = "none" THEN "broken" ELSE "done"]
  /\ job' = IF job = "none" THEN "none" ELSE status
  /\ tracked' = Untrack(l)
  /\ UNCHANGED <<req, awaits, behind, profile>>

Succeed(l) ==
  /\ login[l] = "open"
  /\ login_ok' = TRUE
  /\ End(l, "success")

(* No login within LOGIN_TIMEOUT, or an error of the browser. *)
NeverTimesOut(l) == FALSE
Fail(l) ==
  /\ login[l] = "open"
  /\ End(l, "failed")
  /\ UNCHANGED login_ok

(* A cancelled login closes its browser first, which may fail. *)
Closed(l) ==
  /\ login[l] = "closing"
  /\ \E status \in {"cancelled", "failed"} : End(l, status)
  /\ UNCHANGED login_ok

-----------------------------------------------------------------------------
(* The requests.                                                           *)

(* POST /api/admin/accounts *)
Add(r) ==
  /\ Received(r, "add")
  /\ Answer(r, "answered")
  /\ \/ /\ Live(tracked)
        /\ UNCHANGED <<job, tracked, login, behind>>
     \/ /\ ~Live(tracked) /\ profile /\ login_ok
        /\ job' = IF job = "running" THEN "failed" ELSE job
        /\ UNCHANGED <<tracked, login, behind>>
     \/ /\ ~Live(tracked) /\ ~(profile /\ login_ok)
        /\ job' = "running"
        /\ \E l \in Logins :
             /\ login[l] = "new"
             /\ login' = [login EXCEPT ![l] = "spawned"]
             /\ behind' = [behind EXCEPT ![l] = {h \in Requests : Runnable(h)}]
             /\ tracked' = l
  /\ UNCHANGED <<awaits, profile, login_ok>>

(* task.cancel() and the await of the task. *)
CancelAndAwait(r) ==
  /\ Live(tracked)
  /\ login' = [login EXCEPT ![tracked] =
                 IF @ \in {"spawned", "revoked"} THEN "revoked" ELSE "closing"]
  /\ awaits' = [awaits EXCEPT ![r] = tracked]
  /\ Answer(r, "awaiting")
  /\ UNCHANGED <<job, tracked, behind, profile, login_ok>>

(* DELETE /api/admin/jobs/{name} *)
Cancel(r) ==
  /\ Received(r, "cancel")
  /\ \/ job # "none" /\ CancelAndAwait(r)
     \/ /\ job = "none" \/ ~Live(tracked)
        /\ job' = IF job = "running" THEN "cancelled" ELSE job
        /\ Answer(r, "answered")
        /\ UNCHANGED <<tracked, login, awaits, behind, profile, login_ok>>

(* The error of a task is that of the handler that awaits it. *)
AwaitRaises(r) ==
  /\ Runnable(r) /\ login[awaits[r]] = "broken"
  /\ Answer(r, "crashed")
  /\ UNCHANGED <<job, tracked, login, awaits, behind, profile, login_ok>>

(* The rest of it reads JOBS[name], which may be gone. *)
CancelResumes(r) ==
  /\ Runnable(r) /\ login[awaits[r]] = "done" /\ Op[r] = "cancel"
  /\ tracked' = NoLogin
  /\ job' = IF job = "running" THEN "cancelled" ELSE job
  /\ Answer(r, IF job = "none" THEN "crashed" ELSE "answered")
  /\ UNCHANGED <<login, awaits, behind, profile, login_ok>>

(* pool.delete_account() and what follows in the same turn, unless the     *)
(* account is in use or its directory cannot be removed.                   *)
ForgetJob == job' = "none" /\ UNCHANGED tracked
ForgetLogin == job' = "none" /\ tracked' = NoLogin
DeleteAccount(r) ==
  /\ Answer(r, "answered")
  /\ \/ UNCHANGED <<job, tracked, profile, login_ok>>
     \/ profile' = FALSE /\ login_ok' = FALSE /\ ForgetLogin
  /\ UNCHANGED <<login, awaits, behind>>

(* DELETE /api/admin/accounts/{name} *)
Remove(r) ==
  /\ Received(r, "remove")
  /\ \/ /\ ~profile
        /\ Answer(r, "answered")
        /\ UNCHANGED <<job, tracked, login, awaits, behind, profile, login_ok>>
     \/ profile /\ CancelAndAwait(r)
     \/ profile /\ ~Live(tracked) /\ DeleteAccount(r)

RemoveResumes(r) ==
  /\ Runnable(r) /\ login[awaits[r]] = "done" /\ Op[r] = "remove"
  /\ DeleteAccount(r)

-----------------------------------------------------------------------------
Run(l) == Start(l) \/ Succeed(l) \/ Fail(l) \/ Closed(l)
Resume(r) == CancelResumes(r) \/ RemoveResumes(r) \/ AwaitRaises(r)

Next ==
  \/ \E l \in Logins : Run(l)
  \/ \E r \in Requests : Add(r) \/ Cancel(r) \/ Remove(r) \/ Resume(r)

Spec == Init /\ [][Next]_vars

(* The event loop runs what is ready, and LOGIN_TIMEOUT ends a login that  *)
(* nobody completes: nobody has to.                                        *)
FairSpec ==
  /\ Spec
  /\ \A l \in Logins : WF_vars(Start(l)) /\ WF_vars(Fail(l)) /\ WF_vars(Closed(l))
  /\ \A r \in Requests : WF_vars(Resume(r))

-----------------------------------------------------------------------------
(* A login that is open can be cancelled: POST refuses another one only    *)
(* while the job that DELETE looks up exists, whatever was cancelled or    *)
(* removed meanwhile (server.py:1118-1119, 1170-1173, 1211-1213).          *)
OpenIsCancellable == Live(tracked) => job # "none"

(* "A running marker without a live task is stale and must not block       *)
(* retry" (server.py:1175): an account is not refused forever, whether its *)
(* login is completed, abandoned or cancelled, and however often.          *)
NotRefusedForever == Live(tracked) ~> ~Live(tracked)

(* The one way in which the server loses sight of a login that runs on: a  *)
(* handler that awaited another one resumes and drops the entry.  No       *)
(* request that is answered at once, no end of a login and no new login    *)
(* does it (server.py:1118-1119, 1170-1180, 1211-1224).                    *)
LostByLateHandlersOnly ==
  [][\A l \in Logins : Live(l) /\ Live(l)' /\ tracked = l /\ tracked' # l =>
       \E r \in Requests : /\ req[r] = "awaiting" /\ req'[r] # "awaiting"
                           /\ awaits[r] # l]_vars

(* "Login is already open for ...; cancel it before retrying"              *)
(* (server.py:1172): two logins never have the profile open.               *)
OneLogin == \A l, m \in Logins : HasProfile(l) /\ HasProfile(m) => l = m
=============================================================================
