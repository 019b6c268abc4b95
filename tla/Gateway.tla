------------------------------ MODULE Gateway ------------------------------
(***************************************************************************)
(* The life of generation tasks through requests, workers, crashes and     *)
(* restarts: the endpoints and background coroutines of                    *)
(* src/dola_gateway/server.py over the task table of store.py, composed    *)
(* with the per-key limiter (KeyLimiter).                                  *)
(*                                                                         *)
(* The task table survives a crash; requests, coroutines and the limiter   *)
(* live in the process and do not.  An action is the code between two      *)
(* suspending awaits.  The browser pool is represented by what a worker    *)
(* sees of it: an account opened, the prompt sent, the conversation        *)
(* recorded, a result or an error (module BrowserPool has its inside).     *)
(***************************************************************************)
EXTENDS Naturals, FiniteSets

CONSTANTS
  Tasks,        \* POST requests; the task a request creates has its name
  Ask,          \* what each request asks: [media, key, idem, retry]
  Keys, NoKey,  \* API-key hashes; the anonymous client
  NoIdem,       \* the request carries no Idempotency-Key
  KeyLimit,     \* concurrency_limit of each key
  DailyLimit,   \* daily_limit of each key, 0 = unlimited
  MaxPending,   \* MAX_PENDING_TASKS, 0 = unlimited
  MaxTried,     \* bound: accounts a worker moves on from before it gives up
  MaxStops      \* bound: crashes and shutdowns

ASSUME TasksAssumption == IsFiniteSet(Tasks)
ASSUME AskAssumption ==
  /\ NoKey \notin Keys
  /\ \A r \in Tasks : /\ Ask[r].media \in {"video", "image"}
                      /\ Ask[r].key \in Keys \union {NoKey}
                      /\ Ask[r].retry \in BOOLEAN
ASSUME LimitsAssumption ==
  /\ KeyLimit \in [Keys -> Nat] /\ DailyLimit \in [Keys -> Nat]
  /\ MaxPending \in Nat /\ MaxTried \in Nat /\ MaxStops \in Nat

VARIABLES
  \* durable
  status,       \* tasks.status, "none" while the row does not exist
  conv,         \* tasks.conversation_id, by what became of the conversation
  \* of the process
  server,       \* the process: "down", the two steps of its boot, "up"
  req,          \* the handler of each request
  worker,       \* where the background coroutine of each task stands
  tried,        \* accounts the worker has moved on from
  active, slot, \* the limiter
  \* observed, not stored
  outstanding,  \* submissions Dola has received and not refused
  stops         \* crashes and shutdowns so far

durable == <<status, conv>>
limiter == <<active, slot>>
vars == <<status, conv, server, req, worker, tried, active, slot,
          outstanding, stops>>

Video(t) == Ask[t].media = "video"
Image(t) == Ask[t].media = "image"
Retry(t) == Ask[t].retry

(* client_concurrency_limit of the task row. *)
LimitOf(t) == IF Ask[t].key = NoKey THEN 0 ELSE KeyLimit[Ask[t].key]

L == INSTANCE KeyLimiter WITH
       Limits <- [k \in Keys |-> {KeyLimit[k]}],
       call   <- [t \in Tasks |-> [key |-> Ask[t].key, limit |-> LimitOf(t)]],
       policy <- KeyLimit

Rows        == {t \in Tasks : status[t] # "none"}
PendingRows == {t \in Tasks : status[t] \in {"queued", "processing"}}

(* Worker positions: at the limiter for a new generation or a resumption;  *)
(* then inside the pool.                                                   *)
AtLimiter == {"run", "resume"}
InPool    == {"preparing", "open", "submitted", "accepted", "polling"}

TypeOK ==
  /\ status \in [Tasks -> {"none", "queued", "processing", "completed", "failed"}]
  /\ conv \in [Tasks -> {"none", "current", "refused"}]
  /\ server \in {"down", "boot1", "boot2", "up"}
  /\ req \in [Tasks -> {"idle", "validating", "done"}]
  /\ worker \in [Tasks -> {"none"} \union AtLimiter \union InPool]
  /\ tried \in [Tasks -> 0..MaxTried]
  /\ active \in [Keys -> Nat]
  /\ slot \in [Tasks -> L!SlotState]
  /\ outstanding \in [Tasks -> Nat]
  /\ stops \in 0..MaxStops

Init ==
  /\ status = [t \in Tasks |-> "none"]
  /\ conv   = [t \in Tasks |-> "none"]
  /\ server = "down"
  /\ req    = [t \in Tasks |-> "idle"]
  /\ worker = [t \in Tasks |-> "none"]
  /\ tried  = [t \in Tasks |-> 0]
  /\ active = [k \in Keys |-> 0]
  /\ slot   = [t \in Tasks |-> "new"]
  /\ outstanding = [t \in Tasks |-> 0]
  /\ stops  = 0

-----------------------------------------------------------------------------
(* Requests.                                                               *)

(* The row find_idempotent() and create() look up for request r. *)
SameIdem(r, t) ==
  /\ Ask[r].idem # NoIdem
  /\ Ask[t].idem = Ask[r].idem
  /\ Ask[t].media = Ask[r].media
  /\ Ask[t].key = Ask[r].key
FindIdempotent(r) == {t \in Rows : SameIdem(r, t)}

(* create() looks again, under the same lock as its INSERT.                *)
NotLookedUp(r) == {}
Existing(r) == {t \in Rows : SameIdem(r, t)}

QueueOverfull == MaxPending > 0 /\ Cardinality(PendingRows) > MaxPending
QueueFull == MaxPending > 0 /\ Cardinality(PendingRows) >= MaxPending

QuotaSpent(r) ==
  LET k == Ask[r].key IN
  /\ k # NoKey
  /\ DailyLimit[k] > 0
  /\ Cardinality({t \in Rows : Ask[t].key = k}) >= DailyLimit[k]

Answered(r) == req' = [req EXCEPT ![r] = "done"]

(* store.create() and what follows it in the same turn: an existing row is *)
(* returned, a full queue or a spent quota is refused, and otherwise the   *)
(* row is inserted and its worker spawned.                                 *)
CreateTask(r) ==
  /\ Answered(r)
  /\ \/ /\ Existing(r) # {} \/ QueueFull \/ QuotaSpent(r)
        /\ UNCHANGED <<status, worker, tried, limiter>>
     \/ /\ Existing(r) = {} /\ ~QueueFull /\ ~QuotaSpent(r)
        /\ status' = [status EXCEPT ![r] = "queued"]
        /\ worker' = [worker EXCEPT ![r] = "run"]
        /\ tried'  = [tried EXCEPT ![r] = 0]
        /\ slot'   = [slot EXCEPT ![r] = "called"]
        /\ UNCHANGED active

(* POST /v1/videos/generations up to the await of validate_reference_urls: *)
(* answered from an existing row, refused, or suspended there.             *)
PostVideo(r) ==
  /\ server = "up" /\ Video(r) /\ req[r] = "idle"
  /\ \/ Answered(r)
     \/ /\ FindIdempotent(r) = {}
        /\ req' = [req EXCEPT ![r] = "validating"]
  /\ UNCHANGED <<durable, server, worker, tried, limiter, outstanding, stops>>

(* The rest of it: the task is created, or the request is refused (a bad   *)
(* reference image, no account, every account restricted).                 *)
ValidatedVideo(r) ==
  /\ server = "up" /\ req[r] = "validating"
  /\ \/ CreateTask(r)
     \/ Answered(r) /\ UNCHANGED <<status, worker, tried, limiter>>
  /\ UNCHANGED <<conv, server, outstanding, stops>>

(* POST /v1/images/generations never suspends before create(). *)
PostImage(r) ==
  /\ server = "up" /\ Image(r) /\ req[r] = "idle"
  /\ \/ CreateTask(r)
     \/ Answered(r) /\ UNCHANGED <<status, worker, tried, limiter>>
  /\ UNCHANGED <<conv, server, outstanding, stops>>

-----------------------------------------------------------------------------
(* Workers: _run_task, _run_image_task and _resume_task.                   *)

Set(f, t, v) == [f EXCEPT ![t] = v]

(* key_limiter.acquire(); once inside, a video is marked processing before *)
(* anything else, an image is not.                                         *)
EnterLimiter(t) ==
  /\ worker[t] \in AtLimiter
  /\ L!Acquire(t) \/ L!Wake(t)
  /\ \/ /\ slot'[t] = "held"
        /\ worker' = Set(worker, t, IF worker[t] = "run" THEN "preparing"
                                                         ELSE "polling")
        /\ status' = IF Video(t) THEN Set(status, t, "processing") ELSE status
     \/ /\ slot'[t] # "held"
        /\ UNCHANGED <<worker, status>>
  /\ UNCHANGED <<conv, server, req, tried, outstanding, stops>>

(* on_start(): an image task becomes processing when an account is locked  *)
(* for it; a video task already is.                                        *)
NoOnStart(t) == status
OnStart(t) == IF Image(t) THEN Set(status, t, "processing") ELSE status

(* The pool has a free permit and a free account and opens its profile.    *)
OpenAccount(t) ==
  /\ worker[t] = "preparing"
  /\ worker' = Set(worker, t, "open")
  /\ status' = OnStart(t)
  /\ UNCHANGED <<conv, server, req, tried, limiter, outstanding, stops>>

(* Enter is pressed in the Dola chat. *)
SubmitPrompt(t) ==
  /\ worker[t] = "open"
  /\ worker' = Set(worker, t, "submitted")
  /\ outstanding' = Set(outstanding, t, outstanding[t] + 1)
  /\ UNCHANGED <<durable, server, req, tried, limiter, stops>>

(* on_conversation_id(): the accepted conversation is made durable. *)
RecordConversation(t) ==
  /\ worker[t] = "submitted" /\ Video(t)
  /\ worker' = Set(worker, t, "accepted")
  /\ status' = Set(status, t, "processing")
  /\ conv'   = Set(conv, t, "current")
  /\ UNCHANGED <<server, req, tried, limiter, outstanding, stops>>

(* A submission answered with an explicit restriction is refused. *)
Refusal(t) ==
  IF worker[t] = "open" THEN outstanding
  ELSE Set(outstanding, t, outstanding[t] - 1)

(* The profile turns out to be missing or logged out before the prompt is  *)
(* sent, or Dola answers the prompt with an explicit restriction (an image *)
(* before its result, a video in its conversation): the pool moves on to   *)
(* another account, never for a manual retry.                              *)
Rotate(t) ==
  /\ \/ worker[t] = "open"
     \/ worker[t] = "submitted" /\ Image(t)
     \/ worker[t] = "accepted"
  /\ ~Retry(t)
  /\ tried[t] < MaxTried
  /\ tried'  = Set(tried, t, tried[t] + 1)
  /\ worker' = Set(worker, t, "preparing")
  /\ outstanding' = Refusal(t)
  /\ conv' = IF worker[t] = "accepted" THEN Set(conv, t, "refused") ELSE conv
  /\ UNCHANGED <<status, server, req, limiter, stops>>

(* The last update of the row and the finally block, in one turn. *)
Finish(t, s) ==
  /\ status' = Set(status, t, s)
  /\ worker' = Set(worker, t, "none")
  /\ L!Release(t)
  /\ UNCHANGED <<conv, server, req, tried, outstanding, stops>>

Complete(t) ==
  /\ \/ worker[t] = "submitted" /\ Image(t)
     \/ worker[t] = "accepted"
     \/ worker[t] = "polling" /\ conv[t] = "current"
  /\ Finish(t, "completed")

(* Any error of a download, the pool, the browser or Dola, and timeouts. *)
Fail(t) ==
  /\ worker[t] \in InPool
  /\ Finish(t, "failed")

-----------------------------------------------------------------------------
(* The process.                                                            *)

(* A crash, or a shutdown: the lifespan cancels every worker, and          *)
(* CancelledError passes the except clauses, so no row is updated.  The    *)
(* profile's browser dies with the process; what Dola has received stays.  *)
Stop ==
  /\ server # "down" /\ stops < MaxStops
  /\ stops'  = stops + 1
  /\ server' = "down"
  /\ req'    = [r \in Tasks |-> IF req[r] = "validating" THEN "done" ELSE req[r]]
  /\ worker' = [t \in Tasks |-> "none"]
  /\ tried'  = [t \in Tasks |-> 0]
  /\ active' = [k \in Keys |-> 0]
  /\ slot'   = [t \in Tasks |-> "new"]
  /\ UNCHANGED <<durable, outstanding>>

FailRows(S) == [t \in Tasks |-> IF t \in S THEN "failed" ELSE status[t]]

InterruptedRunningRetries == {t \in PendingRows : Retry(t) /\ status[t] = "processing"}
InterruptedRetries == {t \in PendingRows : Retry(t)}
InterruptedImages  == {t \in Rows : Image(t) /\ status[t] = "processing"}

(* resume_incomplete_tasks() commits in three steps before the server      *)
(* accepts requests; the process may stop between them.                    *)
FailInterruptedRetries ==
  /\ server = "down"
  /\ server' = "boot1"
  /\ status' = FailRows(InterruptedRetries)
  /\ UNCHANGED <<conv, req, worker, tried, limiter, outstanding, stops>>

FailInterruptedImages ==
  /\ server = "boot1"
  /\ server' = "boot2"
  /\ status' = FailRows(InterruptedImages)
  /\ UNCHANGED <<conv, req, worker, tried, limiter, outstanding, stops>>

(* recoverable_tasks(), recoverable_queued_tasks(), recoverable_image_tasks(). *)
Resumable ==
  {t \in PendingRows : Video(t) /\ conv[t] # "none" /\ ~Retry(t)}
RequeuedPendingVideos ==
  {t \in PendingRows : Video(t) /\ conv[t] = "none" /\ ~Retry(t)}
RequeuedVideos ==
  {t \in Rows : status[t] = "queued" /\ Video(t) /\ conv[t] = "none" /\ ~Retry(t)}
RequeuedNoImages == {}
RequeuedImages ==
  {t \in Rows : status[t] = "queued" /\ Image(t) /\ ~Retry(t)}

SpawnRecovered ==
  /\ server = "boot2"
  /\ server' = "up"
  /\ worker' = [t \in Tasks |->
       CASE t \in Resumable -> "resume"
         [] t \in RequeuedVideos \union RequeuedImages -> "run"
         [] OTHER -> "none"]
  /\ slot' = [t \in Tasks |-> IF worker'[t] = "none" THEN "new" ELSE "called"]
  /\ UNCHANGED <<durable, req, tried, active, outstanding, stops>>

-----------------------------------------------------------------------------
Handle(r) == PostVideo(r) \/ ValidatedVideo(r) \/ PostImage(r)

Work(t) ==
  \/ EnterLimiter(t) \/ OpenAccount(t) \/ SubmitPrompt(t)
  \/ RecordConversation(t) \/ Rotate(t) \/ Complete(t) \/ Fail(t)

Boot == FailInterruptedRetries \/ FailInterruptedImages \/ SpawnRecovered

Next == (\E t \in Tasks : Handle(t) \/ Work(t)) \/ Boot \/ Stop

Spec == Init /\ [][Next]_vars

(* The process is restarted, the event loop runs what is ready, and every  *)
(* wait inside the pool ends: browser steps and polling have deadlines.    *)
(* Nothing obliges a client to post or the process to stop.                *)
FairSpec ==
  /\ Spec
  /\ WF_vars(Boot)
  /\ \A t \in Tasks : WF_vars(Work(t))

-----------------------------------------------------------------------------
(* An Idempotency-Key names one task per client and medium, although video *)
(* requests suspend between looking it up and inserting (server.py:698 and *)
(* 728, store.py:197-211).                                                 *)
IdempotencyHolds ==
  \A t, u \in Rows : t # u => ~SameIdem(t, u)

(* queued plus processing rows never exceed MAX_PENDING_TASKS, whatever    *)
(* requests are suspended and whatever a restart brings back               *)
(* (store.py:212-219).                                                     *)
PendingBounded ==
  MaxPending > 0 => Cardinality(PendingRows) <= MaxPending

(* A key never has more tasks than its daily quota (store.py:220-230).     *)
QuotaBounded ==
  \A k \in Keys :
    DailyLimit[k] > 0 => Cardinality({t \in Rows : Ask[t].key = k}) <= DailyLimit[k]

(* The tasks of key k inside the pool. *)
InsideOf(k) == {t \in Tasks : worker[t] \in InPool /\ Ask[t].key = k}

(* A limited key never has more tasks in the pool than its limit, and a    *)
(* task of it sleeps at the limiter only while that many are inside: the   *)
(* count in memory stays true through failures, restarts and the tasks a   *)
(* restart brings back (server.py:160-183, 487-684).                       *)
PlacesPerKey ==
  \A k \in Keys : KeyLimit[k] > 0 =>
    /\ Cardinality(InsideOf(k)) <= KeyLimit[k]
    /\ (\E t \in Tasks : slot[t] = "waiting" /\ Ask[t].key = k)
         => Cardinality(InsideOf(k)) = KeyLimit[k]

(* At most one submission of a task is ever in Dola's hands: no rotation   *)
(* and no restart sends a prompt that may already be costing credits       *)
(* (store.py:315-361, "to avoid duplicate paid submissions").              *)
NoDuplicateSubmission ==
  \A t \in Tasks : outstanding[t] <= 1

(* A pending row no coroutine of this process works on. *)
Stranded(t) == t \in PendingRows /\ worker[t] = "none"

(* What a restart leaves behind, once the server is up, is only ever a     *)
(* video interrupted between starting and being accepted; every image and  *)
(* every manual retry is settled or worked on (server.py:662-684).         *)
OnlyUnacceptedVideosStranded ==
  server = "up" =>
    \A t \in Tasks : Stranded(t) =>
      /\ Video(t) /\ ~Retry(t)
      /\ status[t] = "processing" /\ conv[t] = "none"

(* A queued task reaches a final status, unless a restart caught it        *)
(* between starting and being accepted: neither the limiter nor a chain of *)
(* errors keeps it pending (server.py:487-684).                            *)
QueuedTasksSettle ==
  \A t \in Tasks :
    status[t] = "queued" ~>
      \/ status[t] \in {"completed", "failed"}
      \/ server = "up" /\ status[t] = "processing" /\ Stranded(t)

(* While a worker is inside the pool and the process lives, it takes its   *)
(* turn on the accounts as AccountUse says: what this module lets a worker *)
(* do is what the pool and the pages can do (server.py:487-660).           *)
KindOf(t) ==
  IF Retry(t) THEN "retry" ELSE IF worker[t] = "polling" THEN "resume" ELSE "new"
UseOf(t) ==
  CASE worker[t] = "preparing" -> "waiting"
    [] worker[t] = "open"      -> "open"
    [] worker[t] \in {"submitted", "accepted", "polling"} -> "sent"
    [] OTHER                   -> status[t]
Turn(t) == INSTANCE AccountUse WITH kind <- KindOf(t), use <- UseOf(t)
WorkersTakeTurns ==
  [][\A t \in Tasks : worker[t] \in InPool /\ server' # "down" =>
       Turn(t)!Step \/ UNCHANGED UseOf(t)]_vars

(* The durable status is a task lifecycle: it moves forward only, work is  *)
(* recorded before the prompt is sent, and the prompt is sent once.        *)
Lifecycle == INSTANCE TaskLifecycle
ImplementsLifecycle == Lifecycle!Spec
=============================================================================
