--------------------------- MODULE GatewayProofs ---------------------------
(***************************************************************************)
(* Proofs about Gateway for every set of requests, keys, limits and stops. *)
(***************************************************************************)
EXTENDS Gateway, FiniteSetTheorems, TLAPS

(* What the position of a worker says about the row it works on.  The      *)
(* submission count is tied to the position while a worker is alive, and   *)
(* to the durable columns once it is gone: a row that recovery runs again  *)
(* is still "queued", so nothing was sent for it.                          *)
Position(t) ==
  /\ status[t] \in {"none", "queued"} => outstanding[t] = 0 /\ conv[t] = "none"
  /\ worker[t] = "run" => status[t] = "queued"
  /\ worker[t] = "resume" => status[t] = "processing" /\ Video(t)
  /\ worker[t] = "preparing" =>
       /\ outstanding[t] = 0
       /\ status[t] \in {"queued", "processing"}
       /\ Video(t) => status[t] = "processing"
  /\ worker[t] = "open" => outstanding[t] = 0 /\ status[t] = "processing"
  /\ worker[t] \in {"submitted", "accepted"} =>
       outstanding[t] = 1 /\ status[t] = "processing"
  /\ worker[t] = "accepted" => conv[t] = "current"
  /\ worker[t] = "polling" => status[t] = "processing"
  /\ outstanding[t] \in {0, 1}
  /\ conv[t] = "current" => outstanding[t] = 1
  /\ conv[t] # "none" => Video(t)

(* No row exists before its request has been answered. *)
Fresh(t) == req[t] # "done" => status[t] = "none" /\ worker[t] = "none"

(* Coroutines exist only while the server runs. *)
Quiet == server # "up" => \A t \in Tasks : worker[t] = "none"

IInv == TypeOK /\ Quiet /\ \A t \in Tasks : Position(t) /\ Fresh(t)

-----------------------------------------------------------------------------
(* Types of what the limiter leaves behind. *)
LEMMA LimiterTypes ==
  ASSUME TypeOK, NEW t \in Tasks
  PROVE  /\ L!Acquire(t) => active' \in [Keys -> Nat] /\ slot' \in [Tasks -> L!SlotState]
         /\ L!Wake(t)    => active' \in [Keys -> Nat] /\ slot' \in [Tasks -> L!SlotState]
         /\ L!Release(t) => active' \in [Keys -> Nat] /\ slot' \in [Tasks -> L!SlotState]
<1> USE DEF TypeOK, L!SlotState
<1>1. ASSUME L!TakeOrWait(t)
      PROVE  active' \in [Keys -> Nat] /\ slot' \in [Tasks -> L!SlotState]
  BY <1>1 DEF L!TakeOrWait
<1>2. L!Acquire(t) => active' \in [Keys -> Nat] /\ slot' \in [Tasks -> L!SlotState]
  BY <1>1 DEF L!Acquire
<1>3. L!Wake(t) => active' \in [Keys -> Nat] /\ slot' \in [Tasks -> L!SlotState]
  BY <1>1 DEF L!Wake
<1>4. L!Release(t) => active' \in [Keys -> Nat] /\ slot' \in [Tasks -> L!SlotState]
  BY DEF L!Release, L!NotifyAll, L!Decremented
<1>5. QED
  BY <1>2, <1>3, <1>4

LEMMA Initial == Init => IInv
BY LimitsAssumption DEF Init, IInv, TypeOK, Quiet, Position, Fresh, AtLimiter, InPool, L!SlotState

LEMMA TypeStep ==
  ASSUME IInv, [Next]_vars
  PROVE  TypeOK'
<1> USE DEF IInv, TypeOK
<1>1. ASSUME NEW r \in Tasks, Handle(r)
      PROVE  TypeOK'
  <2>1. CASE PostVideo(r)
    BY <2>1 DEF PostVideo, Answered, durable, limiter
  <2>2. ASSUME CreateTask(r), UNCHANGED <<conv, server, outstanding, stops>>
        PROVE  TypeOK'
    BY <2>2, LimitsAssumption DEF CreateTask, Answered, limiter, AtLimiter, L!SlotState
  <2>3. CASE ValidatedVideo(r) \/ PostImage(r)
    BY <2>2, <2>3 DEF ValidatedVideo, PostImage, Answered, limiter
  <2>4. QED
    BY <1>1, <2>1, <2>3 DEF Handle
<1>2. ASSUME NEW t \in Tasks, EnterLimiter(t)
      PROVE  TypeOK'
  BY <1>2, LimiterTypes DEF EnterLimiter, Set, InPool, AtLimiter
<1>3. ASSUME NEW t \in Tasks,
             OpenAccount(t) \/ SubmitPrompt(t) \/ RecordConversation(t) \/ Rotate(t)
      PROVE  TypeOK'
  <2>1. CASE OpenAccount(t)
    BY <2>1 DEF OpenAccount, OnStart, Set, InPool, limiter
  <2>2. CASE SubmitPrompt(t)
    BY <2>2 DEF SubmitPrompt, Set, InPool, limiter, durable
  <2>3. CASE RecordConversation(t)
    BY <2>3 DEF RecordConversation, Set, InPool, limiter
  <2>4. CASE Rotate(t)
    <3>1. worker[t] # "open" => outstanding[t] = 1
      BY <2>4 DEF Rotate, IInv, Position
    <3>2. outstanding' \in [Tasks -> Nat]
      BY <2>4, <3>1 DEF Rotate, Refusal, Set
    <3>3. tried' \in [Tasks -> 0..MaxTried]
      <4>1. tried[t] + 1 \in 0..MaxTried
        BY <2>4, LimitsAssumption DEF Rotate
      <4>2. QED
        BY <2>4, <4>1 DEF Rotate, Set
    <3>4. conv' \in [Tasks -> {"none", "current", "refused"}]
      BY <2>4 DEF Rotate, Set
    <3>5. worker' \in [Tasks -> {"none"} \union AtLimiter \union InPool]
      BY <2>4 DEF Rotate, Set, InPool
    <3>6. QED
      BY <2>4, <3>2, <3>3, <3>4, <3>5 DEF Rotate, limiter
  <2>5. QED
    BY <1>3, <2>1, <2>2, <2>3, <2>4
<1>4. ASSUME NEW t \in Tasks, Complete(t) \/ Fail(t)
      PROVE  TypeOK'
  BY <1>4, LimiterTypes DEF Complete, Fail, Finish, Set
<1>5. CASE Boot
  <2>1. CASE FailInterruptedRetries \/ FailInterruptedImages
    BY <2>1 DEF FailInterruptedRetries, FailInterruptedImages, FailRows, limiter
  <2>2. CASE SpawnRecovered
    BY <2>2 DEF SpawnRecovered, durable, AtLimiter, L!SlotState
  <2>3. QED
    BY <1>5, <2>1, <2>2 DEF Boot
<1>6. CASE Stop
  BY <1>6, LimitsAssumption DEF Stop, durable, L!SlotState
<1>7. CASE UNCHANGED vars
  BY <1>7 DEF vars
<1>8. QED
  BY <1>1, <1>2, <1>3, <1>4, <1>5, <1>6, <1>7 DEF Next, Work

(* The row of t and its worker are not touched by a step of another task. *)
Untouched(t) ==
  UNCHANGED <<status[t], worker[t], outstanding[t], conv[t]>>

LEMMA UntouchedPosition ==
  ASSUME NEW t \in Tasks, Position(t), Untouched(t)
  PROVE  Position(t)'
BY DEF Position, Untouched, Video

(* A limiter step of a worker moves no other worker and sends nothing.     *)
LEMMA PositionStep ==
  ASSUME IInv, [Next]_vars
  PROVE  \A t \in Tasks : Position(t)'
<1> SUFFICES ASSUME NEW t \in Tasks
             PROVE  Position(t)'
  OBVIOUS
<1> USE DEF IInv, TypeOK
<1>1. ASSUME NEW r \in Tasks, Handle(r)
      PROVE  Position(t)'
  <2>1. CASE Untouched(t)
    BY <2>1, UntouchedPosition
  <2>2. CASE ~Untouched(t)
    <3>1. /\ status'[t] = "queued" /\ worker'[t] = "run" /\ r = t
          /\ UNCHANGED <<outstanding, conv>>
          /\ req[t] # "done"
      BY <1>1, <2>2 DEF Handle, PostVideo, ValidatedVideo, PostImage, CreateTask,
                        Untouched, durable
    <3>2. status[t] = "none"
      BY <3>1 DEF Fresh
    <3>3. QED
      BY <3>1, <3>2 DEF Position
  <2>3. QED
    BY <2>1, <2>2
<1>2. ASSUME NEW u \in Tasks, Work(u), u # t
      PROVE  Position(t)'
  <2> USE DEF Set, Untouched
  <2>1. CASE EnterLimiter(u)
    BY <1>2, <2>1, UntouchedPosition DEF EnterLimiter
  <2>2. CASE OpenAccount(u)
    BY <1>2, <2>2, UntouchedPosition DEF OpenAccount, OnStart
  <2>3. CASE SubmitPrompt(u)
    BY <1>2, <2>3, UntouchedPosition DEF SubmitPrompt, durable
  <2>4. CASE RecordConversation(u)
    BY <1>2, <2>4, UntouchedPosition DEF RecordConversation
  <2>5. CASE Rotate(u)
    BY <1>2, <2>5, UntouchedPosition DEF Rotate, Refusal
  <2>6. CASE Complete(u) \/ Fail(u)
    BY <1>2, <2>6, UntouchedPosition DEF Complete, Fail, Finish
  <2>7. QED
    BY <1>2, <2>1, <2>2, <2>3, <2>4, <2>5, <2>6 DEF Work
<1>3. CASE EnterLimiter(t)
  BY <1>3 DEF EnterLimiter, Set, Position, AtLimiter, Video
<1>4. CASE OpenAccount(t)
  BY <1>4, AskAssumption DEF OpenAccount, OnStart, Set, Position, Video, Image
<1>5. CASE SubmitPrompt(t)
  BY <1>5 DEF SubmitPrompt, Set, Position, Video, durable, limiter
<1>6. CASE RecordConversation(t)
  BY <1>6 DEF RecordConversation, Set, Position, Video, limiter
<1>7. CASE Rotate(t)
  <2>1. status'[t] = "processing" /\ worker'[t] = "preparing"
    BY <1>7 DEF Rotate, Set, Position
  <2>2. outstanding'[t] = 0
    BY <1>7 DEF Rotate, Refusal, Set, Position
  <2>3. conv'[t] # "current" /\ (conv'[t] # "none" => Video(t))
    <3>1. CASE worker[t] = "accepted"
      BY <1>7, <3>1 DEF Rotate, Set, Position
    <3>2. CASE worker[t] # "accepted"
      BY <1>7, <3>2 DEF Rotate, Set, Position, Video, Image
    <3>3. QED
      BY <3>1, <3>2
  <2>4. QED
    BY <2>1, <2>2, <2>3 DEF Position, Video
<1>8. CASE Complete(t) \/ Fail(t)
  BY <1>8 DEF Complete, Fail, Finish, Set, Position, Video, InPool
<1>9. CASE FailInterruptedRetries \/ FailInterruptedImages
  <2>1. UNCHANGED <<worker, outstanding, conv>> /\ worker[t] = "none"
    BY <1>9 DEF FailInterruptedRetries, FailInterruptedImages, Quiet
  <2>2. status'[t] = status[t] \/ status'[t] = "failed"
    BY <1>9 DEF FailInterruptedRetries, FailInterruptedImages, FailRows
  <2>3. QED
    BY <2>1, <2>2 DEF Position, Video
<1>10. CASE SpawnRecovered
  BY <1>10 DEF SpawnRecovered, Position, Video, Image, durable, Resumable, RequeuedVideos,
               RequeuedImages, PendingRows, Rows
<1>11. CASE Stop
  BY <1>11 DEF Stop, Position, Video, durable
<1>12. CASE UNCHANGED vars
  BY <1>12, UntouchedPosition DEF vars, Untouched
<1>13. QED
  BY <1>1, <1>2, <1>3, <1>4, <1>5, <1>6, <1>7, <1>8, <1>9, <1>10, <1>11, <1>12
     DEF Next, Work, Boot

LEMMA FreshStep ==
  ASSUME IInv, [Next]_vars
  PROVE  \A t \in Tasks : Fresh(t)'
<1> SUFFICES ASSUME NEW t \in Tasks
             PROVE  Fresh(t)'
  OBVIOUS
<1> USE DEF IInv, TypeOK, Fresh
<1>1. ASSUME NEW r \in Tasks, Handle(r)
      PROVE  Fresh(t)'
  BY <1>1 DEF Handle, PostVideo, ValidatedVideo, PostImage, CreateTask, Answered,
              durable, limiter
<1>2. ASSUME NEW u \in Tasks, Work(u)
      PROVE  Fresh(t)'
  BY <1>2 DEF Work, EnterLimiter, OpenAccount, OnStart, SubmitPrompt, RecordConversation,
              Rotate, Complete, Fail, Finish, Set, durable, limiter, AtLimiter, InPool
<1>3. CASE Boot
  BY <1>3 DEF Boot, FailInterruptedRetries, FailInterruptedImages, SpawnRecovered, FailRows,
              InterruptedRetries, InterruptedImages, Resumable, RequeuedVideos,
              RequeuedImages, PendingRows, Rows, durable
<1>4. CASE Stop
  BY <1>4 DEF Stop, durable
<1>5. CASE UNCHANGED vars
  BY <1>5 DEF vars
<1>6. QED
  BY <1>1, <1>2, <1>3, <1>4, <1>5 DEF Next

LEMMA QuietStep ==
  ASSUME IInv, [Next]_vars
  PROVE  Quiet'
<1> USE DEF IInv, TypeOK, Quiet
<1>1. ASSUME NEW r \in Tasks, Handle(r)
      PROVE  Quiet'
  BY <1>1 DEF Handle, PostVideo, ValidatedVideo, PostImage
<1>2. ASSUME NEW u \in Tasks, Work(u)
      PROVE  Quiet'
  <2>1. worker[u] # "none"
    BY <1>2 DEF Work, EnterLimiter, OpenAccount, SubmitPrompt, RecordConversation,
                Rotate, Complete, Fail, AtLimiter, InPool
  <2>2. server' = server
    BY <1>2 DEF Work, EnterLimiter, OpenAccount, SubmitPrompt, RecordConversation,
                Rotate, Complete, Fail, Finish
  <2>3. QED
    BY <2>1, <2>2
<1>3. CASE Boot
  BY <1>3 DEF Boot, FailInterruptedRetries, FailInterruptedImages, SpawnRecovered
<1>4. CASE Stop
  BY <1>4 DEF Stop
<1>5. CASE UNCHANGED vars
  BY <1>5 DEF vars
<1>6. QED
  BY <1>1, <1>2, <1>3, <1>4, <1>5 DEF Next

LEMMA Inductive == IInv /\ [Next]_vars => IInv'
BY TypeStep, QuietStep, PositionStep, FreshStep DEF IInv

(* Every state of the gateway is well formed. *)
THEOREM TypeCorrect == Spec => []TypeOK
<1>1. IInv => TypeOK
  BY DEF IInv
<1>2. QED
  BY <1>1, Initial, Inductive, PTL DEF Spec

(* No rotation, no retry and no restart ever sends a prompt of a task whose*)
(* earlier submission Dola may be working on (store.py:315-361).           *)
THEOREM NoDuplicate == Spec => []NoDuplicateSubmission
<1>1. IInv => NoDuplicateSubmission
  BY DEF IInv, Position, NoDuplicateSubmission
<1>2. QED
  BY <1>1, Initial, Inductive, PTL DEF Spec

-----------------------------------------------------------------------------
(* The refinement: every step of the gateway is a step of the lifecycle or *)
(* changes neither the status nor what is outstanding.                     *)
LEMMA LifecycleInit == Init => Lifecycle!Init
BY DEF Init, Lifecycle!Init

(* What create() does to the table when it inserts the row of request r.   *)
Inserted(r) ==
  /\ status[r] = "none"
  /\ status' = [status EXCEPT ![r] = "queued"]
  /\ Existing(r) = {} /\ ~QueueFull /\ ~QuotaSpent(r)

LEMMA HandlerInserts ==
  ASSUME IInv, NEW r \in Tasks, Handle(r)
  PROVE  UNCHANGED outstanding /\ (UNCHANGED status \/ Inserted(r))
BY DEF Handle, PostVideo, ValidatedVideo, PostImage, CreateTask, Inserted, durable,
       IInv, Fresh

LEMMA LifecycleStep ==
  ASSUME IInv, [Next]_vars
  PROVE  [Lifecycle!Next]_(Lifecycle!vars)
<1> USE DEF IInv, TypeOK, Lifecycle!vars
<1>1. ASSUME NEW r \in Tasks, Handle(r)
      PROVE  [Lifecycle!Next]_(Lifecycle!vars)
  BY <1>1, HandlerInserts DEF Inserted, Lifecycle!Next, Lifecycle!Accept
<1>2. ASSUME NEW t \in Tasks, EnterLimiter(t)
      PROVE  [Lifecycle!Next]_(Lifecycle!vars)
  <2>1. UNCHANGED outstanding
    BY <1>2 DEF EnterLimiter
  <2>2. \/ UNCHANGED status
        \/ status[t] = "queued" /\ status' = [status EXCEPT ![t] = "processing"]
    BY <1>2 DEF EnterLimiter, Set, Position, AtLimiter
  <2>3. QED
    BY <2>1, <2>2 DEF Lifecycle!Next, Lifecycle!Start
<1>3. ASSUME NEW t \in Tasks, OpenAccount(t)
      PROVE  [Lifecycle!Next]_(Lifecycle!vars)
  <2>1. UNCHANGED outstanding
    BY <1>3 DEF OpenAccount
  <2>2. \/ UNCHANGED status
        \/ status[t] = "queued" /\ status' = [status EXCEPT ![t] = "processing"]
    BY <1>3 DEF OpenAccount, OnStart, Set, Position
  <2>3. QED
    BY <2>1, <2>2 DEF Lifecycle!Next, Lifecycle!Start
<1>4. ASSUME NEW t \in Tasks, SubmitPrompt(t)
      PROVE  [Lifecycle!Next]_(Lifecycle!vars)
  <2>1. outstanding[t] = 0 /\ status[t] = "processing"
    BY <1>4 DEF SubmitPrompt, Position
  <2>2. outstanding' = [outstanding EXCEPT ![t] = outstanding[t] + 1] /\ status' = status
    BY <1>4 DEF SubmitPrompt, Set, durable
  <2>3. outstanding' = [outstanding EXCEPT ![t] = 1]
    BY <2>1, <2>2
  <2>4. Lifecycle!Send(t)
    BY <2>1, <2>2, <2>3 DEF Lifecycle!Send
  <2>5. QED
    BY <2>4 DEF Lifecycle!Next
<1>5. ASSUME NEW t \in Tasks, RecordConversation(t)
      PROVE  [Lifecycle!Next]_(Lifecycle!vars)
  BY <1>5 DEF RecordConversation, Set, Position
<1>6. ASSUME NEW t \in Tasks, Rotate(t)
      PROVE  [Lifecycle!Next]_(Lifecycle!vars)
  <2>1. CASE worker[t] = "open"
    BY <1>6, <2>1 DEF Rotate, Refusal
  <2>2. CASE worker[t] # "open"
    <3>1. outstanding[t] = 1 /\ status[t] = "processing"
      BY <1>6, <2>2 DEF Rotate, Position
    <3>2. outstanding' = [outstanding EXCEPT ![t] = outstanding[t] - 1] /\ status' = status
      BY <1>6, <2>2 DEF Rotate, Refusal, Set
    <3>3. outstanding' = [outstanding EXCEPT ![t] = 0]
      BY <3>1, <3>2
    <3>4. Lifecycle!Refused(t)
      BY <3>1, <3>2, <3>3 DEF Lifecycle!Refused
    <3>5. QED
      BY <3>4 DEF Lifecycle!Next
  <2>3. QED
    BY <2>1, <2>2
<1>7. ASSUME NEW t \in Tasks, Complete(t)
      PROVE  [Lifecycle!Next]_(Lifecycle!vars)
  <2>1. Lifecycle!Complete(t)
    BY <1>7 DEF Complete, Finish, Set, Position, Lifecycle!Complete
  <2>2. QED
    BY <2>1 DEF Lifecycle!Next
<1>8. ASSUME NEW t \in Tasks, Fail(t)
      PROVE  [Lifecycle!Next]_(Lifecycle!vars)
  <2>1. status[t] \in Lifecycle!Pending
    BY <1>8 DEF Fail, InPool, Position, Lifecycle!Pending
  <2>2. Lifecycle!Fail({t})
    BY <1>8, <2>1 DEF Fail, Finish, Set, Lifecycle!Fail
  <2>3. QED
    BY <2>2 DEF Lifecycle!Next
<1>9. ASSUME FailInterruptedRetries \/ FailInterruptedImages
      PROVE  [Lifecycle!Next]_(Lifecycle!vars)
  <2>1. Lifecycle!Fail(InterruptedRetries) \/ Lifecycle!Fail(InterruptedImages)
    BY <1>9 DEF FailInterruptedRetries, FailInterruptedImages, FailRows, InterruptedRetries,
                InterruptedImages, PendingRows, Rows, Lifecycle!Fail, Lifecycle!Pending
  <2>2. InterruptedRetries \in SUBSET Tasks /\ InterruptedImages \in SUBSET Tasks
    BY DEF InterruptedRetries, InterruptedImages, PendingRows, Rows
  <2>3. QED
    BY <2>1, <2>2 DEF Lifecycle!Next
<1>10. ASSUME SpawnRecovered \/ Stop \/ UNCHANGED vars
       PROVE  [Lifecycle!Next]_(Lifecycle!vars)
  BY <1>10 DEF SpawnRecovered, Stop, vars, durable
<1>11. QED
  BY <1>1, <1>2, <1>3, <1>4, <1>5, <1>6, <1>7, <1>8, <1>9, <1>10 DEF Next, Work, Boot

(* The task table together with what Dola holds implements TaskLifecycle:  *)
(* a status moves forward only, work is recorded before a prompt is sent,  *)
(* and a prompt is sent again only after an explicit refusal, across any   *)
(* number of crashes and restarts (server.py:487-684, store.py:315-372).   *)
THEOREM Refinement == Spec => ImplementsLifecycle
<1>1. IInv /\ [Next]_vars => [Lifecycle!Next]_(Lifecycle!vars)
  BY LifecycleStep
<1>2. QED
  BY <1>1, Initial, Inductive, LifecycleInit, PTL
     DEF Spec, ImplementsLifecycle, Lifecycle!Spec

(* What follows from the lifecycle alone. *)
LEMMA LifecycleTypes == IInv => status \in [Tasks -> {"none", "queued", "processing", "completed", "failed"}]
BY DEF IInv, TypeOK

LEMMA LifecycleForward ==
  ASSUME IInv, [Lifecycle!Next]_(Lifecycle!vars)
  PROVE  \A t \in Tasks : status'[t] \in Lifecycle!Onward(status[t])
<1> USE LifecycleTypes DEF Lifecycle!Onward, Lifecycle!Terminal, Lifecycle!Pending
<1> SUFFICES ASSUME NEW t \in Tasks
             PROVE  status'[t] \in Lifecycle!Onward(status[t])
  OBVIOUS
<1>1. CASE UNCHANGED status
  BY <1>1
<1>2. ASSUME NEW u \in Tasks,
             Lifecycle!Accept(u) \/ Lifecycle!Start(u) \/ Lifecycle!Complete(u)
      PROVE  status'[t] \in Lifecycle!Onward(status[t])
  BY <1>2 DEF Lifecycle!Accept, Lifecycle!Start, Lifecycle!Complete
<1>3. ASSUME NEW S \in SUBSET Tasks, Lifecycle!Fail(S)
      PROVE  status'[t] \in Lifecycle!Onward(status[t])
  BY <1>3 DEF Lifecycle!Fail
<1>4. QED
  BY <1>1, <1>2, <1>3 DEF Lifecycle!Next, Lifecycle!vars, Lifecycle!Send, Lifecycle!Refused

(* A status a client has polled is never taken back, whatever crashes and  *)
(* whatever the restart settles or runs again.                             *)
THEOREM StatusForward == Spec => Lifecycle!ForwardOnly
<1>1. IInv /\ [Next]_vars
        => [\A t \in Tasks : status'[t] \in Lifecycle!Onward(status[t])]_(Lifecycle!vars)
  BY LifecycleStep, LifecycleForward
<1>2. QED
  BY <1>1, Initial, Inductive, PTL DEF Spec, Lifecycle!ForwardOnly

(* Every result was asked for exactly once and no waiting row has a prompt *)
(* with Dola.                                                              *)
THEOREM ResultsEarned == Spec => []Lifecycle!ResultsWereAskedFor
<1> DEFINE EInv == IInv /\ Lifecycle!ResultsWereAskedFor
<1>1. Init => EInv
  BY Initial DEF Init, Lifecycle!ResultsWereAskedFor
<1>2. EInv /\ [Next]_vars => EInv'
  <2> SUFFICES ASSUME EInv, [Next]_vars
               PROVE  Lifecycle!ResultsWereAskedFor'
    BY Inductive
  <2>0. status \in [Tasks -> {"none", "queued", "processing", "completed", "failed"}]
        /\ outstanding \in [Tasks -> Nat] /\ [Lifecycle!Next]_(Lifecycle!vars)
    BY LifecycleStep DEF IInv, TypeOK
  <2> USE <2>0 DEF Lifecycle!ResultsWereAskedFor
  <2>1. CASE UNCHANGED Lifecycle!vars
    BY <2>1 DEF Lifecycle!vars
  <2>2. ASSUME NEW t \in Tasks, Lifecycle!Accept(t) \/ Lifecycle!Start(t) \/ Lifecycle!Complete(t)
        PROVE  Lifecycle!ResultsWereAskedFor'
    BY <2>2 DEF Lifecycle!Accept, Lifecycle!Start, Lifecycle!Complete
  <2>3. ASSUME NEW t \in Tasks, Lifecycle!Send(t) \/ Lifecycle!Refused(t)
        PROVE  Lifecycle!ResultsWereAskedFor'
    BY <2>3 DEF Lifecycle!Send, Lifecycle!Refused
  <2>4. ASSUME NEW S \in SUBSET Tasks, Lifecycle!Fail(S)
        PROVE  Lifecycle!ResultsWereAskedFor'
    BY <2>4 DEF Lifecycle!Fail, Lifecycle!Pending
  <2>5. QED
    BY <2>1, <2>2, <2>3, <2>4 DEF Lifecycle!Next
<1> HIDE DEF EInv
<1>3. EInv => Lifecycle!ResultsWereAskedFor
  BY DEF EInv
<1>4. QED
  BY <1>1, <1>2, <1>3, PTL DEF Spec

-----------------------------------------------------------------------------
(* What a step may do to the table: insert the row of one request, or      *)
(* change rows that exist; no row that was settled becomes pending.        *)
LEMMA TableStep ==
  ASSUME IInv, [Next]_vars
  PROVE  \/ \E r \in Tasks : Inserted(r)
         \/ /\ Rows' = Rows
            /\ PendingRows' \in SUBSET PendingRows
<1>1. ASSUME NEW r \in Tasks, Handle(r)
      PROVE  Inserted(r) \/ (Rows' = Rows /\ PendingRows' \in SUBSET PendingRows)
  BY <1>1, HandlerInserts DEF Rows, PendingRows
<1>2. ASSUME ~\E r \in Tasks : Handle(r)
      PROVE  Rows' = Rows /\ PendingRows' \in SUBSET PendingRows
  <2>1. CASE UNCHANGED status
    BY <2>1 DEF Rows, PendingRows
  <2>2. ASSUME NEW t \in Tasks, EnterLimiter(t) \/ OpenAccount(t)
        PROVE  Rows' = Rows /\ PendingRows' \in SUBSET PendingRows
    <3>1. \/ UNCHANGED status
          \/ status[t] = "queued" /\ status' = [status EXCEPT ![t] = "processing"]
      BY <2>2 DEF EnterLimiter, OpenAccount, OnStart, Set, Position, AtLimiter, IInv, TypeOK
    <3>2. QED
      BY <3>1 DEF Rows, PendingRows, IInv, TypeOK
  <2>3. ASSUME NEW t \in Tasks, RecordConversation(t)
        PROVE  UNCHANGED status
    BY <2>3 DEF RecordConversation, Set, Position, IInv, TypeOK
  <2>4. ASSUME NEW t \in Tasks, Complete(t) \/ Fail(t)
        PROVE  Rows' = Rows /\ PendingRows' \in SUBSET PendingRows
    <3>1. /\ status[t] # "none"
          /\ status' = [status EXCEPT ![t] = "completed"] \/ status' = [status EXCEPT ![t] = "failed"]
      BY <2>4 DEF Complete, Fail, Finish, Set, InPool, Position, IInv, TypeOK
    <3>2. QED
      BY <3>1 DEF Rows, PendingRows, IInv, TypeOK
  <2>5. ASSUME FailInterruptedRetries \/ FailInterruptedImages
        PROVE  Rows' = Rows /\ PendingRows' \in SUBSET PendingRows
    BY <2>5 DEF FailInterruptedRetries, FailInterruptedImages, FailRows, InterruptedRetries,
                InterruptedImages, Rows, PendingRows, IInv, TypeOK
  <2>6. \/ UNCHANGED status
        \/ \E t \in Tasks : \/ EnterLimiter(t) \/ OpenAccount(t) \/ RecordConversation(t)
                            \/ Complete(t) \/ Fail(t)
        \/ FailInterruptedRetries \/ FailInterruptedImages
    BY <1>2 DEF Next, Work, Boot, SubmitPrompt, Rotate, SpawnRecovered, Stop, vars, durable
  <2>7. QED
    BY <2>1, <2>2, <2>3, <2>4, <2>5, <2>6
<1>3. QED
  BY <1>1, <1>2

(* Whatever requests interleave between a look-up and an insertion, an     *)
(* Idempotency-Key names one task (server.py:698 and 728,                  *)
(* store.py:197-211).                                                      *)
THEOREM Idempotency == Spec => []IdempotencyHolds
<1>1. Init => IdempotencyHolds
  BY DEF Init, IdempotencyHolds, Rows
<1>2. ASSUME IInv, IdempotencyHolds, [Next]_vars
      PROVE  IdempotencyHolds'
  <2>1. CASE Rows' = Rows
    BY <1>2, <2>1 DEF IdempotencyHolds, SameIdem
  <2>2. ASSUME NEW r \in Tasks, Inserted(r)
        PROVE  IdempotencyHolds'
    <3>1. Rows' = Rows \union {r}
      BY <1>2, <2>2 DEF Inserted, Rows, IInv, TypeOK
    <3>2. \A t \in Rows : ~SameIdem(r, t) /\ ~SameIdem(t, r)
      BY <2>2 DEF Inserted, Existing, SameIdem
    <3>3. QED
      BY <1>2, <3>1, <3>2 DEF IdempotencyHolds, SameIdem
  <2>3. QED
    BY <1>2, <2>1, <2>2, TableStep
<1>3. QED
  BY <1>1, <1>2, Initial, Inductive, PTL DEF Spec

(* The queue never holds more than MAX_PENDING_TASKS, through restarts     *)
(* too (store.py:212-219).                                                 *)
THEOREM QueueBounded == Spec => []PendingBounded
<1>0. IsFiniteSet(PendingRows) /\ Cardinality(PendingRows) \in Nat
  BY TasksAssumption, FS_Subset, FS_CardinalityType DEF PendingRows
<1>1. Init => PendingBounded
  <2>1. Init => PendingRows = {}
    BY DEF Init, PendingRows
  <2>2. QED
    BY <2>1, FS_EmptySet, LimitsAssumption DEF PendingBounded
<1>2. ASSUME IInv, PendingBounded, [Next]_vars
      PROVE  PendingBounded'
  <2>1. CASE PendingRows' \in SUBSET PendingRows
    <3>1. Cardinality(PendingRows') <= Cardinality(PendingRows)
      BY <1>0, <2>1, FS_Subset
    <3>2. Cardinality(PendingRows') \in Nat
      BY <1>0, <2>1, FS_Subset, FS_CardinalityType
    <3>3. QED
      BY <1>0, <1>2, <3>1, <3>2, LimitsAssumption DEF PendingBounded
  <2>2. ASSUME NEW r \in Tasks, Inserted(r)
        PROVE  PendingBounded'
    <3>1. PendingRows' = PendingRows \union {r} /\ r \notin PendingRows
      BY <1>2, <2>2 DEF Inserted, PendingRows, IInv, TypeOK
    <3>2. Cardinality(PendingRows') = Cardinality(PendingRows) + 1
      BY <1>0, <3>1, FS_AddElement
    <3>3. QED
      BY <1>0, <2>2, <3>2, LimitsAssumption DEF Inserted, QueueFull, PendingBounded
  <2>3. QED
    BY <1>2, <2>1, <2>2, TableStep
<1>3. QED
  BY <1>1, <1>2, Initial, Inductive, PTL DEF Spec

(* A key never has more rows than its daily quota, however many of its     *)
(* requests are suspended at once (store.py:220-230).                      *)
THEOREM QuotaHolds == Spec => []QuotaBounded
<1> DEFINE RowsOf(k) == {t \in Rows : Ask[t].key = k}
<1>0. \A k \in Keys : IsFiniteSet(RowsOf(k)) /\ Cardinality(RowsOf(k)) \in Nat
  BY TasksAssumption, FS_Subset, FS_CardinalityType DEF Rows
<1>1. Init => QuotaBounded
  <2>1. SUFFICES ASSUME Init, NEW k \in Keys, DailyLimit[k] > 0
                 PROVE  Cardinality(RowsOf(k)) <= DailyLimit[k]
    BY DEF QuotaBounded
  <2>2. RowsOf(k) = {}
    BY <2>1 DEF Init, Rows
  <2>3. Cardinality(RowsOf(k)) = 0
    BY <2>2, FS_EmptySet
  <2>4. QED
    BY <2>1, <2>3, LimitsAssumption
<1>2. ASSUME IInv, QuotaBounded, [Next]_vars
      PROVE  QuotaBounded'
  <2>1. CASE Rows' = Rows
    BY <1>2, <2>1 DEF QuotaBounded
  <2>2. ASSUME NEW r \in Tasks, Inserted(r), NEW k \in Keys, DailyLimit[k] > 0
        PROVE  Cardinality(RowsOf(k)') <= DailyLimit[k]
    <3>1. Rows' = Rows \union {r} /\ r \notin Rows
      BY <1>2, <2>2 DEF Inserted, Rows, IInv, TypeOK
    <3>2. CASE Ask[r].key # k
      <4>1. RowsOf(k)' = RowsOf(k)
        BY <3>1, <3>2
      <4>2. QED
        BY <1>2, <2>2, <4>1 DEF QuotaBounded
    <3>3. CASE Ask[r].key = k
      <4>1. RowsOf(k)' = RowsOf(k) \union {r} /\ r \notin RowsOf(k)
        BY <3>1, <3>3
      <4>2. Cardinality(RowsOf(k)') = Cardinality(RowsOf(k)) + 1
        BY <1>0, <4>1, FS_AddElement
      <4>3. ~(Cardinality(RowsOf(k)) >= DailyLimit[k])
        BY <2>2, <3>3, AskAssumption DEF Inserted, QuotaSpent
      <4>4. Cardinality(RowsOf(k)) \in Nat /\ DailyLimit[k] \in Nat
        BY <1>0, LimitsAssumption
      <4>5. QED
        BY <4>2, <4>3, <4>4
    <3>4. QED
      BY <3>2, <3>3
  <2>3. QED
    BY <1>2, <2>1, <2>2, TableStep DEF QuotaBounded
<1>3. QED
  BY <1>1, <1>2, Initial, Inductive, PTL DEF Spec

-----------------------------------------------------------------------------
(* What each step of the boot has settled of a row, and what is left when  *)
(* the workers have been spawned.                                          *)
Settled(t) ==
  /\ server \in {"boot1", "boot2"} /\ t \in PendingRows => ~Retry(t)
  /\ server = "boot2" /\ t \in PendingRows /\ Image(t) => status[t] = "queued"
  /\ server = "up" /\ Stranded(t) =>
       Video(t) /\ ~Retry(t) /\ status[t] = "processing" /\ conv[t] = "none"

LEMMA SettledStep ==
  ASSUME IInv, [Next]_vars, NEW t \in Tasks, Settled(t)
  PROVE  Settled(t)'
<1> USE DEF IInv, TypeOK, Settled, Stranded, PendingRows, Video, Image, Retry
<1>1. ASSUME UNCHANGED server, status'[t] = status[t], conv'[t] = conv[t],
             worker[t] # "none" => worker'[t] # "none"
      PROVE  Settled(t)'
  BY <1>1
<1>2. ASSUME NEW r \in Tasks, Handle(r)
      PROVE  Settled(t)'
  <2>1. UNCHANGED <<server, conv>> /\ server = "up"
    BY <1>2 DEF Handle, PostVideo, ValidatedVideo, PostImage, durable
  <2>2. \/ status'[t] = status[t] /\ worker'[t] = worker[t]
        \/ worker'[t] = "run"
    BY <1>2 DEF Handle, PostVideo, ValidatedVideo, PostImage, CreateTask, durable
  <2>3. QED
    BY <2>1, <2>2
<1>3. ASSUME NEW u \in Tasks, Work(u)
      PROVE  Settled(t)'
  <2>1. server' = server /\ worker[u] # "none" /\ server = "up"
    BY <1>3 DEF Work, EnterLimiter, OpenAccount, SubmitPrompt, RecordConversation,
                Rotate, Complete, Fail, Finish, AtLimiter, InPool, Quiet
  <2>2. CASE u # t
    <3>1. status'[t] = status[t] /\ conv'[t] = conv[t] /\ worker'[t] = worker[t]
      BY <1>3, <2>2 DEF Work, EnterLimiter, OpenAccount, OnStart, SubmitPrompt,
                        RecordConversation, Rotate, Complete, Fail, Finish, Set, durable
    <3>2. QED
      BY <1>1, <2>1, <3>1
  <2>3. CASE u = t
    <3>1. worker'[t] # "none" \/ status'[t] \in {"completed", "failed"}
      BY <1>3, <2>1, <2>3
         DEF Work, EnterLimiter, OpenAccount, SubmitPrompt,
             RecordConversation, Rotate, Complete, Fail, Finish, Set
    <3>2. QED
      BY <2>1, <3>1
  <2>4. QED
    BY <2>2, <2>3
<1>4. CASE FailInterruptedRetries
  <2>1. server' = "boot1"
    BY <1>4 DEF FailInterruptedRetries
  <2>2. t \in PendingRows' => ~Retry(t)
    BY <1>4 DEF FailInterruptedRetries, FailRows, InterruptedRetries
  <2>3. QED
    BY <2>1, <2>2
<1>5. CASE FailInterruptedImages
  <2>1. server = "boot1" /\ server' = "boot2"
    BY <1>5 DEF FailInterruptedImages
  <2>2. t \in PendingRows' => t \in PendingRows
    BY <1>5 DEF FailInterruptedImages, FailRows
  <2>3. t \in PendingRows' /\ Image(t) => status'[t] = "queued"
    BY <1>5 DEF FailInterruptedImages, FailRows, InterruptedImages, Rows
  <2>4. QED
    BY <2>1, <2>2, <2>3
<1>6. CASE SpawnRecovered
  <2>1. server = "boot2" /\ server' = "up" /\ UNCHANGED <<status, conv>>
    BY <1>6 DEF SpawnRecovered, durable
  <2>2. worker'[t] = "none" =>
          t \notin Resumable /\ t \notin RequeuedVideos /\ t \notin RequeuedImages
    BY <1>6 DEF SpawnRecovered
  <2>3. Video(t) \/ Image(t)
    BY AskAssumption
  <2>4. QED
    BY <2>1, <2>2, <2>3 DEF Resumable, RequeuedVideos, RequeuedImages, Rows
<1>7. CASE Stop
  BY <1>7 DEF Stop
<1>8. CASE UNCHANGED vars
  BY <1>1, <1>8 DEF vars
<1>9. QED
  BY <1>2, <1>3, <1>4, <1>5, <1>6, <1>7, <1>8 DEF Next, Boot

(* Whenever the server is up, the pending rows nobody works on are videos  *)
(* that were started and never accepted: every image, every retry and every*)
(* conversation is settled or worked on, for any number of restarts        *)
(* (server.py:662-684, store.py:315-372).                                  *)
THEOREM RecoveryComplete == Spec => []OnlyUnacceptedVideosStranded
<1> DEFINE RInv == IInv /\ \A t \in Tasks : Settled(t)
<1>1. Init => RInv
  BY Initial DEF Init, Settled
<1>2. RInv /\ [Next]_vars => RInv'
  BY Inductive, SettledStep
<1>3. RInv => OnlyUnacceptedVideosStranded
  BY DEF Settled, OnlyUnacceptedVideosStranded
<1> HIDE DEF RInv
<1>4. QED
  BY <1>1, <1>2, <1>3, PTL DEF Spec

-----------------------------------------------------------------------------
(* The limiter seen from the tasks.  A task is inside the pool exactly     *)
(* when it holds its place, and the counter of a limited key is the number *)
(* of its tasks inside; who sleeps found no room.                          *)
Limited == {k \in Keys : KeyLimit[k] > 0}

Counted(k) == active[k] = Cardinality(InsideOf(k)) /\ active[k] <= KeyLimit[k]

Placed(t) ==
  /\ worker[t] \in InPool <=> slot[t] = "held"
  /\ worker[t] \in AtLimiter <=> slot[t] \in {"called", "waiting", "notified"}
  /\ slot[t] \in {"waiting", "notified"} => Ask[t].key \in Limited
  /\ slot[t] = "waiting" => active[Ask[t].key] >= KeyLimit[Ask[t].key]

PlacesInv == /\ \A t \in Tasks : Placed(t)
             /\ \A k \in Limited : Counted(k)

(* The limit of a task is the one of its key. *)
LEMMA LimitOfKey ==
  \A t \in Tasks :
    /\ Ask[t].key \in Keys \union {NoKey}
    /\ Ask[t].key \in Limited <=> LimitOf(t) > 0
    /\ Ask[t].key \in Limited => LimitOf(t) = KeyLimit[Ask[t].key] /\ Ask[t].key # NoKey
    /\ Ask[t].key \notin Limited => LimitOf(t) = 0
BY AskAssumption, LimitsAssumption DEF LimitOf, Limited

LEMMA InsideFinite ==
  \A k : IsFiniteSet(InsideOf(k)) /\ Cardinality(InsideOf(k)) \in Nat
<1> SUFFICES ASSUME NEW k
             PROVE  IsFiniteSet(InsideOf(k)) /\ Cardinality(InsideOf(k)) \in Nat
  OBVIOUS
<1>1. InsideOf(k) \in SUBSET Tasks
  BY DEF InsideOf
<1>2. QED
  BY <1>1, TasksAssumption, FS_Subset, FS_CardinalityType

LEMMA PlacesInit == Init => PlacesInv
<1> SUFFICES ASSUME Init
             PROVE  PlacesInv
  OBVIOUS
<1>1. \A t \in Tasks : Placed(t)
  BY DEF Init, Placed, InPool, AtLimiter
<1>2. ASSUME NEW k \in Limited
      PROVE  Counted(k)
  <2>1. InsideOf(k) = {}
    BY DEF Init, InsideOf, InPool
  <2>2. Cardinality(InsideOf(k)) = 0
    BY <2>1, FS_EmptySet
  <2>3. QED
    BY <2>2, LimitsAssumption DEF Init, Counted, Limited
<1>3. QED
  BY <1>1, <1>2 DEF PlacesInv

(* Steps that take nobody in or out and leave the counters alone. *)
LEMMA SameInside ==
  ASSUME PlacesInv, UNCHANGED active,
         \A t \in Tasks : worker'[t] \in InPool <=> worker[t] \in InPool
  PROVE  \A k \in Limited : Counted(k)'
<1>1. \A k \in Limited : InsideOf(k)' = InsideOf(k)
  BY DEF InsideOf
<1>2. QED
  BY <1>1 DEF PlacesInv, Counted

(* What a turn at the limiter can be: a place is taken and counted, or     *)
(* taken by a task no limit applies to, or the task goes to sleep.         *)
LEMMA LimiterTurn ==
  ASSUME NEW t \in Tasks, Placed(t), L!Acquire(t) \/ L!Wake(t)
  PROVE  /\ slot[t] \in {"called", "notified"}
         /\ \/ /\ Ask[t].key \in Limited
               /\ active[Ask[t].key] < KeyLimit[Ask[t].key]
               /\ active' = [active EXCEPT ![Ask[t].key] = @ + 1]
               /\ slot' = [slot EXCEPT ![t] = "held"]
            \/ /\ Ask[t].key \notin Limited
               /\ UNCHANGED active
               /\ slot' = [slot EXCEPT ![t] = "held"]
            \/ /\ Ask[t].key \in Limited
               /\ ~(active[Ask[t].key] < KeyLimit[Ask[t].key])
               /\ UNCHANGED active
               /\ slot' = [slot EXCEPT ![t] = "waiting"]
<1> USE LimitOfKey DEF L!TakeOrWait, L!HasRoom
<1>1. CASE L!Acquire(t)
  BY <1>1 DEF L!Acquire, L!Uncounted
<1>2. CASE L!Wake(t)
  BY <1>2 DEF L!Wake, Placed
<1>3. QED
  BY <1>1, <1>2

LEMMA EnterStep ==
  ASSUME IInv, PlacesInv, NEW t \in Tasks, EnterLimiter(t)
  PROVE  PlacesInv'
<1> DEFINE key == Ask[t].key
<1> USE DEF IInv, TypeOK
<1>1. Placed(t) /\ (L!Acquire(t) \/ L!Wake(t))
  BY DEF PlacesInv, EnterLimiter
<1>2. worker[t] \in AtLimiter /\ worker[t] \notin InPool
  BY DEF EnterLimiter, AtLimiter, InPool
<1>3. \A u \in Tasks : u # t => worker'[u] = worker[u]
  BY DEF EnterLimiter, Set
<1>4. CASE /\ key \in Limited
           /\ active[key] < KeyLimit[key]
           /\ active' = [active EXCEPT ![key] = @ + 1]
           /\ slot' = [slot EXCEPT ![t] = "held"]
  <2>1. slot'[t] = "held" /\ worker'[t] \in InPool /\ worker'[t] \notin AtLimiter
    BY <1>4 DEF EnterLimiter, Set, InPool, AtLimiter
  <2>2. \A k \in Keys : active'[k] = IF k = key THEN active[k] + 1 ELSE active[k]
    BY <1>4
  <2>3. \A u \in Tasks : Placed(u)'
    <3>1. Placed(t)'
      BY <2>1 DEF Placed
    <3>2. \A u \in Tasks : u # t => slot'[u] = slot[u]
      BY <1>4
    <3>3. ASSUME NEW u \in Tasks, u # t, slot[u] = "waiting"
          PROVE  active'[Ask[u].key] >= KeyLimit[Ask[u].key]
      <4>1. Ask[u].key \in Limited /\ active[Ask[u].key] >= KeyLimit[Ask[u].key]
        BY <3>3 DEF PlacesInv, Placed
      <4>2. Ask[u].key \in Keys
        BY <4>1 DEF Limited
      <4>3. active[Ask[u].key] \in Nat /\ KeyLimit[Ask[u].key] \in Nat
        BY <4>2, LimitsAssumption
      <4>4. QED
        BY <2>2, <4>1, <4>2, <4>3
    <3>4. QED
      BY <1>3, <3>1, <3>2, <3>3 DEF PlacesInv, Placed
  <2>4. ASSUME NEW k \in Limited
        PROVE  Counted(k)'
    <3>1. CASE k = key
      <4>1. InsideOf(k)' = InsideOf(k) \union {t} /\ t \notin InsideOf(k)
        BY <1>2, <1>3, <2>1, <3>1 DEF InsideOf
      <4>2. Cardinality(InsideOf(k)') = Cardinality(InsideOf(k)) + 1
        BY <4>1, InsideFinite, FS_AddElement
      <4>3. active[k] \in Nat /\ KeyLimit[k] \in Nat /\ k \in Keys
        BY LimitsAssumption DEF Limited
      <4>4. active'[k] = active[k] + 1
        BY <2>2, <3>1, <4>3
      <4>5. active'[k] <= KeyLimit[k]
        BY <1>4, <3>1, <4>3, <4>4
      <4>6. QED
        BY <4>2, <4>4, <4>5 DEF PlacesInv, Counted
    <3>2. CASE k # key
      <4>1. InsideOf(k)' = InsideOf(k)
        BY <1>3, <3>2 DEF InsideOf
      <4>2. active'[k] = active[k]
        BY <2>2, <3>2 DEF Limited
      <4>3. QED
        BY <4>1, <4>2 DEF PlacesInv, Counted
    <3>3. QED
      BY <3>1, <3>2
  <2>5. QED
    BY <2>3, <2>4 DEF PlacesInv
<1>5. CASE key \notin Limited /\ UNCHANGED active /\ slot' = [slot EXCEPT ![t] = "held"]
  <2>1. slot'[t] = "held" /\ worker'[t] \in InPool /\ worker'[t] \notin AtLimiter
    BY <1>5 DEF EnterLimiter, Set, InPool, AtLimiter
  <2>2. \A u \in Tasks : Placed(u)'
    <3>1. Placed(t)'
      BY <2>1 DEF Placed
    <3>2. QED
      BY <1>3, <1>5, <3>1 DEF PlacesInv, Placed
  <2>3. \A k \in Limited : InsideOf(k)' = InsideOf(k)
    BY <1>3, <1>5 DEF InsideOf
  <2>4. QED
    BY <1>5, <2>2, <2>3 DEF PlacesInv, Counted
<1>6. CASE /\ key \in Limited
           /\ ~(active[key] < KeyLimit[key])
           /\ UNCHANGED active
           /\ slot' = [slot EXCEPT ![t] = "waiting"]
  <2>1. slot'[t] = "waiting" /\ worker' = worker
    BY <1>6 DEF EnterLimiter
  <2>2. active[key] \in Nat /\ KeyLimit[key] \in Nat
    BY <1>6, LimitsAssumption DEF Limited
  <2>3. Placed(t)'
    BY <1>2, <1>6, <2>1, <2>2 DEF Placed
  <2>4. \A u \in Tasks : Placed(u)'
    BY <1>6, <2>1, <2>3 DEF PlacesInv, Placed
  <2>5. QED
    BY <1>6, <2>1, <2>4, SameInside DEF PlacesInv
<1>7. QED
  BY <1>1, <1>4, <1>5, <1>6, LimiterTurn

(* A task that ends gives its own place back: it was counted, and nobody   *)
(* of a named key is left asleep.                                          *)
LEMMA FinishStep ==
  ASSUME IInv, PlacesInv, NEW t \in Tasks, worker[t] \in InPool,
         L!Release(t), worker' = Set(worker, t, "none")
  PROVE  PlacesInv'
<1> DEFINE key == Ask[t].key
<1> USE DEF IInv, TypeOK
<1>1. /\ \A u \in Tasks : u # t => worker'[u] = worker[u]
      /\ worker'[t] = "none" /\ worker'[t] \notin InPool /\ worker'[t] \notin AtLimiter
  BY DEF Set, InPool, AtLimiter
<1>2. CASE key = NoKey
  <2>1. active' = active /\ slot' = [slot EXCEPT ![t] = "done"]
    BY <1>2 DEF L!Release
  <2>2. slot'[t] = "done" /\ \A u \in Tasks : u # t => slot'[u] = slot[u]
    BY <2>1
  <2>3. Placed(t)'
    BY <1>1, <2>2 DEF Placed
  <2>4. \A u \in Tasks : Placed(u)'
    BY <1>1, <2>1, <2>2, <2>3 DEF PlacesInv, Placed
  <2>5. \A k \in Limited : InsideOf(k)' = InsideOf(k)
    BY <1>1, <1>2, AskAssumption DEF InsideOf, Limited
  <2>6. QED
    BY <2>1, <2>4, <2>5 DEF PlacesInv, Counted
<1>3. CASE key # NoKey
  <2>0. key \in Keys
    BY <1>3, AskAssumption
  <2>1. /\ active' = [active EXCEPT ![key] = L!Decremented(@)]
        /\ slot' = L!NotifyAll([slot EXCEPT ![t] = "done"])
    BY <1>3 DEF L!Release
  <2>2. /\ slot'[t] = "done"
        /\ \A u \in Tasks : u # t =>
             slot'[u] = IF slot[u] = "waiting" THEN "notified" ELSE slot[u]
    BY <2>1 DEF L!NotifyAll
  <2>3. \A u \in Tasks : slot'[u] # "waiting"
    BY <2>2
  <2>4. \A u \in Tasks : Placed(u)'
    <3>1. Placed(t)'
      BY <1>1, <2>2 DEF Placed
    <3>2. ASSUME NEW u \in Tasks, u # t
          PROVE  Placed(u)'
      <4>1. CASE slot[u] = "waiting"
        BY <1>1, <2>2, <3>2, <4>1 DEF PlacesInv, Placed
      <4>2. CASE slot[u] # "waiting"
        BY <1>1, <2>2, <3>2, <4>2 DEF PlacesInv, Placed
      <4>3. QED
        BY <4>1, <4>2
    <3>3. QED
      BY <3>1, <3>2
  <2>5. ASSUME NEW k \in Limited
        PROVE  Counted(k)'
    <3>0. k \in Keys /\ active[k] \in Nat /\ KeyLimit[k] \in Nat
      BY LimitsAssumption DEF Limited
    <3>1. CASE k = key
      <4>1. InsideOf(k)' = InsideOf(k) \ {t} /\ t \in InsideOf(k)
        BY <1>1, <3>1 DEF InsideOf
      <4>2. Cardinality(InsideOf(k)') = Cardinality(InsideOf(k)) - 1
        BY <4>1, InsideFinite, FS_RemoveElement
      <4>3. InsideOf(k) # {} /\ Cardinality(InsideOf(k)) # 0
        BY <4>1, InsideFinite, FS_EmptySet, Zenon
      <4>4. active[k] > 0
        BY <3>0, <4>3 DEF PlacesInv, Counted
      <4>5. active'[k] = active[k] - 1
        BY <2>1, <3>0, <3>1, <4>4 DEF L!Decremented
      <4>6. active'[k] <= KeyLimit[k]
        BY <3>0, <4>5 DEF PlacesInv, Counted
      <4>7. QED
        BY <4>2, <4>5, <4>6 DEF PlacesInv, Counted
    <3>2. CASE k # key
      <4>1. InsideOf(k)' = InsideOf(k)
        BY <1>1, <3>2 DEF InsideOf
      <4>2. active'[k] = active[k]
        BY <2>1, <3>0, <3>2
      <4>3. QED
        BY <4>1, <4>2 DEF PlacesInv, Counted
    <3>3. QED
      BY <3>1, <3>2
  <2>6. QED
    BY <2>4, <2>5 DEF PlacesInv
<1>4. QED
  BY <1>2, <1>3

LEMMA PlacesStep ==
  ASSUME IInv, PlacesInv, [Next]_vars
  PROVE  PlacesInv'
<1> USE DEF IInv, TypeOK
<1>1. ASSUME UNCHANGED active,
             \A t \in Tasks : worker'[t] \in InPool <=> worker[t] \in InPool,
             \A t \in Tasks : Placed(t)'
      PROVE  PlacesInv'
  BY <1>1, SameInside DEF PlacesInv
<1>2. ASSUME UNCHANGED <<worker, active, slot>>
      PROVE  PlacesInv'
  BY <1>1, <1>2 DEF PlacesInv, Placed
<1>3. ASSUME NEW r \in Tasks, Handle(r)
      PROVE  PlacesInv'
  <2>1. \/ UNCHANGED <<worker, active, slot>>
        \/ /\ worker' = [worker EXCEPT ![r] = "run"]
           /\ slot' = [slot EXCEPT ![r] = "called"]
           /\ UNCHANGED active
           /\ req[r] # "done"
    BY <1>3 DEF Handle, PostVideo, ValidatedVideo, PostImage, CreateTask, limiter
  <2>2. ASSUME worker' = [worker EXCEPT ![r] = "run"],
               slot' = [slot EXCEPT ![r] = "called"],
               UNCHANGED active, req[r] # "done"
        PROVE  PlacesInv'
    <3>1. worker[r] = "none"
      BY <2>2 DEF Fresh
    <3>2. /\ worker'[r] = "run" /\ slot'[r] = "called"
          /\ \A t \in Tasks : t # r => worker'[t] = worker[t] /\ slot'[t] = slot[t]
      BY <2>2
    <3>3. Placed(r)'
      BY <3>2 DEF Placed, AtLimiter, InPool
    <3>4. \A t \in Tasks : Placed(t)'
      BY <2>2, <3>2, <3>3 DEF PlacesInv, Placed
    <3>5. \A t \in Tasks : worker'[t] \in InPool <=> worker[t] \in InPool
      BY <3>1, <3>2 DEF InPool
    <3>6. QED
      BY <1>1, <2>2, <3>4, <3>5
  <2>3. QED
    BY <1>2, <2>1, <2>2
<1>4. ASSUME NEW t \in Tasks, EnterLimiter(t)
      PROVE  PlacesInv'
  BY <1>4, EnterStep
<1>5. ASSUME NEW t \in Tasks,
             OpenAccount(t) \/ SubmitPrompt(t) \/ RecordConversation(t) \/ Rotate(t)
      PROVE  PlacesInv'
  <2>1. UNCHANGED <<active, slot>>
    BY <1>5 DEF OpenAccount, SubmitPrompt, RecordConversation, Rotate, limiter
  <2>2. /\ \A u \in Tasks : u # t => worker'[u] = worker[u]
        /\ worker[t] \in InPool /\ worker[t] \notin AtLimiter
        /\ worker'[t] \in InPool /\ worker'[t] \notin AtLimiter
    BY <1>5 DEF OpenAccount, SubmitPrompt, RecordConversation, Rotate, Set, InPool, AtLimiter
  <2>3. \A u \in Tasks : Placed(u)'
    BY <2>1, <2>2 DEF PlacesInv, Placed
  <2>4. \A u \in Tasks : worker'[u] \in InPool <=> worker[u] \in InPool
    BY <2>2
  <2>5. QED
    BY <1>1, <2>1, <2>3, <2>4
<1>6. ASSUME NEW t \in Tasks, Complete(t) \/ Fail(t)
      PROVE  PlacesInv'
  <2>1. worker[t] \in InPool
    BY <1>6 DEF Complete, Fail, InPool
  <2>2. L!Release(t) /\ worker' = Set(worker, t, "none")
    BY <1>6 DEF Complete, Fail, Finish
  <2>3. QED
    BY <2>1, <2>2, FinishStep
<1>7. CASE FailInterruptedRetries \/ FailInterruptedImages \/ UNCHANGED vars
  BY <1>2, <1>7 DEF FailInterruptedRetries, FailInterruptedImages, limiter, vars
<1>8. CASE SpawnRecovered
  <2>1. UNCHANGED active /\ \A t \in Tasks : worker[t] = "none"
    BY <1>8 DEF SpawnRecovered, Quiet
  <2>2. \A t \in Tasks : /\ worker'[t] \in {"none", "run", "resume"}
                         /\ slot'[t] = IF worker'[t] = "none" THEN "new" ELSE "called"
    BY <1>8 DEF SpawnRecovered
  <2>3. \A t \in Tasks : Placed(t)'
    BY <2>2 DEF Placed, InPool, AtLimiter
  <2>4. \A t \in Tasks : worker'[t] \in InPool <=> worker[t] \in InPool
    BY <2>1, <2>2 DEF InPool
  <2>5. QED
    BY <1>1, <2>1, <2>3, <2>4
<1>9. CASE Stop
  <2>1. /\ \A t \in Tasks : worker'[t] = "none" /\ slot'[t] = "new"
        /\ \A k \in Keys : active'[k] = 0
    BY <1>9 DEF Stop
  <2>2. \A t \in Tasks : Placed(t)'
    BY <2>1 DEF Placed, InPool, AtLimiter
  <2>3. ASSUME NEW k \in Limited
        PROVE  Counted(k)'
    <3>1. InsideOf(k)' = {}
      BY <2>1 DEF InsideOf, InPool
    <3>2. Cardinality(InsideOf(k)') = 0
      BY <3>1, FS_EmptySet
    <3>3. QED
      BY <2>1, <3>2, LimitsAssumption DEF Counted, Limited
  <2>4. QED
    BY <2>2, <2>3 DEF PlacesInv
<1>10. QED
  BY <1>3, <1>4, <1>5, <1>6, <1>7, <1>8, <1>9 DEF Next, Work, Boot

(* The tasks of a limited key inside the pool never exceed its limit, and  *)
(* a task sleeps at the limiter only while they reach it, whatever fails,  *)
(* is cancelled, crashes or is brought back by a restart                   *)
(* (server.py:160-183, 487-684).                                           *)
THEOREM LimitReachesThePool == Spec => []PlacesPerKey
<1> DEFINE PInv == IInv /\ PlacesInv
<1>1. Init => PInv
  BY Initial, PlacesInit
<1>2. PInv /\ [Next]_vars => PInv'
  BY Inductive, PlacesStep
<1>3. PInv => PlacesPerKey
  <2> SUFFICES ASSUME PInv, NEW k \in Keys, KeyLimit[k] > 0
               PROVE  /\ Cardinality(InsideOf(k)) <= KeyLimit[k]
                      /\ (\E t \in Tasks : slot[t] = "waiting" /\ Ask[t].key = k)
                           => Cardinality(InsideOf(k)) = KeyLimit[k]
    BY DEF PlacesPerKey
  <2>1. Counted(k) /\ KeyLimit[k] \in Nat /\ Cardinality(InsideOf(k)) \in Nat
    BY LimitsAssumption, InsideFinite DEF PlacesInv, Limited
  <2>2. (\E t \in Tasks : slot[t] = "waiting" /\ Ask[t].key = k) => active[k] >= KeyLimit[k]
    BY DEF PlacesInv, Placed
  <2>3. QED
    BY <2>1, <2>2 DEF Counted
<1> HIDE DEF PInv
<1>4. QED
  BY <1>1, <1>2, <1>3, PTL DEF Spec

-----------------------------------------------------------------------------
(* The worker seen from outside the pool takes its turn on the accounts.   *)
LEMMA WorkerUse ==
  ASSUME NEW t \in Tasks
  PROVE  /\ worker[t] = "preparing" => UseOf(t) = "waiting"
         /\ worker[t] = "open" => UseOf(t) = "open"
         /\ worker[t] \in {"submitted", "accepted", "polling"} => UseOf(t) = "sent"
         /\ worker[t] = "none" => UseOf(t) = status[t]
BY DEF UseOf

LEMMA WorkerUseNext ==
  ASSUME NEW t \in Tasks
  PROVE  /\ worker'[t] = "preparing" => UseOf(t)' = "waiting"
         /\ worker'[t] = "open" => UseOf(t)' = "open"
         /\ worker'[t] \in {"submitted", "accepted", "polling"} => UseOf(t)' = "sent"
         /\ worker'[t] = "none" => UseOf(t)' = status'[t]
BY DEF UseOf

LEMMA WorkerTurn ==
  ASSUME IInv, [Next]_vars, NEW t \in Tasks, worker[t] \in InPool, server' # "down"
  PROVE  Turn(t)!Step \/ UNCHANGED UseOf(t)
<1> USE WorkerUse, WorkerUseNext DEF IInv, TypeOK, KindOf
<1>1. UNCHANGED <<worker[t], status[t]>> => UNCHANGED UseOf(t)
  BY DEF UseOf
<1>2. ASSUME NEW r \in Tasks, Handle(r)
      PROVE  UNCHANGED UseOf(t)
  <2>1. req[t] = "done" /\ worker[t] # "none"
    BY DEF Fresh, InPool
  <2>2. UNCHANGED <<worker[t], status[t]>>
    BY <1>2, <2>1 DEF Handle, PostVideo, ValidatedVideo, PostImage, CreateTask, Fresh, durable
  <2>3. QED
    BY <1>1, <2>2
<1>3. ASSUME NEW u \in Tasks, Work(u), u # t
      PROVE  UNCHANGED UseOf(t)
  BY <1>1, <1>3 DEF Work, EnterLimiter, OpenAccount, OnStart, SubmitPrompt, RecordConversation,
                    Rotate, Complete, Fail, Finish, Set, durable
<1>4. ~EnterLimiter(t)
  BY DEF EnterLimiter, AtLimiter, InPool
<1>5. CASE OpenAccount(t)
  BY <1>5 DEF OpenAccount, Set, Turn!Step, Turn!Open
<1>6. CASE SubmitPrompt(t)
  BY <1>6 DEF SubmitPrompt, Set, Turn!Step, Turn!Send
<1>7. CASE RecordConversation(t)
  BY <1>7 DEF RecordConversation, Set
<1>8. CASE Rotate(t)
  BY <1>8 DEF Rotate, Set, Turn!Step, Turn!MoveOn
<1>9. CASE Complete(t)
  BY <1>9 DEF Complete, Finish, Set, Turn!Step, Turn!Complete
<1>10. CASE Fail(t)
  <2>1. UseOf(t) \in {"waiting", "open", "sent"}
    BY DEF InPool
  <2>2. UseOf(t)' = "failed"
    BY <1>10 DEF Fail, Finish, Set
  <2>3. QED
    BY <2>1, <2>2 DEF Turn!Step, Turn!Fail, Turn!Pending
<1>11. ~Boot /\ ~Stop
  <2>1. server = "up"
    BY DEF Quiet, InPool
  <2>2. QED
    BY <2>1 DEF Boot, FailInterruptedRetries, FailInterruptedImages, SpawnRecovered, Stop
<1>12. CASE UNCHANGED vars
  BY <1>1, <1>12 DEF vars
<1>13. QED
  BY <1>2, <1>3, <1>4, <1>5, <1>6, <1>7, <1>8, <1>9, <1>10, <1>11, <1>12 DEF Next, Work

(* What this model lets a worker do inside the pool is what AccountUse     *)
(* says, which the pool and the pages implement.                           *)
THEOREM WorkersTakeTheirTurns == Spec => WorkersTakeTurns
<1>1. IInv /\ [Next]_vars
        => [\A t \in Tasks : worker[t] \in InPool /\ server' # "down" =>
              Turn(t)!Step \/ UNCHANGED UseOf(t)]_vars
  BY WorkerTurn
<1>2. QED
  BY <1>1, Initial, Inductive, PTL DEF Spec, WorkersTakeTurns
=============================================================================
