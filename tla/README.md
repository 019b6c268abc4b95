# Formal models of Dola Gateway

TLA+ models of [Dola Gateway](../src/README.md), the TLC instances that check
them, and TLAPS proofs of their main properties. Paths below are relative to
the repository root; line numbers are those of the modelled commit.

Contents: [the system](#1-the-system) ·
[plan](#2-plan) ·
[modules and code](#3-modules-and-code) ·
[runs](#4-runs-what-they-check-and-show) ·
[fairness](#5-fairness-and-why-the-code-justifies-it) ·
[disagreements](#6-where-the-code-disagrees-with-its-documents) ·
[proofs](#7-what-is-proved) ·
[limits of the models](#8-abstractions-and-what-is-left-out)

## 1. The system

A FastAPI process (`src/dola_gateway/server.py`) accepts image and video
generation requests, stores each as a row of an SQLite table (`store.py`) and
works on it in a background coroutine. The coroutine takes a place of its API
key's concurrency limit, then a permit and an account of the browser pool
(`browser_pool.py`), drives a Chromium profile of that account
(`video_worker_ui.py`, `image_worker.py`) and records the result. A desktop
shell (`desktop/src-tauri/src/main.rs`) starts, supervises and stops the
process. Everything in the Python process runs on one asyncio event loop: a
coroutine is uninterrupted between two awaits that really suspend, and
everything that can go wrong lies at those awaits, at crashes, and, in the
shell, between any two accesses of its threads.

### Components

| component | state | operations | talks to |
| --- | --- | --- | --- |
| API-key limiter (`server.py:160-183`) | a counter per key and one `asyncio.Condition` for all keys | `acquire`, `release` | every background worker; the limit is a snapshot in the task row, the policy is edited by `PATCH /api/admin/keys` |
| Task gateway (`server.py:487-1000`, `store.py`) | the `tasks` table (durable); requests, workers (volatile) | `POST` video and image, `_run_task`, `_run_image_task`, `_resume_task`, `resume_incomplete_tasks` | limiter, pool, clients that poll the status |
| Account pool (`browser_pool.py`) | profile directories, `accounts_meta` rows (scheduling, login, restrictions), a lock per account, one semaphore | `generate_video`, `generate_image`, `resume_video`, `verify_account`, `delete_account`, `set_scheduling` | workers; administrator; Dola's web pages |
| Login jobs (`server.py:1094-1234`, `add_account.py`) | `JOBS`, `ADD_JOB_TASKS`, the profile and its row | add, cancel and remove an account | a visible browser in which the user signs in; the pool |
| Desktop shell (`main.rs`, `desktop_entry.py`) | child slot behind a mutex, `stopping`, `retry_requested`, restart count | `supervise_backend`, `stop_child`, close and exit handlers, retry link, parent watchdog | the backend process |
| Page automation (`video_worker_ui.py`, `image_worker.py`, `video_protocol.py`) | a browser page, an observed conversation | fill and submit, poll for a result | Dola |
| Error classification (`upstream_errors.py`) | none | text to restriction, rejection or temporary error | page automation, pool |
| Reference images (`media.py`) | a temporary directory | validate, download | requests, workers |
| Duration extension (`extensions/dola30/`) | set of attached tabs, badge | attach, patch a paused response, detach | Chromium's debugger |
| Keys, sessions, statistics (`store.py`) | other tables | single SQL statements | administrator |
| Release tooling (`tools/release/`, `.github/workflows/release-publish.yml`) | version files, a runtime and three installer files per host, a bundle, the assets of each public release | bump, check, build runtime, build installer, bundle, publish; each may fail or be killed and be run again | two native hosts, the workflow, GitHub |
| Configuration, support bundle, web page | files | start-up parsing, an archive, page script | - |

### What is hard about it, and what makes it correct

* **Limiter.** Workers of all keys sleep on one condition; the limit of a key
  changes while they do. Correct: a key stays within its limit, the counter is
  the number of workers inside, no wakeup is lost, everyone gets in.
* **Gateway.** A repeated request suspends between its idempotency lookup and
  its insertion; the process may die between any two steps of a worker, when a
  prompt has been sent and may cost credits, and in the middle of recovery.
  Correct: one task per Idempotency-Key, a bounded queue, statuses that only
  move forward, no second paid submission, every task settled.
* **Pool.** Candidates are a snapshot that ages while a task waits; a released
  lock is free before its next owner runs; tasks hold permits while they wait
  for accounts; accounts are edited and removed meanwhile. Correct: one
  generation per profile, never under a removed profile, only on an account fit
  for it, every error path gives the account back, everyone ends.
* **Login jobs.** Two handlers may await the same cancelled login and continue
  on state the other, or a new login, has changed. Correct: one login per
  profile, one that can be cancelled.
* **Page automation.** The page belongs to Dola and the user: texts, challenges
  and images come, go and come back between two looks of the worker; an old
  line may read like an answer, a rejection like a shortage, and a selected
  duration may not stick. Correct: a task is judged by what its own prompt
  brought about, only what was asked for is ordered, a set of images is settled
  before it is the result, the references live exactly as long as some account
  may need them, and every loop ends.
* **Duration extension.** Tab events, answers of the debugger and paused responses
  interleave at every await of the service worker, each call may fail, sessions
  end and tabs close on their own. Correct: the worker knows what is attached, no
  response stays held, a page gets the server's choices with exactly the missing
  durations added.
* **Release tooling.** Each command leaves files that a later one trusts; it may
  be killed between any two writes and be repeated with another version in the
  tree. Correct: what is accepted was verified, what is published is of one piece,
  a usable runtime is not lost to a failed build.
* **Shell.** Three threads share a child slot while the backend starts,
  crashes, restarts, and the window closes. Correct: one backend, none
  forgotten, restarts bounded, closing ends, nothing left behind.

`PROJECT.json` lists every hazard at its line together with the properties
aimed at it.

## 2. Plan

Written, in this order; each theorem module `XProofs` extends `X`.

1. `KeyLimiter`, `KeyLimiterProofs`: the smallest component everyone depends on.
2. `TaskLifecycle`: the abstract promise about a task (a state that only moves
   forward and at most one submission in Dola's hands).
3. `Gateway`, `GatewayProofs`: composes `KeyLimiter` (by `INSTANCE`) with
   requests, workers, crashes and recovery, and implements `TaskLifecycle`.
4. `BrowserPool`, `BrowserPoolProofs`: the inside of what `Gateway` sees as
   "an account was opened, the prompt was sent".
5. `LoginJobs`, `LoginJobsProofs`.
6. `DesktopShell`, `DesktopShellProofs`.
7. `ReferenceImages` (`media.py`) and `GenerationPage`, which extends it, with
   `GenerationPageProofs`: the page automation, its polling and settling, and
   the error classification; the inside of what `BrowserPool` sees as the
   outcome of using an account.

8. `DurationExtension`, `DurationExtensionProofs`: the service worker with a
   debugger whose calls interleave, and the patching of payloads.
9. Login checks and sign-ins inside `BrowserPool` (`VerifyAccount`, `SignIn`): they
   open a profile without the account's lock.
10. `ReleaseTooling`, `ReleaseToolingProofs`: versions, runtimes, installers, the
    bundle and its publication, with commands that die between two writes.
11. `AccountUse`: the turn of one generation on the accounts, which `Gateway`,
    `BrowserPool` and `GenerationPage` see from three sides and each implement.

Next:

12. `LoginJobs` and `BrowserPool` composed over one account table: a removal that
    resumes while the sign-in browser writes its row again.
13. More than one day in `Gateway`: a quota that is reset while rows of the day
    before are pending.

## 3. Modules and code

Each action is the code between two suspending awaits (in the shell: between
two accesses to shared state). `PROJECT.json` maps each definition to its lines.

### KeyLimiter

`active` is `_active`; `slot[t]` says where worker `t` stands (`called`:
acquire() is about to run; `waiting`: asleep in `Condition.wait()`; `notified`:
woken, before it evaluates the loop again). `call[t]` is the key and limit
stored in the task row by the request, `policy` the limit the key has in the
database now. `Acquire`, `Wake`, `Release`, `Submit`, `PatchLimit`. The
condition's own lock is never held across a suspension, so it is not modelled.
`Limits[k]` is what the administrator may give key `k`; 0 means unlimited, and
`Metered` are the keys for which that never happens.

### TaskLifecycle and Gateway

`status` and `conv` are durable (`conv` is what became of
`tasks.conversation_id`: `current`, or `refused` after a rotation left it
behind). `req`, `worker`, `tried`, `active`, `slot` die with the process.
`outstanding[t]` is an observation, not a variable of the program: submissions
of `t` that Dola received and did not refuse.

* `PostVideo`/`ValidatedVideo` split `create_video` at its await of
  `validate_reference_urls`; `PostImage` has none. `CreateTask` is
  `store.create()` (second lookup, pending limit, quota, insertion) with the
  spawning of the worker.
* `EnterLimiter`, `OpenAccount`, `SubmitPrompt`, `RecordConversation`,
  `Rotate`, `Complete`, `Fail` are a worker's steps; `Finish` is the last
  update of the row with the `finally` block.
* `Stop` is a crash or a shutdown at any point. A cancelled worker leaves
  through its `finally` block without updating its row, so the two leave the
  same state behind. `FailInterruptedRetries`, `FailInterruptedImages` and
  `SpawnRecovered` are the three commits of `resume_incomplete_tasks`, and the
  process may stop between them.
* `InsideOf(k)` are the workers of key `k` that the limiter has let in and not
  out again; `PlacesPerKey` relates them to the limits of their rows, for a
  limiter that is now used by workers that fail, are cancelled, crash and are
  brought back.

### BrowserPool

`account[a]` is the profile directory and its row, `lock[a][g]` the asyncio locks
the account has had, each with its waiters in order, and `era[a]` the one that
`_locks` holds now. `pc`, `at` and `mine` say where a task stands, with which account
and which of its locks, `cands` are the candidates of the video loop still to visit,
`verifying` and `signing` the login checks and the sign-ins in progress. A task in `scan` is in the middle of one turn of the event loop;
`LoopFree` keeps everyone else from moving. `Choose`, `Exhausted`, `Granted`
choose an account and obtain its lock as `asyncio.Lock` does: a released lock
is unlocked at once, but its first waiter gets it before anyone who comes
later. A task that has the lock is `launching` while `async_playwright()` starts;
`launch_account_context()` looks for the directory only after that suspension, so that
`Launch` and `LaunchFailed` are steps of their own. `Send`, `Complete`, `Fail`,
`Restricted` and `LoginExpired` are the outcomes of using the account.

`DeleteAccount` takes the lock out of the table (`era[a]` goes up), not away from the
tasks that wait for it or were woken for it. They go on with the dropped lock
(`Dropped`): `Granted` lets a video or an image fail when the account is gone or look at
the account that has its name by then, while a resumption checks nothing before its
browser is launched, when the account may be there again under another lock.
`VerifyAccount`/`Verified` and
`SignIn`/`SignedIn` are the two other ways into a profile, each split at the await
during which its browser is open. The administrator signs in again only an
account that is logged out (a new one, or one an image task found logged out);
making its directory is part of the request. A removed account can come back
this way at any time, whoever still waits for or holds one of its earlier locks.

`CanMove(t)` says that the code has a step left for task `t` that nobody else has
to take first; `SomebodyMoves` that there is always such a task.

### AccountUse

One coroutine (`_run_task`, `_run_image_task` or `_resume_task`, between `acquire()`
and `release()`) appears in three modules: `Gateway` sees its worker from outside
the pool, `BrowserPool` its place among the accounts, `GenerationPage` its page.
`AccountUse` is what the three must agree on: which `kind` of generation may go to
another account, when a prompt may be sent, and what comes before a result. Each
module has an instance of it:

| module | instance | `waiting` | `open` | `sent` |
| --- | --- | --- | --- | --- |
| `Gateway` | `Turn(t)`, `WorkersTakeTurns` | `preparing` | `open` | `submitted`, `accepted`, `polling` |
| `BrowserPool` | `Turn(t)`, `TakesTurns` | not using an account | `open` | `sent` |
| `GenerationPage` | `Turn`, `TakesTurn` | no page yet, or rotating | `composing`, `typing` | every later stage |

A resumption follows its conversation without sending, a manual retry never moves
on. In `Gateway` the worker of a process that stops ends without a step of its own,
so its instance speaks of the steps that do not stop the process.

### LoginJobs

One account name: names do not interact. `job` is the status in `JOBS`,
`tracked` the entry of `ADD_JOB_TASKS`, `login[l]` a task of `_run_add_job`
(`revoked`: cancelled before its first step, so it never runs; `broken`: its
entry in `JOBS` was gone when it ended, and the `KeyError` reaches the handler that
awaits it, `AwaitRaises`). Handlers that
await a finished task are runnable, and `behind[l]` says which of them were
when a task was spawned: the event loop's queue is FIFO, so they come before
its first step. Without that, interleavings the loop cannot produce would
appear.

### DesktopShell

One variable per field of `BackendState`, the place of each thread (`supervisor`,
`closer`, `main`), and the processes. `StopLock`, `StopDeadline`, `StopReap` and
`StopNothing` are `stop_child()`, which keeps the mutex while it waits. `Spawn`
and `Store` are apart because the code starts the process before it locks the
slot. `Listen`, `Watch`, `ShutDown` and `Crash` are the backend;
`Kill` the end of the shell without any handler.

### ReferenceImages and GenerationPage

`ReferenceImages` is `download_reference_images()`: `refs` its progress, `todo`
the images left, `route` and `hops` the proxy or direct connection and the
redirects of the current one, `checked` whether the address of this route was
resolved and judged, `dir` the temporary directory. `OpenRoute` and `Request`
are its two kinds of await; `Abandon` is the `except` block.

`GenerationPage` is one task: the download, then one page after another.
`chat`, `challenge`, `old`, `texts`, `shown` and `asked` are the page, changed by
Dola and the user in `Write`, `Accept`, `Show` and `Challenge`; `stage` is the
worker's place in `generate_video`, `resume_video` or `generate_image`, `left` the
time left in its loop, `base` the baseline an image task reads before it sends,
`latest` and `still` the settling, `verdict` and `blame` what this page ended
with and the text it ended on. `age` is an observation: how long ago an image
was first shown. A text is the set of markers the expressions of
`upstream_errors.py` find in it; `Classify` is their precedence. `Poll` takes the
texts of an answer in order before its video, as the loop does. `ReadLines` and
`ReadImages` are the two awaits of one round of
`_wait_for_generated_images()`, so that the page may change between them.
`Rotate` is the pool's move to another account with a fresh page; `End` is the
end of the task with its `finally` block; `Cancel` is a shutdown at any await.
The pool's locks are not repeated here: they are in `BrowserPool`.

### DurationExtension

Every await of the service worker is a call that the browser answers, so the state
of a handler in progress is the call or the answer it waits for: `outbox` and
`inbox`, both in order. `attachedTabs` and `badge` are the worker's; `session[t]` is
the browser's side of a debugger session (`attached`: Fetch not enabled yet;
`refused`: `Fetch.enable` failed and nobody detaches), `response[r]` and `body[r]` what
becomes of a response. `attachExistingTabs` to `Continued` are the continuations of
the handlers, in the names of the code where it has one: `Attached` and `Enabled`
are the two awaits of `ensureAttached()`, `onPaused`, `GotBody`, `Answered` and
`Continued` those of `handlePausedResponse()`. `Query` to `Continue` are the browser
carrying out a call, which may fail; `Startup` to `Respond` what users, pages and the
automation cause. `duration-patch.js` is translated into operators on lists of
options: `durationOption`, `Exemplar`, `Offer`, `ensureDurationOptions`,
`ensureDurations` (as `Include`), `patchValue`, `patchDurationPayload`.

### ReleaseTooling

`tree[t]` is the version in the files of a host's checkout, `runtime[t]` and
`installers[t][v]` what its commands left behind, `step[t]` and `work[t]` where the
running command is and what it is making; `bundle` and `bundling` are `dist/release` and
`create_manifest.py` at work on it; `release[v]`, `publishing` and `listed` the public
release and the job that uploads it. A file is its content, or `Torn`, or `NoFile`;
every build is stamped so that two are never equal, which is what comparing hashes
tells. `StartBump` and `BumpFile` are `bump_version.py`, one file at a time; `StartJob`
a checkout that passed `check_release.py`; `StartRuntime` to `Replace` are
`build_runtime.py`, where `RemoveOld` and `Replace` are apart because a kill may fall
between them or into the first; `StartInstaller` to `WriteMetadata` are
`build_installer.py`; `Validate` to `WriteSums` write the bundle, `Accepted` is
`verify_release_bundle()`; `Publish` and `Upload` are the publish job, one asset at a
time. `Kill` and `KillBundling` cut a command short, and whatever file it was writing
is `Torn`, the one `shutil.copy2` was copying into the bundle included;
`KillPublishing` leaves an asset uploaded or missing.

## 4. Runs: what they check and show

Every bound is a constant of the `.cfg`. `CHECK_DEADLOCK FALSE` everywhere:
each system rests when its finite work or its bounds are used up.

| run | instance | shows |
| --- | --- | --- |
| `key_limiter` | 4 workers, anonymous or of 2 keys; one key with limits 1 and 2, one with 0 and 1; 350,000 states | `WithinLimit`, `CountExact`, `NoLostWakeup`, `EveryWorkerFinishes` |
| `key_limiter_toggle` | 3 workers, one key with limits 0 and 1 | violates `EveryLimitRespected`, see section 6 |
| `gateway` | a video posted twice under one Idempotency-Key, an image under the same one and a manual retry without a key; limit 1, 2 pending places, 1 rotation, 2 stops; 148,000 states | `PlacesPerKey`, `IdempotencyHolds`, `PendingBounded`, `NoDuplicateSubmission`, `OnlyUnacceptedVideosStranded`, `QueuedTasksSettle`, the refinement `ImplementsLifecycle` |
| `browser_pool` | a video, an image, a resumption and an image retry pinned to account 1; 2 accounts, 3 permits, 2 actions of the administrator, any initial restrictions; 1.3 million states | `SomebodyMoves`, `ProfileExclusive`, `NoLockLeak`, `ProfileStays`, `DispatchedFit`, `RestrictionSticks`, `EveryTaskEnds` |
| `browser_pool_collide` | 2 videos and an image, 2 accounts, 3 permits, 1 action of the administrator | violates `OneBrowserPerProfile` |
| `login_jobs` | 3 additions, 2 cancellations, 1 removal in every order; 71,000 states | `OpenIsCancellable`, `NotRefusedForever` |
| `login_jobs_twice` | 3 additions, 2 cancellations, 2 removals, with symmetry | violates `OneLogin` |
| `desktop_shell` | 2 process identities, 1 automatic restart (the code's value); 20,000 states | `OneBackend`, `NoChildForgotten`, `RestartsBounded`, `RetryAnswered`, `ClosingEnds`, `NoOrphans` |
| `desktop_shell_quit` | the same | violates `QuitLeavesNothing` |
| `generation_page` | a video with 0 or 2 references, a resumption, an image headless or not; 4 texts, 2 images, 1 rotation; 2.0 million states | `VerdictEarned`, `PromptMatchesRequest`, `ReferenceFilesScoped`, `SettledResult`, `SentAgainOnlyIfRefused`, `NeverWoundBack`, the refinement `TakesTurn`, `EveryGenerationEnds` |
| `duration_extension` | 2 tabs with a response each, 3 events on one of them, calls that fail at any time; a payload of selectors with none, some, all and unknown choices; 760,000 states | `SettledTabs`, `DeliveredComplete`, `NoResponseHeld` |
| `release` | 2 targets, 2 versions, 3 commands on one host, 2 bundles, 2 publications, 1 killed command, each host with or without an earlier build; 3.5 million states | `AcceptedVerified`, `PublishedWhole`, `OldRuntimeKept` |

Why the bounds suffice. The bounds that cap the behaviour itself are
`MaxTried` (accounts a worker moves on from), `MaxStops` (crashes and
shutdowns) and `MaxEdits` (actions of the administrator). One rotation shows a
task that comes back from a refused submission to a fresh account; a second
one repeats it in the same state. Two stops put a crash into a worker and
another into the recovery that follows it. Two edits of the administrator fall
between any two steps of any tasks: the least that removes an account and adds it
again, which is when one account has two locks in use. Removing it a second time takes
a third edit; a run of the safety properties alone with 3 edits and 2 permits (3.9
million states) passes too, but is too long to repeat with liveness. The safety
theorems hold for any number of edits.
Four workers on a limit of two leave two asleep, the least for which waking one
instead of all goes wrong; four tasks of four kinds on two accounts give a
holder, a waiter and a bystander. Two process identities are enough because a
reaped process returns its identity, and a third could only be used after
`OneBackend` had failed. In `GenerationPage` the loops' limits (`Grace` 2 for 20,
`ConvTime` 2 for 30, and the configured times) count looks or time units; what
matters is that a loop can both succeed and run out, and that the settling time
(2) leaves room in the image deadline (4) for a set that changes after it was
first seen. `MaxElapse` 2 lets a round be slower than another and overshoot a
deadline. Two texts per conversation (`MaxTexts`) are an ordinary one before a
decisive one or two decisive ones; the four texts are one for each rule whose order
or exception matters. Two images, one of which may be old artwork, are the least
for which a set changes while one of its members stays. Two references and up to
two redirects (`MaxRequests` 3 for 5) on two routes let each image fail and succeed
on either. In `DurationExtension`, three events on a tab are the least for a tab
that is attached, detached and attached again, or attached twice while it closes;
the second tab shares the queues and has none of its own, so that its response
is only delayed. In `ReleaseTooling` three commands on a host bump, build and
package, or build and package twice; the other host rests on what it built earlier
(nothing, or one version), which is all the bundle can find of a host whose
commands are over. One kill between two writes and two runs of each later
tool put every leftover in front of its reader. Safety is
proved for every value of these constants wherever section 7 says so; the
instances matter for liveness and for the properties not proved.

The type invariants (`TypeOK` of each module) are proved for every instance
(`TypeCorrect`, section 7) and are not checked again by the runs.

Each property is paired in `PROJECT.json` with a mutant, a plausible bug in the
code it depends on, under which its run fails.

## 5. Fairness, and why the code justifies it

* *KeyLimiter*: weak fairness of each worker: the event loop runs every ready
  coroutine.
* *BrowserPool*: weak fairness of the tasks' steps taken together, which asks less of
  the event loop than fairness of each. Navigations, clicks and the polling and
  generation loops have deadlines, after which the step is `Fail`. A few calls have none
  of their own (`evaluate_all()` in `image_worker.py:116`, `cookies()`, `evaluate()`,
  `close()`), and the pool does not limit them either: that they return or fail is
  an assumption about Patchright's connection to a living browser. If one of them
  never returned, its task would keep its permit and its account's lock for good.
  The administrator is not fair: nobody has to edit anything.
* *Gateway*: weak fairness of each worker and of the boot. `Boot` says that a
  stopped process is started again, by the user or the shell; without it no
  property about recovery could hold. Requests and `Stop` are not fair.
* *GenerationPage*: weak fairness of the worker's steps taken together (`Work`). The event loop
  resumes the worker, and its waits have deadlines or, where the call has none
  (`evaluate_all()`, `cookies()`, `close()`, as for *BrowserPool*), are assumed to return
  or fail with the browser; then the step is `PageError` or an outcome with an error. So
  `EveryGenerationEnds` is about the loops and deadlines of the code, not about a browser
  that hangs without closing its connection. A round takes at least one unit of
  time because each ends with a sleep. Dola and the user owe nothing: no text, no
  acceptance, no solved challenge is fair, and a shutdown need not happen.
* *DurationExtension*: weak fairness of the worker's event loop and of the browser
  that answers its calls. A debugger session keeps the worker alive, so a call it
  awaits finds it running. Answers and events arrive in the order the browser made
  them (an assumption about Chromium). No tab event, detachment or response is
  fair, and a call may always be answered by an error.
* *ReleaseTooling*: none; it has safety properties only. A command may stop anywhere.
* *LoginJobs*: weak fairness of the start, the timeout and the closing of each
  login and of a handler whose awaited task is done. `LOGIN_TIMEOUT` ends a
  login nobody completes; nobody has to complete one.
* *DesktopShell*: weak fairness of the three threads, of the parent watchdog (it
  polls), and of the graceful shutdown of a backend whose shell is gone. Closer
  and main thread acquire the mutex under *strong* fairness: with weak fairness
  alone `ClosingEnds` fails, because while closing `wait_for_retry()` returns
  at once and the supervisor starts and stops a backend over and over, taking
  the mutex each time. `std::sync::Mutex` does not promise its waiters a turn;
  that the supervisor always wins is excluded only by the time it spends
  starting a process with the mutex free. A backend asked to stop need not
  react while the shell lives: `stop_child()` kills it at its deadline.

## 6. Where the code disagrees with its documents

Each of these has a run that produces the trace; the quotes are in `PROJECT.json`.

1. *Limiter* (`server.py:179`). A worker admitted while its key was unlimited is
   not counted, yet its release decrements the counter. After the administrator
   sets a limit, such a release admits one worker too many.
2. *Two browsers* (`browser_pool.py:291`). A login check looks at the account's lock
   without taking it and a sign-in does not look at all: a generation that starts
   meanwhile opens the same profile, against the comment of the scheduler
   (`browser_pool.py:514`).
3. *Two logins* (`server.py:1221`). A cancellation that resumes after a new login
   was spawned drops the new login from `ADD_JOB_TASKS`; a third request opens
   the same profile again.
4. *Quit* (`main.rs:293`). A backend that is started but not yet in the child slot
   survives the exit handler, until its watchdog ends it (`NoOrphans`).

These four are in the models, without a run of their own:

5. *Recovery* (`server.py:668`). A video that was started (`processing`) but not
   yet accepted when the process died is neither resumed, requeued nor failed:
   it stays `processing` and occupies a pending place forever, against the
   docstring at `server.py:663`. `OnlyUnacceptedVideosStranded` shows, and
   `RecoveryComplete` proves, that nothing else is.
6. *Busy pool* (`browser_pool.py:515`). With more permits than accounts, a video
   that finds every fit account busy fails instead of waiting, against the
   comment at `server.py:731` (`Choose` and `Exhausted` of `BrowserPool`).
7. *Rotation after submission* (`video_worker_ui.py:236`). Texts polled in an
   accepted conversation are classified like texts from before the submission. A
   restriction there, even next to a finished video, makes the pool try another
   account, against the docstring of `generate_video` (`browser_pool.py:504`). A
   second paid submission would take a restriction that Dola writes although it
   works on the prompt; `NoDuplicateSubmission` of `Gateway` holds under the
   assumption that a restriction means a refusal (`PollVerdict` of `GenerationPage`).
8. *A dropped lock* (`browser_pool.py:284`, `473`). A resumption waits for its account's
   lock, or was woken for it and has not run yet, when the account is removed: the lock
   is free, so `delete_account` goes on and drops it. The resumption takes the dropped
   lock and starts `async_playwright()` (`video_worker_ui.py:257`); before it looks for
   the directory (`browser.py:20`) a sign-in has made it again (`add_account.py:64`). It
   launches, and whoever uses the account next gets the new lock from the table: two
   browsers on one profile, against "prevent concurrent collisions on same profile"
   (`browser_pool.py:514`), or a second removal that finds the new lock free and takes
   the profile away in use, against "so a generation cannot claim this profile in the
   middle of deletion" (`server.py:1107`). `MCBrowserPool.cfg` with `NeverShared` as its
   invariant shows the first in 14 states. `ProfileExclusive` and `ProfileStays` are what
   holds: only a dropped lock, so only a task that was still waiting when its account
   went, leads there.

Smaller observations, also in the models. A
cancellation that resumes after a removal reads `JOBS[name]`, which is gone, and
its request ends with a `KeyError` (`server.py:1222`, state `crashed` of
`LoginJobs`), as does the login itself when it outlives its entry. A video whose
challenge outlasts its deadline after Dola accepted the prompt is not sent again, but
never fetched either: its conversation has not been recorded yet
(`video_worker_ui.py:403`, `AwaitVerification`). A manual retry that looks between the
release of a lock and the wakeup of its next owner queues behind that one (`browser_pool.py:422`, `Choose`
of `BrowserPool`). A shutdown during the download of references leaves their
directory behind (`media.py:159`, the exception in `ReferenceFilesScoped`). A debugger
session whose `Fetch.enable` failed is not detached, so that every later attachment
of the tab fails until the session ends (`service-worker.js:84`, session `refused`).
A host that still has the metadata of an earlier version cannot be bundled
(`create_manifest.py:85`, `OneBuildEach`); and a rebuild that fails its checks leaves
its installer beside the metadata of the build before, which only the hashes
reveal (`build_installer.py:284`).

## 7. What is proved

For every value of the constants, from the named assumptions of the modules
(finite sets of tasks, natural limits, the special values distinct from the
ordinary ones). Every theorem follows from an inductive invariant; the step is
one case per action.

* `KeyLimiterProofs`: `TypeCorrect`, `LimitHolds`, `CounterExact`, `WakeupsReach`. `WithinLimit`
  alone is not inductive: "the counter is below my limit" bounds the workers
  inside only if the counter is their number (`CountExact`), and that survives
  a release only if the worker was counted, which holds for keys that are never
  unlimited (`KeyedHasLimit`). The newcomer counts only towards limits of at
  least its own (`Admission`); other keys' workers touch nothing of a metered
  key (`SameHolders`). `WakeupsReach` needs only that whoever
  sleeps is counted for a key (`WaiterCounted`): a release then wakes it.
* `GatewayProofs`: `TypeCorrect`, `NoDuplicate`, `Refinement`, `Idempotency`,
  `QueueBounded`, `QuotaHolds`, `RecoveryComplete`, `LimitReachesThePool`,
  `StatusForward`, `ResultsEarned`, `WorkersTakeTheirTurns`. The invariant ties the position of a worker to the status of
  its row, to the conversation and to what Dola has (`Position`), says that no
  row precedes its request (`Fresh`) and that no coroutine outlives the process
  (`Quiet`). It is what makes recovery safe: a queued row has nothing
  outstanding. `Refinement` maps each step to a step of `TaskLifecycle` or a
  stutter. `QueueBounded` and `QuotaHolds` count rows: a restart adds
  none, an insertion is guarded. `QuotaHolds` has no run of its own; its step is
  the same count as that of the queue. `RecoveryComplete` adds what
  each step of the recovery has settled of a row (`Settled`). `LimitReachesThePool`
  carries the limiter's promise through the life of the workers: its invariant
  `PlacesInv` says that the counter of a limited key is the number of workers the
  limiter let in, that these are the ones in the pool or about to leave it, and
  that a worker asleep at the limiter sleeps only while its key is full
  (`EnterStep`, `FinishStep` and `SameInside` say how each step changes that set).
  `StatusForward` and `ResultsEarned` are theorems about `TaskLifecycle` that
  the refinement transports to the rows of the gateway.
* `BrowserPoolProofs`: `TypeCorrect`, `MutualExclusion`, `RemovalSafe`,
  `LocksGivenBack`, `DispatchSafe`, `RestrictionsStick`, `PoolNeverStalls`,
  `PoolTakesTurns`, `PoolImplementsTurn`. The user of an account holds a lock of it, the
  one it asked for (`UserHoldsLock`), the holder of a lock uses its account
  (`HolderUses`), and nobody has a lock that the table is yet to have (`LockOfItsTime`).
  Together they make "unlocked" mean "unused" for the lock in the table and for nothing
  else: `MutualExclusion` and `RemovalSafe` say how far `delete_account` and the
  schedulers may rely on it, with accounts removed and added again any number of times
  and resumptions that launch under a dropped lock.
  The two action properties follow step by step; `RestrictionsStick` needs in addition
  that a retry uses the account it is pinned to and that a row without directory has
  no restrictions. `PoolNeverStalls` is the deadlock argument that `EveryTaskEnds`
  rests on: if all tasks are stuck, the one that waits for a lock waits for its
  holder, the holder uses the account and can leave it, and one that waits for a permit
  waits for holders of permits, who are using accounts or waiting for locks. It needs
  that a lock's queue, dropped or not, is exactly the tasks that wait for it, once each
  (`QueuesWait`), so that a free lock has a first waiter who is still there.
  `PoolImplementsTurn` says of each task that its part of the pool's behaviour is one of
  `AccountUse`.
* `LoginJobsProofs`: `TypeCorrect`, `Cancellable`, `LostByLateHandlers`. The last one
  bounds finding 3: nothing but a handler that comes back from awaiting another login
  drops the entry of a running one.
* `DesktopShellProofs`: `TypeCorrect`, `ChildKept`, `Single`, `RestartsLimited`,
  `GuardIsGivenBack`.
  The slot is empty whenever the supervisor may start a backend (`SlotEmpty`),
  a started one is the supervisor's own only until it is stored (`StoredSoon`), and
  starts are accounted for by restarts (`StartsCounted`, `StartsBelow`).
  `GuardIsGivenBack` is what `ClosingEnds` needs besides a fair mutex: its holder has a
  child that nobody else has reaped (`NotReaped`).

* `GenerationPageProofs`: `TypeCorrect`, `Earned`, `AsAsked`, `FilesScoped`,
  `ResultSettled`, `NotSentTwice`, `RunsDown`, `PageImplementsTurn`. The
  invariant says where the worker stands (`Position`: there is a verdict only
  while the page is closed, nothing is sent before the typing, a video that is
  about to be typed shows the right duration), what the baseline is
  (`BaseIsOld`) and what becomes of the directory (`References`: a download
  nobody waits for was cancelled, so no rotation meets one). `VerdictEarned`
  needs `BaseIsOld`, because a line that is new against the baseline is new
  against the page only if the baseline is the page. Steps that look at no text share one
  lemma (`PlainStep`). `ResultSettled` adds that no image of
  the latest set has been known for less time than the set has not changed (`Aged`);
  `NotSentTwice` that what the pool moves on from was never sent or has a text of the
  conversation to blame (`Blamed`). `RunsDown` is the part of `EveryGenerationEnds` that is
  about the code: `Ahead` bounds the steps a worker has before it, each of its steps
  lowers it and no step of Dola or the user raises it; it needs that an image
  is judged only while time is left (`JudgesInTime`).
* `DurationExtensionProofs`: `TypeCorrect`, `TabsSettle`, `DeliveredIsComplete`,
  `HandledByOne`.
  `SettledTabs` speaks of quiet tabs only; its invariant speaks of all: the session
  patches exactly if the worker's set will contain the tab once the messages on their
  way are handled (`WillBe`: the last of them decides). The shape lemmas say
  what a step does to the two queues, and one lemma per kind of change (`WillBeTaken`,
  `WillBeLast`, `WillBeSame`) what that does to `WillBe`. `DeliveredIsComplete` rests on
  lemmas about the translated functions for lists of any length and any fields:
  `NewOption`, `OneOffer`, `ChoicesCompleted`, `DurationsIncluded`, `NodePatched`.
  `HandledByOne` counts the messages about one response: `TakenFrom`, `AddedTo` and
  `OthersAdded` say what a step does to their number and to the last word among them
  (`Led`), for queues of any length.
* `ReleaseToolingProofs`: `TypeCorrect`, `AcceptedIsVerified`, `PublishedIsWhole`,
  `RuntimeKept`. The invariant has a part for the command of each host (`WorkOK`:
  what is being made, at each step), for what lies in its output (`InstallersOK`:
  metadata describes an installer that passed), for a bundle under way (`BundleOK`)
  and for a publication (`ReleaseOK`: which assets are uploaded already).

Only model-checked: everything temporal under fairness (`EveryWorkerFinishes`,
`QueuedTasksSettle`, `EveryTaskEnds`, `NotRefusedForever`, `RetryAnswered`,
`ClosingEnds`, `NoOrphans`, `EveryGenerationEnds`, `NoResponseHeld`), because the installed provers handle neither
liveness under fairness nor ENABLED. What could be proved of their reasons is: `PoolNeverStalls` (somebody can always
move), `RunsDown` (what is ahead only shrinks), `WakeupsReach` (nobody sleeps
for nothing), `GuardIsGivenBack` (the holder of the slot can let go) and `HandledByOne`
(a held response has a handler that goes on). Those of them without a run
of their own, like `QuotaHolds`, `StatusForward` and `ResultsEarned`, are
about states that the run of their module reaches. Every other property of a passing run is proved, and so are the refinements
of `TaskLifecycle` and `AccountUse`.
No module uses recursion, and none of the results needs induction over data.

## 8. Abstractions, and what is left out

* *Gateway*: one calendar day, so that a key's quota counts all its rows; the
  reset at midnight is not modelled. The pool is an environment that may open
  an account whenever the worker waits for one. A request refused for a bad
  reference image, for want of accounts or because all are restricted is one
  outcome that changes nothing.
* *BrowserPool*: who gets a freed permit is arbitrary rather than first come
  first served, so its properties do not depend on the order. An image that
  waits polls: its notification and its half-second timeout are one step.
  Accounts are numbered in the order the code visits them, fixed once; adding
  one again after its removal is `SignIn`; several simultaneous
  checks of one account are not modelled, nor a sign-in that writes the row of an
  account removed during it. A sign-in's directory is made with the request. Usage counters, notes and e-mail addresses are left
  out. So is error text that shows a restriction before the prompt is sent:
  it has the state change of one that shows after.
* *DesktopShell*: the page follows the supervisor without delay. The restart
  counter, private to the supervisor, is reset when it gives up rather than on
  the next retry. The loop at the end of `supervise_backend()` (`main.rs:319-326`)
  locks the slot once to see that the child is gone and once to empty it; nobody can
  come in between without finding the same ended child, and the two are one action,
  `MonitorExited`. Chromium's own processes are
  not modelled: whether they end with the backend is up to Patchright.
* *GenerationPage*: a text is its set of markers, so the expressions themselves
  and the cut of a polled text at 120 characters (`video_protocol.py:69`) are
  choices of `Texts`. Before the prompt is sent the page rests, apart from what
  the worker does to it; once a result is being saved it no longer matters.
  Which control is missing, which part of a reference's address or format is
  refused and which image of several cannot be downloaded are one outcome each. The image
  deadline and the rounds are counted in the same units; pauses inside one step
  take no time. A download directory that somebody deletes between its creation and
  the opening of the file (`video_protocol.py:112-118`), whose `FileNotFoundError` the
  pool would take for a missing profile, is left out. A manual retry is a task that never rotates, which `End` allows
  after any verdict.
* *LoginJobs*: the sign-in page is an outcome: signed in, failed, timed out.
* *DurationExtension*: a payload is the list of the objects `patchValue()` reaches,
  with the arrays and fields that the patch reads; text encodings, headers, and fields
  that are present with the value null are left out. A worker stopped for idleness and
  started again is not modelled: with a session open the browser keeps it.
* *ReleaseTooling*: one command per host at a time. What a build, a smoke test or a
  verification looks at inside a runtime or an installer is an outcome that the
  artifact carries (`whole`, `good`), so that checks can only be missed, not deceived.
  The five files of the shell are written as one. `Init` has the leftovers of one
  earlier, complete build. Prereleases, which are not published, release notes and
  files that no tool looks for are left out.
* *Left out*: page selectors and scripts; SQL of keys, sessions and statistics, which is single statements on one
  connection; configuration, support bundles and web pages,
  which have no protocol state.
