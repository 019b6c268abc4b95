---------------------------- MODULE GenerationPage ----------------------------
(***************************************************************************)
(* One task on the web pages of Dola: generate_video() and resume_video()  *)
(* of src/dola_gateway/video_worker_ui.py and generate_image() of          *)
(* image_worker.py, with the reference images they are given and the       *)
(* rotation to another account that follows their verdict.                 *)
(*                                                                         *)
(* The page belongs to Dola and to the user: texts, challenges, images and *)
(* videos appear on it at any time, and the worker looks at it from time   *)
(* to time.  A text is the set of markers the expressions of               *)
(* upstream_errors.py find in it.  Time passes in rounds of the worker's   *)
(* loops, each of which may take several units.                            *)
(***************************************************************************)
EXTENDS ReferenceImages, Sequences

CONSTANTS
  Jobs,        \* [kind, refs, headless] of the tasks considered
  Texts,       \* texts Dola may write
  OldPages,    \* sets of texts that may be on a fresh page
  Images,      \* generated images a page may show
  Artwork,     \* those it may show before the prompt is sent
  Grace,       \* rounds in which a challenge is looked for (20)
  VerifyTime,  \* VIDEO_VERIFICATION_TIMEOUT
  ConvTime,    \* rounds in which the conversation is looked for (30)
  PollTime,    \* timeout of the polling
  ImageTime,   \* IMAGE_TIMEOUT
  Settle,      \* IMAGE_SETTLE_SECONDS
  MaxElapse,   \* bound: time units one round may take
  MaxTexts,    \* bound: texts Dola writes into one conversation
  MaxTries     \* bound: accounts a task moves on from

Markers == {"rejection", "daily", "credits", "unused", "risk", "duration"}
Restrictions == {"daily_limit", "credits_unavailable", "risk_control"}

ASSUME JobsAssumption ==
  Jobs \subseteq [kind : {"video", "resume", "image"}, refs : 0..MaxRefs,
                  headless : BOOLEAN]
ASSUME PagesAssumption ==
  /\ Texts \subseteq SUBSET Markers
  /\ OldPages \subseteq SUBSET Texts /\ OldPages # {}
  /\ Artwork \subseteq Images
ASSUME TimesAssumption ==
  /\ Grace \in Nat \ {0} /\ ConvTime \in Nat \ {0} /\ MaxElapse \in Nat \ {0}
  /\ VerifyTime \in Nat /\ PollTime \in Nat /\ ImageTime \in Nat /\ Settle \in Nat
  /\ MaxTexts \in Nat /\ MaxTries \in Nat

VARIABLES
  job,        \* what is to be done
  \* the page
  chat,       \* "none", the prompt "sent", "accepted", its video "delivered"
  challenge,  \* a verification frame is shown
  old,        \* texts shown before the prompt
  texts,      \* texts written since, in order
  shown,      \* generated images shown
  asked,      \* the page shows the duration the task asked for
  age,        \* observed: time since an image was first shown
  \* the worker
  stage,      \* where it stands
  left,       \* time left in its loop
  base,       \* texts and images it found before sending
  latest,     \* the images it saw last
  still,      \* time since these changed
  verdict,    \* result or error of this page, "none" while there is none
  blame,      \* the text a verdict comes from
  tries       \* accounts moved on from

page   == <<chat, challenge, old, texts, shown, asked, age>>
worker == <<stage, left, base, latest, still, verdict, blame, tries>>
vars   == <<job, page, worker, refVars>>

Video == job.kind = "video"
Image == job.kind = "image"

Verdicts == Restrictions \union
  {"none", "completed", "content_rejected", "not_started", "verification",
   "timeout", "login_expired", "missing", "error", "cancelled"}
Stages == {"refs", "opening", "composing", "typing", "grace", "verifying",
           "locating", "polling", "looking", "judging", "saving", "closing",
           "ended"}
Longest == Grace + VerifyTime + ConvTime + PollTime + ImageTime

TypeOK ==
  /\ RefTypeOK
  /\ job \in Jobs
  /\ chat \in {"none", "sent", "accepted", "delivered"}
  /\ challenge \in BOOLEAN
  /\ old \in OldPages
  /\ texts \in Seq(Texts)
  /\ shown \in SUBSET Images
  /\ asked \in BOOLEAN
  /\ age \in [Images -> 0..Settle]
  /\ stage \in Stages
  /\ left \in 0..Longest
  /\ base \in [texts : SUBSET Texts, images : SUBSET Images, read : BOOLEAN]
  /\ latest \in SUBSET Images
  /\ still \in 0..Settle
  /\ verdict \in Verdicts
  /\ blame \in Texts \union {{}}
  /\ tries \in 0..MaxTries

(* Only videos have a duration to select. *)
Preselected(j) == IF j.kind = "video" THEN BOOLEAN ELSE {TRUE}

NoBase == [texts |-> {}, images |-> {}, read |-> FALSE]

Init ==
  /\ RefInit
  /\ job \in Jobs
  /\ old \in OldPages /\ shown \in SUBSET Artwork /\ asked \in Preselected(job)
  /\ chat = IF job.kind = "resume" THEN "accepted" ELSE "none"
  /\ challenge = FALSE
  /\ texts = <<>>
  /\ age = [i \in Images |-> 0]
  /\ stage = IF job.kind = "video" THEN "refs" ELSE "opening"
  /\ left = 0
  /\ base = NoBase
  /\ latest = {} /\ still = 0
  /\ verdict = "none" /\ blame = {}
  /\ tries = 0

-----------------------------------------------------------------------------
(* classify_upstream_text(): the first rule that applies. *)
ClassifyCreditsFirst(t) ==
  IF "credits" \in t /\ "unused" \notin t THEN "credits_unavailable"
  ELSE IF "rejection" \in t THEN "content_rejected"
  ELSE IF "daily" \in t THEN "daily_limit"
  ELSE IF "risk" \in t THEN "risk_control"
  ELSE "temporary"
Classify(t) ==
  IF "rejection" \in t THEN "content_rejected"
  ELSE IF "daily" \in t THEN "daily_limit"
  ELSE IF "credits" \in t /\ "unused" \notin t THEN "credits_unavailable"
  ELSE IF "risk" \in t THEN "risk_control"
  ELSE "temporary"

(* What becomes of a text of a polled conversation.  The pool classifies   *)
(* the error about a different duration again by its text; a resumption    *)
(* does not.  Ordinary texts mean nothing.                                 *)
Ordinary(v) == v = "temporary"
PollVerdict(t) ==
  IF "duration" \in t /\ (job.kind = "resume" \/ Ordinary(Classify(t)))
  THEN "not_started" ELSE Classify(t)

Lines == old \union {texts[i] : i \in DOMAIN texts}

(* error_from_upstream_text() of the lines that are new. *)
NewLinesAnyway(lines) == lines
NewLines(lines) == lines \ base.texts

Capped(n) == IF n > Settle THEN Settle ELSE n

(* Time goes by for the worker and for the images of the page. *)
Elapse(d) ==
  /\ left' = IF d > left THEN 0 ELSE left - d
  /\ age' = [i \in Images |-> IF i \in shown \/ age[i] > 0 THEN Capped(age[i] + d) ELSE 0]

-----------------------------------------------------------------------------
(* Dola and the user, until the worker stops looking.                      *)

Dola == stage \notin {"saving", "closing", "ended"} /\ chat # "none"

(* Dola writes a text, accepts the prompt, delivers the video. *)
Write(t) ==
  /\ Dola /\ Len(texts) < MaxTexts
  /\ texts' = Append(texts, t)
  /\ UNCHANGED <<chat, challenge, old, shown, asked, age, job, worker, refVars>>

Accept ==
  /\ Dola /\ ~Image
  /\ \/ chat = "sent" /\ chat' = "accepted"
     \/ chat = "accepted" /\ chat' = "delivered"
  /\ UNCHANGED <<challenge, old, texts, shown, asked, age, job, worker, refVars>>

(* The images on the page change in any way. *)
Show(S) ==
  /\ Dola /\ Image
  /\ shown' = S
  /\ UNCHANGED <<chat, challenge, old, texts, asked, age, job, worker, refVars>>

(* A challenge appears, or the user completes it. *)
Challenge ==
  /\ Dola
  /\ challenge' = ~challenge
  /\ UNCHANGED <<chat, old, texts, shown, asked, age, job, worker, refVars>>

-----------------------------------------------------------------------------
(* The worker.                                                             *)

Goto(s) == stage' = s /\ UNCHANGED <<verdict, blame>>

(* The page is done with: its context is about to be closed. *)
Decide(v, t) == stage' = "closing" /\ verdict' = v /\ blame' = t

(* The reference images of a video, before the pool is entered. *)
DownloadReferences ==
  /\ stage = "refs"
  /\ BeginDownload(job.refs) \/ Fetch
  /\ \/ refs' \in {"none", "done"} /\ Goto("opening")
     \/ refs' = "failed" /\ Decide("error", {})
     \/ refs' = "downloading" /\ Goto("refs")
  /\ UNCHANGED <<job, page, left, base, latest, still, tries>>

(* The chat is open without a session. *)
LoggedOut == Image /\ Decide("login_expired", {})

(* The profile is launched, unless one of its paths does not exist, and    *)
(* the chat opened.  A conversation accepted earlier is only polled.       *)
Open ==
  /\ stage = "opening"
  /\ \/ job.kind # "resume" /\ Goto("composing") /\ UNCHANGED left
     \/ job.kind = "resume" /\ Goto("polling") /\ left' = PollTime
     \/ LoggedOut /\ UNCHANGED left
     \/ Video /\ Decide("missing", {}) /\ UNCHANGED left
     \/ Decide("error", {}) /\ UNCHANGED left
  /\ UNCHANGED <<job, page, base, latest, still, tries, refVars>>

(* attach_reference_images() waits for as many uploads as there are images.*)
UploadTimesOut == refs = "done" /\ Decide("timeout", {})

(* References, model and duration of a video.  The duration is selected    *)
(* unless the page shows it, and read back.                                *)
AcceptedUnread(shows) == TRUE
ReadBack(shows) == shows
ComposeVideo ==
  /\ stage = "composing" /\ Video
  /\ asked' \in IF asked THEN {TRUE} ELSE BOOLEAN
  /\ \/ ReadBack(asked') /\ Goto("typing")
     \/ ~ReadBack(asked') /\ Decide("error", {})
     \/ Decide("error", {})
     \/ UploadTimesOut
  /\ UNCHANGED <<job, chat, challenge, old, texts, shown, age, left, base, latest, still, tries, refVars>>

(* Mode, ratio and style of an image, then what is on the page: its images,*)
(* and its lines if they can be read.                                      *)
ComposeImage ==
  /\ stage = "composing" /\ Image
  /\ \/ /\ \E read \in BOOLEAN :
             base' = [texts |-> IF read THEN old ELSE {}, images |-> shown, read |-> read]
        /\ Goto("typing")
     \/ Decide("error", {}) /\ UNCHANGED base
  /\ UNCHANGED <<job, page, left, latest, still, tries, refVars>>

(* The prompt is typed and Enter is pressed. *)
Send ==
  /\ stage = "typing"
  /\ \/ /\ chat' = "sent"
        /\ Goto(IF Video THEN "grace" ELSE "looking")
        /\ left' = IF Video THEN Grace ELSE ImageTime
     \/ Decide("error", {}) /\ UNCHANGED <<chat, left>>
  /\ UNCHANGED <<job, challenge, old, texts, shown, asked, age, base, latest, still, tries, refVars>>

(* Twenty looks for a challenge. *)
WatchForChallenge ==
  /\ stage = "grace"
  /\ \/ challenge /\ Goto("verifying") /\ left' = VerifyTime
     \/ ~challenge /\ left > 1 /\ Goto("grace") /\ left' = left - 1
     \/ ~challenge /\ left = 1 /\ Goto("locating") /\ left' = ConvTime
  /\ UNCHANGED <<job, page, base, latest, still, tries, refVars>>

(* The user has until the deadline to complete it. *)
AwaitVerification ==
  /\ stage = "verifying"
  /\ \/ challenge /\ left > 0 /\ Goto("verifying") /\ left' = left - 1
     \/ challenge /\ left = 0 /\ Decide("verification", {}) /\ UNCHANGED left
     \/ ~challenge /\ Goto("locating") /\ left' = ConvTime
  /\ UNCHANGED <<job, page, base, latest, still, tries, refVars>>

(* Thirty looks for the conversation in the page's address; it is recorded *)
(* (on_conversation_id) and polled.                                        *)
Located == chat \in {"accepted", "delivered"}
LocateConversation ==
  /\ stage = "locating"
  /\ \/ Located /\ Goto("polling") /\ left' = PollTime
     \/ ~Located /\ left > 1 /\ Goto("locating") /\ left' = left - 1
     \/ ~Located /\ left = 1 /\ Decide("timeout", {}) /\ UNCHANGED left
  /\ UNCHANGED <<job, page, base, latest, still, tries, refVars>>

(* The answer of POLL_JS: the texts of the conversation, in order, and     *)
(* whether it has a finished video.  An answer that fails has neither.     *)
Answer == [texts |-> texts, video |-> chat = "delivered"]

(* poll_conversation(): the first text that means something decides,       *)
(* before any video.                                                       *)
Telling(t) == ~Ordinary(PollVerdict(t))
Poll ==
  /\ stage = "polling" /\ left > 0
  /\ \E d \in 1..MaxElapse : Elapse(d)
  /\ \/ Goto("polling")
     \/ \E i \in DOMAIN Answer.texts :
          /\ Telling(Answer.texts[i]) /\ \A j \in 1..(i - 1) : ~Telling(Answer.texts[j])
          /\ Decide(PollVerdict(Answer.texts[i]), Answer.texts[i])
     \/ /\ \A i \in DOMAIN Answer.texts : ~Telling(Answer.texts[i])
        /\ Answer.video
        /\ Goto("saving")
  /\ UNCHANGED <<job, chat, challenge, old, texts, shown, asked, base, latest, still, tries, refVars>>

PollTimeout ==
  /\ stage = "polling" /\ left = 0
  /\ Decide("timeout", {})
  /\ UNCHANGED <<job, page, left, base, latest, still, tries, refVars>>

(* _wait_for_generated_images(): first the lines of the page, if they can  *)
(* be read, and the challenge,                                             *)
ReadLines ==
  /\ stage = "looking" /\ left > 0
  /\ \E lines \in {Lines, {}} :
       \/ \E t \in NewLines(lines) :
            ~Ordinary(Classify(t)) /\ Decide(Classify(t), t)
       \/ /\ \A t \in NewLines(lines) : Ordinary(Classify(t))
          /\ \/ challenge /\ job.headless /\ Decide("verification", {})
             \/ ~(challenge /\ job.headless) /\ Goto("judging")
  /\ UNCHANGED <<job, page, left, base, latest, still, tries, refVars>>

(* then its images, which are the result when they have not changed for    *)
(* the settling time.                                                      *)
NewImages == shown \ base.images
SinceFirst(changed) == still
SinceChange(changed) == IF changed THEN 0 ELSE still
Extended(changed, d) ==
  /\ left' = IF changed THEN ImageTime ELSE IF d > left THEN 0 ELSE left - d
  /\ age' = [i \in Images |-> IF i \in shown \/ age[i] > 0 THEN Capped(age[i] + d) ELSE 0]
NextRound(changed, d) == Elapse(d)
ReadImages ==
  /\ stage = "judging"
  /\ LET changed == NewImages # {} /\ NewImages # latest IN
     /\ latest' = IF changed THEN NewImages ELSE latest
     /\ \/ /\ latest' # {} /\ SinceChange(changed) >= Settle
           /\ Goto("saving")
           /\ UNCHANGED <<left, still, age>>
        \/ /\ ~(latest' # {} /\ SinceChange(changed) >= Settle)
           /\ Goto("looking")
           /\ \E d \in 1..MaxElapse :
                /\ NextRound(changed, d)
                /\ still' = IF latest' = {} THEN 0 ELSE Capped(SinceChange(changed) + d)
  /\ UNCHANGED <<job, chat, challenge, old, texts, shown, asked, base, tries, refVars>>

LookTimeout ==
  /\ stage = "looking" /\ left = 0
  /\ IF latest # {} THEN Goto("saving") ELSE Decide("timeout", {})
  /\ UNCHANGED <<job, page, left, base, latest, still, tries, refVars>>

(* download_video(), download_generated_image() of each image. *)
Save ==
  /\ stage = "saving"
  /\ Decide("completed", {}) \/ Decide("error", {})
  /\ UNCHANGED <<job, page, left, base, latest, still, tries, refVars>>

(* Any other error of the page. *)
PageError ==
  /\ stage \in {"grace", "verifying", "locating", "polling", "looking", "judging"}
  /\ Decide("error", {})
  /\ UNCHANGED <<job, page, left, base, latest, still, tries, refVars>>

-----------------------------------------------------------------------------
(* The finally block of the task removes the references it was given. *)
Cleanup ==
  /\ dir' = IF refs = "done" THEN FALSE ELSE dir
  /\ UNCHANGED <<refs, todo, route, hops, checked>>
CleanupAfterEachPage == Cleanup
KeepReferences == UNCHANGED refVars

(* The pool moves on to another account after a restriction, an expired    *)
(* login and a missing path.                                               *)
MovesOnAfterTimeout ==
  /\ job.kind # "resume"
  /\ verdict \in Restrictions \union {"login_expired", "missing", "timeout"}
MovesOnFromAnyKind == verdict \in Restrictions \union {"login_expired", "missing"}
MovesOn ==
  /\ job.kind # "resume"
  /\ verdict \in Restrictions \union {"login_expired", "missing"}

Rotate ==
  /\ stage = "closing" /\ MovesOn /\ tries < MaxTries
  /\ tries' = tries + 1
  /\ stage' = "opening" /\ verdict' = "none" /\ blame' = {}
  /\ old' \in OldPages /\ shown' \in SUBSET Artwork /\ asked' \in Preselected(job)
  /\ chat' = "none" /\ challenge' = FALSE /\ texts' = <<>>
  /\ age' = [i \in Images |-> 0]
  /\ left' = 0 /\ base' = NoBase /\ latest' = {} /\ still' = 0
  /\ KeepReferences
  /\ UNCHANGED job

(* The task ends with the verdict of its last page. *)
End ==
  /\ stage = "closing"
  /\ stage' = "ended"
  /\ Cleanup
  /\ UNCHANGED <<job, page, left, base, latest, still, verdict, blame, tries>>

(* The process is shut down and the task cancelled. *)
Cancel ==
  /\ stage \notin {"closing", "ended"}
  /\ Decide("cancelled", {})
  /\ UNCHANGED <<job, page, left, base, latest, still, tries, refVars>>

-----------------------------------------------------------------------------
Work ==
  \/ DownloadReferences \/ Open \/ ComposeVideo \/ ComposeImage \/ Send
  \/ WatchForChallenge \/ AwaitVerification \/ LocateConversation
  \/ Poll \/ PollTimeout \/ ReadLines \/ ReadImages \/ LookTimeout
  \/ Save \/ PageError \/ Rotate \/ End

Next ==
  \/ Work \/ Cancel \/ Accept \/ Challenge
  \/ \E t \in Texts : Write(t)
  \/ \E S \in SUBSET Images : Show(S)

Spec == Init /\ [][Next]_vars

(* The event loop resumes the worker, whose waits all have deadlines.  Dola*)
(* and the user owe it nothing.                                            *)
FairSpec == Spec /\ WF_vars(Work)

-----------------------------------------------------------------------------
(* A task is judged by what its own prompt has brought about: a line the   *)
(* page showed before it, and that could be read then, is never blamed,    *)
(* and an account is not restricted by a text that rejects the content     *)
(* (image_worker.py:142, upstream_errors.py:58-61).                        *)
VerdictEarned ==
  verdict \in Restrictions \union {"content_rejected"} =>
    /\ Image /\ base.read => blame \notin old
    /\ verdict \in Restrictions => "rejection" \notin blame

(* No video is ordered with another duration than the task asked for,      *)
(* whatever the page preselects and whether or not a selection sticks      *)
(* (video_worker_ui.py:366).                                               *)
PromptMatchesRequest == Video /\ chat # "none" => asked

(* An image result that is not forced by the deadline is complete and      *)
(* settled: the page shows no further new image at that moment, and none   *)
(* of the result is younger than the settling time, although images come   *)
(* one by one and may disappear (image_worker.py:162-168).                 *)
SettledResult ==
  [][stage = "judging" /\ stage' = "saving" =>
       /\ NewImages \subseteq latest'
       /\ \A i \in latest' : age[i] >= Settle]_vars

(* "do not re-submit because Dola may already be processing it"            *)
(* (browser_pool.py:556): a prompt that was sent is sent again, on another *)
(* account, only when Dola has written a restriction since.  A challenge   *)
(* nobody completed, a conversation that was not found, a deadline or an   *)
(* error of the page leave it in Dola's hands (video_worker_ui.py:403,     *)
(* 415, 245).  A page whose lines could not be read before is the          *)
(* exception.                                                              *)
SentAgainOnlyIfRefused ==
  [][stage = "closing" /\ stage' = "opening" /\ chat # "none" =>
       /\ verdict \in Restrictions
       /\ Video \/ base.read => \E i \in DOMAIN texts : blame = texts[i]]_vars

(* The reference images are there as long as any account may still need    *)
(* them, and gone when the task has ended; only a shutdown in the middle   *)
(* of their download leaves them behind (server.py:539-541,                *)
(* media.py:159-163).                                                      *)
ReferenceFilesScoped ==
  /\ refs = "done" /\ stage # "ended" => dir
  /\ stage = "ended" /\ dir => verdict = "cancelled" /\ refs = "downloading"

(* The page takes its turn on the accounts as AccountUse says: a prompt is *)
(* sent from an open page only, a resumption types nothing and never       *)
(* leaves its account, a result is a result of something sent, and the     *)
(* verdicts that move on are never final successes (video_worker_ui.py,    *)
(* image_worker.py, browser_pool.py:424-468).                              *)
OnPage == {"grace", "verifying", "locating", "polling", "looking", "judging", "saving"}
UseNow ==
  CASE stage \in {"refs", "opening"}     -> "waiting"
    [] stage \in {"composing", "typing"} -> "open"
    [] stage \in OnPage                  -> "sent"
    [] stage = "closing" /\ MovesOn      -> IF chat = "none" THEN "open" ELSE "sent"
    [] OTHER -> IF verdict = "completed" THEN "completed" ELSE "failed"
Turn == INSTANCE AccountUse WITH
          kind <- IF job.kind = "resume" THEN "resume" ELSE "new", use <- UseNow
TakesTurn == Turn!Spec

(* What the worker has before it on one account, at most: the rounds of    *)
(* its loops and the steps between them.                                   *)
AheadFrom(s, n) ==
  CASE s = "ended"     -> 0
    [] s = "closing"   -> 1
    [] s = "saving"    -> 2
    [] s = "polling"   -> n + 3
    [] s = "locating"  -> n + PollTime + 4
    [] s = "verifying" -> n + ConvTime + PollTime + 5
    [] s = "grace"     -> n + VerifyTime + ConvTime + PollTime + 6
    [] s = "judging"   -> 2 * n + 2
    [] s = "looking"   -> 2 * n + 3
    [] s = "typing"    -> 2 * Longest + 7
    [] s = "composing" -> 2 * Longest + 8
    [] s = "opening"   -> 2 * Longest + 9
    [] s = "refs"      -> 2 * Longest + 10
Ahead == AheadFrom(stage, left)

(* The same of a download: images, routes of one, requests on a route. *)
DownloadAdvances ==
  \/ refs = "idle" /\ refs' # "idle"
  \/ /\ refs' = refs
     /\ \/ todo' < todo
        \/ todo' = todo /\ route' > route
        \/ todo' = todo /\ route' = route /\ ~checked /\ checked'
        \/ todo' = todo /\ route' = route /\ checked' = checked /\ hops' > hops

Advances ==
  \/ tries' > tries
  \/ tries' = tries /\ Ahead' < Ahead
  \/ tries' = tries /\ Ahead' = Ahead /\ stage = "refs" /\ DownloadAdvances

(* Nothing winds a task back: every step of its worker brings its end      *)
(* nearer, whatever changes on the page it looks at, and no change of the  *)
(* page takes it further away.  No loop starts its deadline anew           *)
(* (video_worker_ui.py:218, 399, image_worker.py:133, media.py:110-157).   *)
NeverWoundBack ==
  [][/\ Work => Advances
     /\ Advances \/ UNCHANGED <<stage, left, tries, refVars>>]_vars

(* Every task ends, however challenges come and go, images change and      *)
(* polls fail: each loop has its deadline (video_worker_ui.py:218, 399,    *)
(* image_worker.py:133).                                                   *)
EveryGenerationEnds == <>(stage = "ended")
=============================================================================
