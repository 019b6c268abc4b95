------------------------- MODULE GenerationPageProofs -------------------------
(***************************************************************************)
(* Proofs about GenerationPage, for any tasks, texts, images and times.    *)
(*                                                                         *)
(* What the properties need to be inductive is where the worker stands     *)
(* (Position): a verdict exists only once the page is being closed, an     *)
(* image never comes to the stages of a video, nothing is sent before the  *)
(* typing, and a download that nobody waits for any more was cancelled.    *)
(***************************************************************************)
EXTENDS GenerationPage, TLAPS

Position ==
  /\ verdict = "none" <=> stage \notin {"closing", "ended"}
  /\ stage \in {"grace", "verifying", "locating", "polling"} => ~Image
  /\ job.kind # "resume" /\ stage \in {"refs", "opening", "composing", "typing"} =>
       chat = "none"
  /\ Video /\ stage = "typing" => asked

(* The baseline is what the page showed, or was not read. *)
BaseIsOld == base.read => base.texts = old

References ==
  /\ dir <=> refs \in {"downloading", "done"} /\ ~(stage = "ended" /\ refs = "done")
  /\ stage = "refs" => refs \in {"idle", "downloading"}
  /\ refs = "downloading" => todo > 0
  /\ refs = "downloading" /\ stage # "refs" => verdict = "cancelled"

IInv ==
  /\ TypeOK
  /\ Position
  /\ BaseIsOld
  /\ References
  /\ VerdictEarned
  /\ PromptMatchesRequest

-----------------------------------------------------------------------------
LEMMA Initial == Init => IInv
<1> SUFFICES ASSUME Init PROVE IInv
  OBVIOUS
<1>1. RefTypeOK
  <2>1. 0 \in 0..MaxRefs /\ 0 \in 0..MaxRequests /\ 1 \in 1..NumRoutes
    BY ReferenceAssumption
  <2>2. QED
    BY <2>1 DEF Init, RefInit, RefTypeOK
<1>2. TypeOK
  <2>1. job \in Jobs /\ old \in OldPages /\ shown \in SUBSET Images /\ asked \in BOOLEAN
    BY PagesAssumption DEF Init, Preselected
  <2>2. texts \in Seq(Texts) /\ age \in [Images -> 0..Settle] /\ still \in 0..Settle
    BY TimesAssumption DEF Init
  <2>3. left \in 0..Longest /\ tries \in 0..MaxTries
    BY TimesAssumption DEF Init, Longest
  <2>4. base \in [texts : SUBSET Texts, images : SUBSET Images, read : BOOLEAN]
    BY DEF Init, NoBase
  <2>5. QED
    BY <1>1, <2>1, <2>2, <2>3, <2>4 DEF Init, TypeOK, Stages, Verdicts
<1>3. Position /\ BaseIsOld /\ References
  BY DEF Init, RefInit, Position, BaseIsOld, References, NoBase, Image, Video
<1>4. VerdictEarned /\ PromptMatchesRequest
  BY DEF Init, VerdictEarned, PromptMatchesRequest, Restrictions, Video
<1>5. QED
  BY <1>2, <1>3, <1>4 DEF IInv

-----------------------------------------------------------------------------
(* What the steps have in common.                                          *)

(* Time only runs out, and no image is counted older than settled. *)
LEMMA ElapseTypes ==
  ASSUME TypeOK, NEW d \in 1..MaxElapse, Elapse(d)
  PROVE  left' \in 0..Longest /\ age' \in [Images -> 0..Settle]
<1>1. left \in 0..Longest /\ d \in Nat /\ Longest \in Nat /\ Settle \in Nat
  BY TimesAssumption DEF TypeOK, Longest
<1>2. left' \in 0..Longest
  BY <1>1 DEF Elapse
<1>3. ASSUME NEW i \in Images
      PROVE  (IF i \in shown \/ age[i] > 0 THEN Capped(age[i] + d) ELSE 0) \in 0..Settle
  <2>1. age[i] \in 0..Settle
    BY DEF TypeOK
  <2>2. QED
    BY <1>1, <2>1 DEF Capped
<1>4. QED
  BY <1>2, <1>3 DEF Elapse

(* The steps of Dola and the user change the page, never what the worker   *)
(* has concluded.                                                          *)
LEMMA DolaStep ==
  ASSUME IInv,
         Accept \/ Challenge \/ (\E t \in Texts : Write(t)) \/ (\E S \in SUBSET Images : Show(S))
  PROVE  IInv'
<1> USE DEF IInv
<1>1. UNCHANGED <<job, old, asked, age, stage, left, base, latest, still, verdict, blame, tries>>
      /\ UNCHANGED refVars
  BY DEF Accept, Challenge, Write, Show, worker
<1>2. RefTypeOK' /\ References'
  BY <1>1 DEF TypeOK, RefTypeOK, References, refVars
<1>3. /\ chat' \in {"none", "sent", "accepted", "delivered"}
      /\ challenge' \in BOOLEAN
      /\ shown' \in SUBSET Images
  BY DEF TypeOK, Accept, Challenge, Write, Show
<1>4. TypeOK'
  <2>1. texts \in Seq(Texts)
    BY DEF TypeOK
  <2>2. UNCHANGED texts \/ \E t \in Texts : texts' = Append(texts, t)
    BY DEF Accept, Challenge, Write, Show
  <2>3. texts' \in Seq(Texts)
    BY <2>1, <2>2
  <2>4. QED
    BY <1>1, <1>2, <1>3, <2>3 DEF TypeOK
<1>5. chat = "none" => chat' = "none"
  BY DEF Accept, Challenge, Write, Show, Dola
<1>6. chat' = "none" => chat = "none"
  BY DEF Accept, Challenge, Write, Show, Dola
<1>7. Position' /\ BaseIsOld' /\ VerdictEarned' /\ PromptMatchesRequest'
  BY <1>1, <1>5, <1>6 DEF Position, BaseIsOld, VerdictEarned, PromptMatchesRequest, Video, Image
<1>8. QED
  BY <1>2, <1>4, <1>7

(* A step of the worker on its page: it goes on to another stage without a *)
(* verdict, or it reaches one.                                             *)
PageStep ==
  /\ stage \notin {"refs", "closing", "ended"}
  /\ UNCHANGED <<job, old, texts, tries, refVars>>
  /\ \/ stage' \notin {"refs", "closing", "ended"} /\ UNCHANGED <<verdict, blame>>
     \/ stage' = "closing" /\ verdict' # "none"

LEMMA PageStepReferences ==
  ASSUME IInv, PageStep
  PROVE  RefTypeOK' /\ References'
<1>1. UNCHANGED <<refs, todo, route, hops, checked, dir>> /\ stage' # "ended" /\ stage' # "refs"
  BY DEF PageStep, refVars
<1>2. refs # "downloading" /\ stage # "ended"
  BY DEF PageStep, IInv, References, Position
<1>3. QED
  BY <1>1, <1>2 DEF RefTypeOK, TypeOK, References, IInv

(* The stages in which a step does not look at a text. *)
LEMMA PlainStep ==
  ASSUME IInv, PageStep,
         UNCHANGED <<chat, asked, base>>,
         verdict' \notin Restrictions \union {"content_rejected"},
         stage' \in {"grace", "verifying", "locating", "polling"} => ~Image,
         stage' \notin {"opening", "typing"},
         stage' = "composing" => stage = "opening"
  PROVE  Position' /\ BaseIsOld' /\ VerdictEarned' /\ PromptMatchesRequest'
<1>1. UNCHANGED <<job, old>>
  BY DEF PageStep
<1>2. BaseIsOld' /\ PromptMatchesRequest' /\ VerdictEarned'
  BY <1>1 DEF IInv, BaseIsOld, PromptMatchesRequest, VerdictEarned, Video
<1>3. Position'
  BY <1>1 DEF IInv, Position, PageStep, Video, Image
<1>4. QED
  BY <1>2, <1>3

-----------------------------------------------------------------------------
(* The steps of the worker, one lemma for each kind.                       *)

LEMMA DownloadStep ==
  ASSUME IInv, DownloadReferences
  PROVE  IInv'
<1> USE DEF IInv
<1>1. /\ stage = "refs" /\ verdict = "none"
      /\ UNCHANGED <<job, chat, challenge, old, texts, shown, asked, age, left, base, latest, still, tries>>
  BY DEF DownloadReferences, Position, page
<1>2. BeginDownload(job.refs) \/ Fetch
  BY DEF DownloadReferences
<1>3. RefTypeOK'
  <2>1. MaxRefs \in Nat /\ NumRoutes \in Nat /\ NumRoutes > 0 /\ MaxRequests \in Nat
    BY ReferenceAssumption
  <2>2. /\ job.refs \in 0..MaxRefs
        /\ todo \in 0..MaxRefs /\ route \in 1..NumRoutes /\ hops \in 0..MaxRequests
        /\ checked \in BOOLEAN /\ dir \in BOOLEAN
        /\ refs = "downloading" => todo > 0
    BY JobsAssumption DEF TypeOK, RefTypeOK, References
  <2>3. /\ refs' \in {"none", "downloading", "done", "failed"}
        /\ checked' \in BOOLEAN /\ dir' \in BOOLEAN
    BY <1>2, <2>2 DEF BeginDownload, Fetch, OpenRoute, Request, RouteFailed, NextRoute, Abandon
  <2>4. todo' \in 0..MaxRefs /\ route' \in 1..NumRoutes /\ hops' \in 0..MaxRequests
    BY <1>2, <2>1, <2>2 DEF BeginDownload, Fetch, OpenRoute, Request, RouteFailed, NextRoute, Abandon
  <2>5. QED
    BY <2>3, <2>4 DEF RefTypeOK
<1>4. /\ dir' <=> refs' \in {"downloading", "done"}
      /\ refs' = "downloading" => todo' > 0
  <2>1. job.refs \in Nat /\ todo \in Nat
    BY JobsAssumption, ReferenceAssumption DEF TypeOK, RefTypeOK
  <2>2. QED
    BY <1>1, <1>2, <2>1 DEF BeginDownload, Fetch, OpenRoute, Request, RouteFailed, NextRoute,
                            Abandon, References
<1>5. \/ refs' \in {"none", "done"} /\ stage' = "opening" /\ UNCHANGED <<verdict, blame>>
      \/ refs' = "failed" /\ stage' = "closing" /\ verdict' = "error" /\ blame' = {}
      \/ refs' = "downloading" /\ stage' = "refs" /\ UNCHANGED <<verdict, blame>>
  BY DEF DownloadReferences, Goto, Decide
<1>6. TypeOK'
  BY <1>1, <1>3, <1>5 DEF TypeOK, Stages, Verdicts
<1>7. Position'
  BY <1>1, <1>5 DEF Position, Video, Image
<1>8. BaseIsOld' /\ VerdictEarned' /\ PromptMatchesRequest'
  BY <1>1, <1>5 DEF BaseIsOld, VerdictEarned, PromptMatchesRequest, Restrictions, Video, Image
<1>9. References'
  BY <1>4, <1>5 DEF References
<1>10. QED
  BY <1>6, <1>7, <1>8, <1>9

(* Steps that look at no text and order nothing. *)
LEMMA OpenStep ==
  ASSUME IInv, Open
  PROVE  IInv'
<1>1. PageStep /\ UNCHANGED <<chat, challenge, shown, asked, age, base, latest, still>>
  BY DEF Open, LoggedOut, Goto, Decide, PageStep, page
<1>2. left' \in 0..Longest /\ stage' \in Stages /\ verdict' \in Verdicts /\ blame' \in Texts \union {{}}
  BY TimesAssumption DEF Open, LoggedOut, Goto, Decide, IInv, TypeOK, Longest, Stages, Verdicts
<1>3. RefTypeOK' /\ References'
  BY <1>1, PageStepReferences
<1>4. TypeOK'
  BY <1>1, <1>2, <1>3 DEF IInv, TypeOK, PageStep
<1>5. Position' /\ BaseIsOld' /\ VerdictEarned' /\ PromptMatchesRequest'
  BY <1>1, PlainStep DEF Open, LoggedOut, Goto, Decide, Restrictions, Image, IInv, VerdictEarned, Position
<1>6. QED
  BY <1>3, <1>4, <1>5 DEF IInv

LEMMA ComposeVideoStep ==
  ASSUME IInv, ComposeVideo
  PROVE  IInv'
<1>1. PageStep /\ UNCHANGED <<chat, challenge, shown, age, left, base, latest, still>>
      /\ chat = "none" /\ Video
  BY DEF ComposeVideo, UploadTimesOut, Goto, Decide, PageStep, IInv, Position, Video
<1>2. /\ asked' \in BOOLEAN /\ stage' \in Stages
      /\ verdict' \in Verdicts \ (Restrictions \union {"content_rejected"})
      /\ blame' \in Texts \union {{}}
      /\ (stage' = "typing" /\ asked') \/ stage' = "closing"
  BY DEF ComposeVideo, UploadTimesOut, ReadBack, Goto, Decide, IInv, TypeOK, Stages, Verdicts, Restrictions, Position
<1>3. RefTypeOK' /\ References'
  BY <1>1, PageStepReferences
<1>4. TypeOK'
  BY <1>1, <1>2, <1>3 DEF IInv, TypeOK, PageStep
<1>5. Position' /\ BaseIsOld' /\ VerdictEarned' /\ PromptMatchesRequest'
  BY <1>1, <1>2 DEF IInv, PageStep, Position, BaseIsOld, VerdictEarned, PromptMatchesRequest, Video, Image
<1>6. QED
  BY <1>3, <1>4, <1>5 DEF IInv

LEMMA ComposeImageStep ==
  ASSUME IInv, ComposeImage
  PROVE  IInv'
<1>1. PageStep /\ UNCHANGED <<chat, challenge, shown, asked, age, left, latest, still>> /\ Image
  BY DEF ComposeImage, Goto, Decide, PageStep, page
<1>2. /\ stage' \in Stages
      /\ verdict' \in Verdicts \ (Restrictions \union {"content_rejected"})
      /\ blame' \in Texts \union {{}}
      /\ stage' \in {"typing", "closing"}
  BY DEF ComposeImage, Goto, Decide, IInv, TypeOK, Stages, Verdicts, Restrictions, Position
<1>3. base' \in [texts : SUBSET Texts, images : SUBSET Images, read : BOOLEAN] /\ BaseIsOld'
  <2>1. old \in SUBSET Texts /\ shown \in SUBSET Images /\ UNCHANGED old
    BY <1>1, PagesAssumption DEF IInv, TypeOK, PageStep
  <2>2. CASE UNCHANGED base
    BY <2>1, <2>2 DEF IInv, TypeOK, BaseIsOld
  <2>3. ASSUME NEW read \in BOOLEAN,
               base' = [texts |-> IF read THEN old ELSE {}, images |-> shown, read |-> read]
        PROVE  base' \in [texts : SUBSET Texts, images : SUBSET Images, read : BOOLEAN] /\ BaseIsOld'
    BY <2>1, <2>3 DEF BaseIsOld
  <2>4. QED
    BY <2>2, <2>3 DEF ComposeImage
<1>4. RefTypeOK' /\ References'
  BY <1>1, PageStepReferences
<1>5. TypeOK'
  BY <1>1, <1>2, <1>3, <1>4 DEF IInv, TypeOK, PageStep
<1>6. Position'
  BY <1>1, <1>2 DEF IInv, PageStep, Position, Video, Image, ComposeImage
<1>7. VerdictEarned' /\ PromptMatchesRequest'
  BY <1>1, <1>2 DEF IInv, PageStep, VerdictEarned, PromptMatchesRequest, Video
<1>8. QED
  BY <1>3, <1>4, <1>5, <1>6, <1>7 DEF IInv

LEMMA SendStep ==
  ASSUME IInv, Send
  PROVE  IInv'
<1>1. PageStep /\ UNCHANGED <<challenge, shown, asked, age, base, latest, still>>
  BY DEF Send, Goto, Decide, PageStep
<1>2. /\ stage' \in Stages /\ left' \in 0..Longest
      /\ chat' \in {"none", "sent", "accepted", "delivered"}
      /\ verdict' \in Verdicts \ (Restrictions \union {"content_rejected"})
      /\ blame' \in Texts \union {{}}
      /\ stage' \in {"grace", "looking", "closing"}
      /\ stage' = "grace" => ~Image
  BY TimesAssumption DEF Send, Goto, Decide, IInv, TypeOK, Stages, Verdicts, Restrictions,
                         Longest, Position, Video, Image
<1>3. RefTypeOK' /\ References'
  BY <1>1, PageStepReferences
<1>4. TypeOK'
  BY <1>1, <1>2, <1>3 DEF IInv, TypeOK, PageStep
<1>5. Video => asked
  BY DEF Send, IInv, Position
<1>6. Position' /\ BaseIsOld' /\ VerdictEarned' /\ PromptMatchesRequest'
  BY <1>1, <1>2, <1>5 DEF IInv, PageStep, Position, BaseIsOld, VerdictEarned, PromptMatchesRequest,
                          Video, Image
<1>7. QED
  BY <1>3, <1>4, <1>6 DEF IInv

(* The loops of a video before its polling, the deadlines and the download.*)
LEMMA WaitingStep ==
  ASSUME IInv,
         \/ WatchForChallenge \/ AwaitVerification \/ LocateConversation
         \/ PollTimeout \/ LookTimeout \/ Save \/ PageError
  PROVE  IInv'
<1>1. PageStep /\ UNCHANGED <<chat, challenge, shown, asked, age, base, latest, still>>
  BY DEF WatchForChallenge, AwaitVerification, LocateConversation, PollTimeout, LookTimeout,
         Save, PageError, Goto, Decide, PageStep, page
<1>2. /\ stage' \in Stages \ {"opening", "composing", "typing"}
      /\ stage' \in {"grace", "verifying", "locating", "polling"} => ~Image
      /\ verdict' \in Verdicts \ (Restrictions \union {"content_rejected"})
      /\ blame' \in Texts \union {{}}
  BY DEF WatchForChallenge, AwaitVerification, LocateConversation, PollTimeout, LookTimeout,
         Save, PageError, Goto, Decide, IInv, Position, TypeOK, Stages, Verdicts, Restrictions
<1>3. left' \in 0..Longest
  <2>1. left \in 0..Longest /\ Longest \in Nat /\ VerifyTime \in 0..Longest
        /\ ConvTime \in 0..Longest /\ PollTime \in 0..Longest
    BY TimesAssumption DEF IInv, TypeOK, Longest
  <2>2. QED
    BY <2>1 DEF WatchForChallenge, AwaitVerification, LocateConversation, PollTimeout, LookTimeout,
                Save, PageError
<1>4. RefTypeOK' /\ References'
  BY <1>1, PageStepReferences
<1>5. TypeOK'
  BY <1>1, <1>2, <1>3, <1>4 DEF IInv, TypeOK, PageStep
<1>6. Position' /\ BaseIsOld' /\ VerdictEarned' /\ PromptMatchesRequest'
  BY <1>1, <1>2, PlainStep
<1>7. QED
  BY <1>4, <1>5, <1>6 DEF IInv

(* A text that restricts an account does not reject the content. *)
LEMMA ClassifyKinds ==
  ASSUME NEW t
  PROVE  /\ Classify(t) \in Restrictions \union {"content_rejected", "temporary"}
         /\ Classify(t) \in Restrictions => "rejection" \notin t
         /\ PollVerdict(t) \in {Classify(t), "not_started"}
BY DEF Classify, PollVerdict, Restrictions

LEMMA PollStep ==
  ASSUME IInv, Poll
  PROVE  IInv'
<1>1. PageStep /\ UNCHANGED <<chat, challenge, shown, asked, base, latest, still>> /\ ~Image
  BY ClassifyKinds DEF Poll, Answer, Goto, Decide, PageStep, IInv, Position, Telling, Ordinary, Restrictions
<1>2. left' \in 0..Longest /\ age' \in [Images -> 0..Settle]
  BY ElapseTypes DEF Poll, IInv
<1>3. verdict = "none" /\ blame \in Texts \union {{}}
  BY DEF Poll, IInv, Position, TypeOK
<1>4. RefTypeOK' /\ References'
  BY <1>1, PageStepReferences
<1>5. /\ stage' \in {"polling", "saving", "closing"}
      /\ verdict' \in Verdicts /\ blame' \in Texts \union {{}}
      /\ stage' # "closing" => verdict' = "none"
      /\ stage' = "closing" => verdict' # "none"
      /\ verdict' \in Restrictions => "rejection" \notin blame'
  <2>1. CASE Goto("polling") \/ Goto("saving")
    BY <1>3, <2>1 DEF Goto, Verdicts, Restrictions
  <2>2. ASSUME NEW i \in DOMAIN texts, Telling(texts[i]), Decide(PollVerdict(texts[i]), texts[i])
        PROVE  /\ stage' = "closing"
               /\ verdict' \in Verdicts \ {"none"} /\ blame' \in Texts
               /\ verdict' \in Restrictions => "rejection" \notin blame'
    <3>1. texts[i] \in Texts
      BY <2>2 DEF IInv, TypeOK
    <3>2. verdict' \in Restrictions \union {"content_rejected", "not_started"}
          /\ (verdict' \in Restrictions => "rejection" \notin texts[i])
      BY <2>2, ClassifyKinds DEF Telling, Ordinary, Decide, Restrictions
    <3>3. stage' = "closing" /\ blame' = texts[i]
      BY <2>2 DEF Decide
    <3>4. verdict' \in Verdicts \ {"none"}
      BY <3>2 DEF Verdicts, Restrictions
    <3>5. QED
      BY <3>1, <3>2, <3>3, <3>4
  <2>3. QED
    BY <2>1, <2>2 DEF Poll, Answer
<1>6. TypeOK'
  BY <1>1, <1>2, <1>4, <1>5 DEF IInv, TypeOK, PageStep, Stages
<1>7. VerdictEarned' /\ Position' /\ BaseIsOld' /\ PromptMatchesRequest'
  BY <1>1, <1>5 DEF IInv, PageStep, VerdictEarned, Position, BaseIsOld, PromptMatchesRequest,
                    Video, Image
<1>8. QED
  BY <1>4, <1>6, <1>7 DEF IInv

LEMMA ReadLinesStep ==
  ASSUME IInv, ReadLines
  PROVE  IInv'
<1>1. PageStep /\ UNCHANGED <<chat, challenge, shown, asked, age, left, base, latest, still>>
  BY ClassifyKinds DEF ReadLines, Goto, Decide, PageStep, page, Ordinary, Restrictions
<1>2. Lines \in SUBSET Texts
  <2>1. old \in SUBSET Texts /\ texts \in Seq(Texts)
    BY PagesAssumption DEF IInv, TypeOK
  <2>2. \A i \in DOMAIN texts : texts[i] \in Texts
    BY <2>1
  <2>3. QED
    BY <2>1, <2>2 DEF Lines
<1>3. \/ stage' = "judging" /\ UNCHANGED <<verdict, blame>>
      \/ stage' = "closing" /\ verdict' = "verification" /\ blame' = {}
      \/ \E t \in Texts \ base.texts :
           /\ stage' = "closing" /\ blame' = t
           /\ verdict' \in Restrictions \union {"content_rejected"}
           /\ verdict' \in Restrictions => "rejection" \notin t
  <2>1. ASSUME NEW lines \in {Lines, {}}, NEW t \in NewLines(lines),
               ~Ordinary(Classify(t)), Decide(Classify(t), t)
        PROVE  \E u \in Texts \ base.texts :
                 /\ stage' = "closing" /\ blame' = u
                 /\ verdict' \in Restrictions \union {"content_rejected"}
                 /\ verdict' \in Restrictions => "rejection" \notin u
    BY <1>2, <2>1, ClassifyKinds DEF NewLines, Ordinary, Decide
  <2>2. CASE Goto("judging") \/ Decide("verification", {})
    BY <2>2 DEF Goto, Decide
  <2>3. QED
    BY <2>1, <2>2 DEF ReadLines
<1>4. RefTypeOK' /\ References'
  BY <1>1, PageStepReferences
<1>5. TypeOK'
  BY <1>1, <1>3, <1>4 DEF IInv, TypeOK, PageStep, Stages, Verdicts
<1>6. VerdictEarned'
  BY <1>1, <1>3 DEF IInv, PageStep, VerdictEarned, BaseIsOld, Image, Restrictions
<1>7. Position' /\ BaseIsOld' /\ PromptMatchesRequest'
  BY <1>1, <1>3 DEF IInv, PageStep, Position, BaseIsOld, PromptMatchesRequest, Video, Image, Restrictions
<1>8. QED
  BY <1>4, <1>5, <1>6, <1>7 DEF IInv

LEMMA ReadImagesStep ==
  ASSUME IInv, ReadImages
  PROVE  IInv'
<1>1. PageStep /\ UNCHANGED <<chat, challenge, shown, asked, base, verdict, blame>>
      /\ stage' \in {"saving", "looking"}
  BY DEF ReadImages, Goto, PageStep
<1>2. latest' \in SUBSET Images
  BY DEF ReadImages, NewImages, IInv, TypeOK
<1>3. left' \in 0..Longest /\ age' \in [Images -> 0..Settle]
  <2>1. CASE UNCHANGED <<left, age>>
    BY <2>1 DEF IInv, TypeOK
  <2>2. ASSUME NEW d \in 1..MaxElapse, Elapse(d)
        PROVE  left' \in 0..Longest /\ age' \in [Images -> 0..Settle]
    BY <2>2, ElapseTypes DEF IInv
  <2>3. QED
    BY <2>1, <2>2 DEF ReadImages, NextRound
<1>4. still' \in 0..Settle
  <2>1. still \in 0..Settle /\ Settle \in Nat /\ MaxElapse \in Nat
    BY TimesAssumption DEF IInv, TypeOK
  <2>2. \A n \in Nat : Capped(n) \in 0..Settle
    BY <2>1 DEF Capped
  <2>3. CASE UNCHANGED still
    BY <2>1, <2>3
  <2>4. ASSUME NEW changed, NEW d \in 1..MaxElapse,
               still' = IF latest' = {} THEN 0 ELSE Capped(SinceChange(changed) + d)
        PROVE  still' \in 0..Settle
    <3> DEFINE sum == SinceChange(changed) + d
    <3>1. sum \in Nat
      BY <2>1 DEF SinceChange
    <3> HIDE DEF sum
    <3>2. Capped(sum) \in 0..Settle
      BY <2>2, <3>1
    <3>3. still' = IF latest' = {} THEN 0 ELSE Capped(sum)
      BY <2>4 DEF sum
    <3>4. QED
      BY <2>1, <3>2, <3>3
  <2>5. QED
    BY <2>3, <2>4 DEF ReadImages
<1>5. RefTypeOK' /\ References'
  BY <1>1, PageStepReferences
<1>6. TypeOK'
  BY <1>1, <1>2, <1>3, <1>4, <1>5 DEF IInv, TypeOK, PageStep, Stages
<1>7. Position' /\ BaseIsOld' /\ VerdictEarned' /\ PromptMatchesRequest'
  BY <1>1, PlainStep DEF ReadImages, IInv, Position, Restrictions
<1>8. QED
  BY <1>5, <1>6, <1>7 DEF IInv

(* Another account: a fresh page, the references as they are. *)
LEMMA RotateStep ==
  ASSUME IInv, Rotate
  PROVE  IInv'
<1>1. /\ stage = "closing" /\ stage' = "opening" /\ verdict' = "none" /\ blame' = {}
      /\ chat' = "none" /\ base' = NoBase /\ UNCHANGED job
      /\ UNCHANGED <<refs, todo, route, hops, checked, dir>>
  BY DEF Rotate, KeepReferences, refVars
<1>2. refs # "downloading"
  BY <1>1 DEF IInv, References, Rotate, MovesOn, Restrictions
<1>3. RefTypeOK' /\ References'
  BY <1>1, <1>2 DEF IInv, TypeOK, RefTypeOK, References
<1>4. TypeOK'
  <2>1. old' \in OldPages /\ shown' \in SUBSET Images /\ asked' \in BOOLEAN /\ challenge' \in BOOLEAN
    BY PagesAssumption DEF Rotate, Preselected
  <2>2. texts' \in Seq(Texts) /\ age' \in [Images -> 0..Settle] /\ still' \in 0..Settle
        /\ latest' \in SUBSET Images
    BY TimesAssumption DEF Rotate
  <2>3. left' \in 0..Longest /\ tries' \in 0..MaxTries
    BY TimesAssumption DEF Rotate, Longest, IInv, TypeOK
  <2>4. base' \in [texts : SUBSET Texts, images : SUBSET Images, read : BOOLEAN]
    BY <1>1 DEF NoBase
  <2>5. QED
    BY <1>1, <1>3, <2>1, <2>2, <2>3, <2>4 DEF IInv, TypeOK, Stages, Verdicts
<1>5. Position' /\ BaseIsOld' /\ VerdictEarned' /\ PromptMatchesRequest'
  BY <1>1 DEF Position, BaseIsOld, VerdictEarned, PromptMatchesRequest, NoBase, Restrictions,
              Video, Image
<1>6. QED
  BY <1>3, <1>4, <1>5 DEF IInv

(* The end keeps the verdict and removes the references. *)
LEMMA EndStep ==
  ASSUME IInv, End
  PROVE  IInv'
<1>1. /\ stage = "closing" /\ stage' = "ended"
      /\ UNCHANGED <<job, chat, challenge, old, texts, shown, asked, age, left, base, latest, still,
                     verdict, blame, tries>>
      /\ dir' = (IF refs = "done" THEN FALSE ELSE dir)
      /\ UNCHANGED <<refs, todo, route, hops, checked>>
  BY DEF End, Cleanup, page
<1>2. RefTypeOK' /\ References'
  BY <1>1 DEF IInv, TypeOK, RefTypeOK, References
<1>3. TypeOK'
  BY <1>1, <1>2 DEF IInv, TypeOK, Stages
<1>4. Position' /\ BaseIsOld' /\ VerdictEarned' /\ PromptMatchesRequest'
  BY <1>1 DEF IInv, Position, BaseIsOld, VerdictEarned, PromptMatchesRequest, Video, Image
<1>5. QED
  BY <1>2, <1>3, <1>4 DEF IInv

(* A cancelled download is the one that leaves its directory behind. *)
LEMMA CancelStep ==
  ASSUME IInv, Cancel
  PROVE  IInv'
<1>1. /\ stage \notin {"closing", "ended"} /\ stage' = "closing"
      /\ verdict' = "cancelled" /\ blame' = {}
      /\ UNCHANGED <<job, chat, challenge, old, texts, shown, asked, age, left, base, latest, still, tries>>
      /\ UNCHANGED <<refs, todo, route, hops, checked, dir>>
  BY DEF Cancel, Decide, page, refVars
<1>2. RefTypeOK' /\ References'
  BY <1>1 DEF IInv, TypeOK, RefTypeOK, References
<1>3. TypeOK'
  BY <1>1, <1>2 DEF IInv, TypeOK, Stages, Verdicts
<1>4. Position' /\ BaseIsOld' /\ VerdictEarned' /\ PromptMatchesRequest'
  BY <1>1 DEF IInv, Position, BaseIsOld, VerdictEarned, PromptMatchesRequest, Restrictions,
              Video, Image
<1>5. QED
  BY <1>2, <1>3, <1>4 DEF IInv

(* Nothing changes, nothing is lost. *)
LEMMA Stutter ==
  ASSUME IInv, UNCHANGED vars
  PROVE  IInv'
<1>1. UNCHANGED <<job, chat, challenge, old, texts, shown, asked, age, stage, left, base, latest,
                  still, verdict, blame, tries>>
      /\ UNCHANGED <<refs, todo, route, hops, checked, dir>>
  BY DEF vars, page, worker, refVars
<1>2. RefTypeOK' /\ References'
  BY <1>1 DEF IInv, TypeOK, RefTypeOK, References
<1>3. TypeOK'
  BY <1>1, <1>2 DEF IInv, TypeOK
<1>4. Position' /\ BaseIsOld' /\ VerdictEarned' /\ PromptMatchesRequest'
  BY <1>1 DEF IInv, Position, BaseIsOld, VerdictEarned, PromptMatchesRequest, Video, Image
<1>5. QED
  BY <1>2, <1>3, <1>4 DEF IInv

LEMMA Inductive == IInv /\ [Next]_vars => IInv'
<1> SUFFICES ASSUME IInv, [Next]_vars PROVE IInv'
  OBVIOUS
<1>1. CASE DownloadReferences
  BY <1>1, DownloadStep
<1>2. CASE Open
  BY <1>2, OpenStep
<1>3. CASE ComposeVideo
  BY <1>3, ComposeVideoStep
<1>4. CASE ComposeImage
  BY <1>4, ComposeImageStep
<1>5. CASE Send
  BY <1>5, SendStep
<1>6. CASE \/ WatchForChallenge \/ AwaitVerification \/ LocateConversation
           \/ PollTimeout \/ LookTimeout \/ Save \/ PageError
  BY <1>6, WaitingStep
<1>7. CASE Poll
  BY <1>7, PollStep
<1>8. CASE ReadLines
  BY <1>8, ReadLinesStep
<1>9. CASE ReadImages
  BY <1>9, ReadImagesStep
<1>10. CASE Rotate
  BY <1>10, RotateStep
<1>11. CASE End
  BY <1>11, EndStep
<1>12. CASE Cancel
  BY <1>12, CancelStep
<1>13. CASE Accept \/ Challenge \/ (\E t \in Texts : Write(t)) \/ (\E S \in SUBSET Images : Show(S))
  BY <1>13, DolaStep
<1>14. CASE UNCHANGED vars
  BY <1>14, Stutter
<1>15. QED
  BY <1>1, <1>2, <1>3, <1>4, <1>5, <1>6, <1>7, <1>8, <1>9, <1>10, <1>11, <1>12, <1>13, <1>14
     DEF Next, Work

(* The invariant holds in every reachable state. *)
LEMMA Invariance == Spec => []IInv
BY Initial, Inductive, PTL DEF Spec

-----------------------------------------------------------------------------
(* The page, the worker and the download keep the types of their state,    *)
(* for any tasks, texts, images and deadlines.                             *)
THEOREM TypeCorrect == Spec => []TypeOK
<1>1. IInv => TypeOK
  BY DEF IInv
<1>2. QED
  BY <1>1, Invariance, PTL

(* No line that was on the page and could be read before the prompt is     *)
(* blamed (image_worker.py:142), and no account is restricted by a text    *)
(* that rejects the content (upstream_errors.py:58-61).                    *)
THEOREM Earned == Spec => []VerdictEarned
<1>1. IInv => VerdictEarned
  BY DEF IInv
<1>2. QED
  BY <1>1, Invariance, PTL

(* A video prompt is sent only with the duration the task asked for, on    *)
(* every account it is tried on (video_worker_ui.py:366).                  *)
THEOREM AsAsked == Spec => []PromptMatchesRequest
<1>1. IInv => PromptMatchesRequest
  BY DEF IInv
<1>2. QED
  BY <1>1, Invariance, PTL

(* The reference images outlive every rotation and not the task            *)
(* (server.py:539-541); only a cancelled download leaves its directory     *)
(* behind (media.py:159-163).                                              *)
THEOREM FilesScoped == Spec => []ReferenceFilesScoped
<1>1. IInv => ReferenceFilesScoped
  BY DEF IInv, References, ReferenceFilesScoped, TypeOK, RefTypeOK
<1>2. QED
  BY <1>1, Invariance, PTL

-----------------------------------------------------------------------------
(* The time for which the images have not changed is not longer than any   *)
(* of them has been known, and an image that is remembered has an age, by  *)
(* which it goes on ageing when the page does not show it any more.        *)
Aged ==
  \A i \in latest : age[i] >= still /\ (age[i] > 0 \/ Settle = 0)

(* A round ages the images of the page and those that were on it. *)
LEMMA Ageing ==
  ASSUME IInv, NEW d \in 1..MaxElapse, Elapse(d), NEW i \in Images
  PROVE  /\ age'[i] >= age[i]
         /\ i \in shown \/ age[i] > 0 => age'[i] = Capped(age[i] + d)
<1>1. age[i] \in 0..Settle /\ d \in Nat /\ Settle \in Nat
  BY TimesAssumption DEF IInv, TypeOK
<1>2. age'[i] = IF i \in shown \/ age[i] > 0 THEN Capped(age[i] + d) ELSE 0
  BY DEF Elapse
<1>3. QED
  BY <1>1, <1>2 DEF Capped

LEMMA AgedReadImages ==
  ASSUME IInv, Aged, ReadImages
  PROVE  Aged'
<1> DEFINE changed == NewImages # {} /\ NewImages # latest
<1>0. /\ Settle \in Nat /\ MaxElapse \in Nat /\ still \in 0..Settle
      /\ \A i \in Images : age[i] \in 0..Settle
      /\ latest \subseteq Images /\ shown \subseteq Images
  BY TimesAssumption DEF IInv, TypeOK
<1>1. latest' = IF changed THEN NewImages ELSE latest
  BY DEF ReadImages
<1>2. NewImages \subseteq shown
  BY DEF NewImages
<1>3. \A i \in latest' :
         /\ i \in shown \/ age[i] > 0 \/ Settle = 0
         /\ age[i] >= SinceChange(changed)
  BY <1>0, <1>1, <1>2 DEF Aged, SinceChange
<1>4. CASE latest' # {} /\ SinceChange(changed) >= Settle
  <2>1. UNCHANGED <<still, age>>
    BY <1>4 DEF ReadImages
  <2>2. CASE changed
    <3>1. Settle = 0
      BY <1>0, <1>4, <2>2 DEF SinceChange
    <3>2. QED
      BY <1>0, <1>1, <1>2, <2>1, <3>1 DEF Aged
  <2>3. CASE ~changed
    BY <1>1, <2>1, <2>3 DEF Aged
  <2>4. QED
    BY <2>2, <2>3
<1>5. CASE ~(latest' # {} /\ SinceChange(changed) >= Settle)
  <2>1. PICK d \in 1..MaxElapse :
           Elapse(d) /\ still' = IF latest' = {} THEN 0 ELSE Capped(SinceChange(changed) + d)
    BY <1>5 DEF ReadImages, NextRound
  <2> SUFFICES ASSUME NEW i \in latest'
               PROVE  age'[i] >= still' /\ (age'[i] > 0 \/ Settle = 0)
    BY DEF Aged
  <2>2. i \in Images /\ age[i] \in 0..Settle
    BY <1>0, <1>1, <1>2
  <2>3. still' = Capped(SinceChange(changed) + d) /\ SinceChange(changed) \in 0..Settle
    BY <1>0, <2>1 DEF SinceChange
  <2>4. CASE i \in shown \/ age[i] > 0
    <3>1. age'[i] = Capped(age[i] + d)
      BY <2>1, <2>2, <2>4, Ageing
    <3>2. age[i] >= SinceChange(changed)
      BY <1>3
    <3>3. QED
      BY <1>0, <2>2, <2>3, <3>1, <3>2 DEF Capped
  <2>5. CASE Settle = 0
    <3>1. age'[i] \in 0..Settle
      BY <2>1, <2>2, ElapseTypes DEF IInv
    <3>2. Capped(SinceChange(changed) + d) = 0
      BY <1>0, <2>3, <2>5 DEF Capped
    <3>3. QED
      BY <2>3, <2>5, <3>1, <3>2
  <2>6. QED
    BY <1>3, <2>4, <2>5
<1>6. QED
  BY <1>4, <1>5

LEMMA AgedStep ==
  ASSUME IInv, Aged, [Next]_vars
  PROVE  Aged'
<1>1. CASE UNCHANGED <<latest, still, age>>
  BY <1>1 DEF Aged
<1>2. CASE Poll
  <2>1. PICK d \in 1..MaxElapse : Elapse(d)
    BY <1>2 DEF Poll
  <2>2. UNCHANGED <<latest, still>>
    BY <1>2 DEF Poll
  <2>3. \A i \in latest : age'[i] >= age[i] /\ age[i] \in 0..Settle /\ age'[i] \in 0..Settle
    BY <2>1, Ageing, ElapseTypes DEF IInv, TypeOK
  <2>4. still \in 0..Settle /\ Settle \in Nat
    BY TimesAssumption DEF IInv, TypeOK
  <2>5. QED
    BY <2>2, <2>3, <2>4 DEF Aged
<1>3. CASE ReadImages
  BY <1>3, AgedReadImages
<1>4. CASE Rotate
  BY <1>4 DEF Rotate, Aged
<1>5. CASE \/ DownloadReferences \/ Open \/ ComposeVideo \/ ComposeImage \/ Send
           \/ WatchForChallenge \/ AwaitVerification \/ LocateConversation
  BY <1>1, <1>5 DEF DownloadReferences, Open, ComposeVideo, ComposeImage, Send, WatchForChallenge,
                    AwaitVerification, LocateConversation, page
<1>6. CASE PollTimeout \/ ReadLines \/ LookTimeout \/ Save \/ PageError \/ End \/ Cancel
  BY <1>1, <1>6 DEF PollTimeout, ReadLines, LookTimeout, Save, PageError, End, Cancel, page
<1>7. CASE Accept \/ Challenge \/ (\E t \in Texts : Write(t)) \/ (\E S \in SUBSET Images : Show(S))
  BY <1>1, <1>7 DEF Accept, Challenge, Write, Show, worker
<1>8. CASE UNCHANGED vars
  BY <1>1, <1>8 DEF vars, page, worker
<1>9. QED
  BY <1>2, <1>3, <1>4, <1>5, <1>6, <1>7, <1>8 DEF Next, Work

(* Images are taken as the result before the deadline only when they are   *)
(* all that is new on the page and each has been known for the settling    *)
(* time (image_worker.py:162-168), however they come and go.               *)
THEOREM ResultSettled == Spec => SettledResult
<1>1. Init => Aged
  BY DEF Init, Aged
<1>2. IInv /\ Aged /\ [Next]_vars => Aged'
  BY AgedStep
<1>3. ASSUME IInv, Aged, [Next]_vars, stage = "judging", stage' = "saving"
      PROVE  NewImages \subseteq latest' /\ \A i \in latest' : age[i] >= Settle
  <2>1. ReadImages
    BY <1>3 DEF Next, Work, DownloadReferences, Open, ComposeVideo, ComposeImage, Send,
         WatchForChallenge, AwaitVerification, LocateConversation, Poll, PollTimeout, ReadLines,
         LookTimeout, Save, PageError, Rotate, End, Cancel, Accept, Challenge, Write, Show, vars,
         worker, Decide
  <2> DEFINE changed == NewImages # {} /\ NewImages # latest
  <2>2. /\ latest' = IF changed THEN NewImages ELSE latest
        /\ SinceChange(changed) >= Settle
    BY <1>3, <2>1 DEF ReadImages, Goto
  <2>3. /\ Settle \in Nat /\ still \in 0..Settle /\ latest \subseteq Images
        /\ \A i \in Images : age[i] \in 0..Settle
        /\ NewImages \subseteq Images
    BY <1>3, TimesAssumption DEF IInv, TypeOK, NewImages
  <2>4. NewImages \subseteq latest'
    BY <2>2
  <2>5. \A i \in latest' : age[i] >= Settle
    BY <1>3, <2>2, <2>3 DEF Aged, SinceChange
  <2>6. QED
    BY <2>4, <2>5
<1>4. QED
  BY <1>1, <1>2, <1>3, Invariance, PTL DEF Spec, SettledResult

-----------------------------------------------------------------------------
(* What the pool moves on from: nothing was sent, or a text was written    *)
(* since that is to blame.                                                 *)
Blamed ==
  /\ stage \in {"looking", "judging"} => ~Video
  /\ verdict \in {"login_expired", "missing"} => chat = "none"
  /\ verdict \in Restrictions /\ (Video \/ base.read) =>
       \E i \in DOMAIN texts : blame = texts[i]

(* A new line of a page whose old lines were read was written since. *)
LEMMA NewLineWritten ==
  ASSUME IInv, base.read, NEW lines \in {Lines, {}}, NEW t \in NewLines(lines)
  PROVE  \E i \in DOMAIN texts : t = texts[i]
BY DEF IInv, BaseIsOld, NewLines, Lines

(* Only images are looked for on the page itself. *)
LEMMA LookingStep ==
  ASSUME IInv, Blamed, [Next]_vars
  PROVE  (stage \in {"looking", "judging"} => ~Video)'
<1> USE DEF Video
<1>1. UNCHANGED job
  BY DEF Next, Work, DownloadReferences, Open, ComposeVideo, ComposeImage, Send, WatchForChallenge,
         AwaitVerification, LocateConversation, Poll, PollTimeout, ReadLines, ReadImages, LookTimeout,
         Save, PageError, Rotate, End, Cancel, Accept, Challenge, Write, Show, vars
<1>2. CASE UNCHANGED stage
  BY <1>1, <1>2 DEF Blamed
<1>3. CASE stage' \notin {"looking", "judging"}
  BY <1>3
<1>4. CASE Send \/ ReadLines \/ ReadImages
  BY <1>1, <1>4 DEF Send, ReadLines, ReadImages, Goto, Decide, Blamed
<1>5. QED
  BY <1>2, <1>3, <1>4
     DEF Next, Work, DownloadReferences, Open, ComposeVideo, ComposeImage, WatchForChallenge,
         AwaitVerification, LocateConversation, Poll, PollTimeout, LookTimeout, Save, PageError,
         Rotate, End, Cancel, Accept, Challenge, Write, Show, vars, worker, Goto, Decide, LoggedOut,
         UploadTimesOut

LEMMA BlamedStep ==
  ASSUME IInv, Blamed, [Next]_vars
  PROVE  Blamed'
<1>0. (stage \in {"looking", "judging"} => ~Video)'
  BY LookingStep
<1>1. CASE UNCHANGED <<job, chat, base, texts, verdict, blame>>
  BY <1>0, <1>1 DEF Blamed, Video
<1>2. ASSUME verdict' \notin Restrictions \union {"login_expired", "missing"}
      PROVE  Blamed'
  BY <1>0, <1>2 DEF Blamed
<1>3. CASE Open
  <2>1. stage = "opening" /\ UNCHANGED <<job, chat, base, texts>> /\ verdict = "none"
    BY <1>3 DEF Open, page, IInv, Position
  <2>2. \/ UNCHANGED <<verdict, blame>>
        \/ verdict' \in {"login_expired", "missing"} /\ job.kind # "resume"
        \/ verdict' = "error"
    BY <1>3 DEF Open, Goto, Decide, LoggedOut, Image, Video
  <2>3. job.kind # "resume" => chat = "none"
    BY <2>1 DEF IInv, Position
  <2>4. QED
    BY <1>0, <1>1, <1>2, <2>1, <2>2, <2>3 DEF Blamed, Restrictions
<1>4. CASE Poll
  <2>1. UNCHANGED <<job, chat, base, texts>>
    BY <1>4 DEF Poll
  <2>2. CASE UNCHANGED <<verdict, blame>>
    BY <1>1, <2>1, <2>2
  <2>3. ASSUME NEW i \in DOMAIN texts, Decide(PollVerdict(texts[i]), texts[i])
        PROVE  Blamed'
    <3>1. verdict' \notin {"login_expired", "missing"}
      BY <2>3, ClassifyKinds DEF Decide, Restrictions
    <3>2. blame' = texts'[i] /\ i \in DOMAIN texts'
      BY <2>1, <2>3 DEF Decide
    <3>3. QED
      BY <1>0, <3>1, <3>2 DEF Blamed
  <2>4. QED
    BY <1>4, <2>2, <2>3 DEF Poll, Answer, Goto
<1>5. CASE ReadLines
  <2>1. UNCHANGED <<job, chat, base, texts>> /\ ~Video
    BY <1>5 DEF ReadLines, page, Blamed
  <2>2. CASE UNCHANGED <<verdict, blame>>
    BY <1>1, <2>1, <2>2
  <2>3. CASE Decide("verification", {})
    BY <1>2, <2>3 DEF Decide, Restrictions
  <2>4. ASSUME NEW lines \in {Lines, {}}, NEW t \in NewLines(lines), Decide(Classify(t), t)
        PROVE  Blamed'
    <3>1. verdict' \notin {"login_expired", "missing"} /\ blame' = t
      BY <2>4, ClassifyKinds DEF Decide, Restrictions
    <3>2. base.read => \E i \in DOMAIN texts : t = texts[i]
      BY <2>4, NewLineWritten
    <3>3. QED
      BY <1>0, <2>1, <3>1, <3>2 DEF Blamed, Video
  <2>5. QED
    BY <1>5, <2>2, <2>3, <2>4 DEF ReadLines, Goto
<1>6. CASE Rotate
  BY <1>2, <1>6 DEF Rotate, Restrictions
<1>7. CASE ComposeVideo \/ ComposeImage \/ Send \/ DownloadReferences
  <2>1. verdict = "none"
    BY <1>7 DEF IInv, Position, ComposeVideo, ComposeImage, Send, DownloadReferences
  <2>2. verdict' \in {"none", "error", "timeout"}
    BY <1>7, <2>1 DEF ComposeVideo, ComposeImage, Send, DownloadReferences, UploadTimesOut,
                      Goto, Decide
  <2>3. QED
    BY <1>2, <2>2 DEF Restrictions
<1>8. CASE WatchForChallenge \/ AwaitVerification \/ LocateConversation \/ PollTimeout
           \/ LookTimeout \/ Save \/ PageError \/ Cancel \/ ReadImages
  <2>1. UNCHANGED <<job, chat, base, texts>>
    BY <1>8 DEF WatchForChallenge, AwaitVerification, LocateConversation, PollTimeout, LookTimeout,
                Save, PageError, Cancel, ReadImages, page
  <2>2. \/ UNCHANGED <<verdict, blame>>
        \/ verdict' \in {"verification", "timeout", "completed", "error", "cancelled"}
    BY <1>8 DEF WatchForChallenge, AwaitVerification, LocateConversation, PollTimeout, LookTimeout,
                Save, PageError, Cancel, ReadImages, Goto, Decide
  <2>3. QED
    BY <1>1, <1>2, <2>1, <2>2 DEF Restrictions
<1>9. CASE End
  BY <1>1, <1>9 DEF End, page
<1>10. CASE Accept \/ Challenge \/ (\E t \in Texts : Write(t)) \/ (\E S \in SUBSET Images : Show(S))
  <2>1. UNCHANGED verdict /\ stage \notin {"closing", "ended"}
    BY <1>10 DEF Accept, Challenge, Write, Show, Dola, worker
  <2>2. verdict' = "none"
    BY <2>1 DEF IInv, Position
  <2>3. QED
    BY <1>2, <2>2 DEF Restrictions
<1>11. CASE UNCHANGED vars
  BY <1>1, <1>11 DEF vars, page, worker
<1>12. QED
  BY <1>3, <1>4, <1>5, <1>6, <1>7, <1>8, <1>9, <1>10, <1>11 DEF Next, Work

(* No account receives the prompt of another one unless Dola has refused   *)
(* it there, in a text of that conversation (browser_pool.py:504): what    *)
(* runs out of time or fails is not sent again (video_worker_ui.py:403).   *)
THEOREM NotSentTwice == Spec => SentAgainOnlyIfRefused
<1>1. Init => Blamed
  BY DEF Init, Blamed, Restrictions, Video
<1>2. IInv /\ Blamed /\ [Next]_vars => Blamed'
  BY BlamedStep
<1>3. ASSUME IInv, Blamed, [Next]_vars, stage = "closing", stage' = "opening", chat # "none"
      PROVE  /\ verdict \in Restrictions
             /\ Video \/ base.read => \E i \in DOMAIN texts : blame = texts[i]
  <2>1. Rotate
    BY <1>3 DEF Next, Work, DownloadReferences, Open, ComposeVideo, ComposeImage, Send,
         WatchForChallenge, AwaitVerification, LocateConversation, Poll, PollTimeout, ReadLines,
         ReadImages, LookTimeout, Save, PageError, End, Cancel, Accept, Challenge, Write, Show, vars,
         worker, Dola
  <2>2. verdict \in Restrictions
    BY <1>3, <2>1 DEF Rotate, MovesOn, Blamed
  <2>3. QED
    BY <1>3, <2>2 DEF Blamed
<1>4. QED
  BY <1>1, <1>2, <1>3, Invariance, PTL DEF Spec, SentAgainOnlyIfRefused
-----------------------------------------------------------------------------
(* A task is never wound back.  Of what the worker knows, the argument     *)
(* needs only that it judges images while it has time left.                *)
JudgesInTime == stage = "judging" => left > 0

(* What is ahead at each stage. *)
Rounds ==
  /\ stage = "ended"     => Ahead = 0
  /\ stage = "closing"   => Ahead = 1
  /\ stage = "saving"    => Ahead = 2
  /\ stage = "polling"   => Ahead = left + 3
  /\ stage = "locating"  => Ahead = left + PollTime + 4
  /\ stage = "verifying" => Ahead = left + ConvTime + PollTime + 5
  /\ stage = "grace"     => Ahead = left + VerifyTime + ConvTime + PollTime + 6
  /\ stage = "judging"   => Ahead = 2 * left + 2
  /\ stage = "looking"   => Ahead = 2 * left + 3
  /\ stage = "typing"    => Ahead = 2 * Longest + 7
  /\ stage = "composing" => Ahead = 2 * Longest + 8
  /\ stage = "opening"   => Ahead = 2 * Longest + 9
  /\ stage = "refs"      => Ahead = 2 * Longest + 10

LEMMA RoundsNow == Rounds
BY DEF Rounds, Ahead, AheadFrom

LEMMA RoundsNext == Rounds'
BY DEF Rounds, Ahead, AheadFrom

(* A page that is about to be closed leaves the least to do. *)
LEMMA DecideAdvances ==
  ASSUME TypeOK, stage \notin {"closing", "ended"}, left' \in Nat,
         stage' = "closing", UNCHANGED tries
  PROVE  Advances
<1>1. left \in Nat /\ Longest \in Nat /\ stage \in Stages
  BY TimesAssumption DEF TypeOK, Longest
<1>2. Ahead' = 1
  BY RoundsNext DEF Rounds
<1>3. Ahead > 1
  BY <1>1, RoundsNow, TimesAssumption DEF Rounds, Stages
<1>4. QED
  BY <1>1, <1>2, <1>3 DEF Advances, TypeOK

LEMMA WorkAdvances ==
  ASSUME IInv, JudgesInTime, IInv', Work
  PROVE  Advances
<1> USE DEF IInv
<1>0. /\ left \in Nat /\ left' \in Nat /\ tries \in Nat /\ Longest \in Nat
      /\ Longest >= Grace + VerifyTime + ConvTime + PollTime + ImageTime
      /\ Grace \in Nat /\ VerifyTime \in Nat /\ ConvTime \in Nat /\ PollTime \in Nat
      /\ ImageTime \in Nat
  BY TimesAssumption DEF TypeOK, Longest
<1>1. ASSUME UNCHANGED tries, Ahead' < Ahead
      PROVE  Advances
  BY <1>1 DEF Advances
<1>2. ASSUME UNCHANGED tries, stage \notin {"closing", "ended"}, stage' = "closing"
      PROVE  Advances
  BY <1>0, <1>2, DecideAdvances
<1>3. CASE DownloadReferences
  <2>1. UNCHANGED tries /\ stage = "refs"
    BY <1>3 DEF DownloadReferences
  <2>2. CASE stage' = "opening"
    BY <1>0, <1>1, <2>1, <2>2, RoundsNow, RoundsNext DEF Rounds
  <2>3. CASE stage' = "closing"
    BY <1>2, <2>1, <2>3
  <2>4. CASE stage' = "refs" /\ refs' = "downloading"
    <3>1. Ahead' = Ahead
      BY <1>0, <2>1, <2>4, RoundsNow, RoundsNext DEF Rounds
    <3>2. /\ todo \in 0..MaxRefs /\ route \in 1..NumRoutes /\ hops \in 0..MaxRequests
          /\ checked \in BOOLEAN /\ MaxRefs \in Nat /\ NumRoutes \in Nat /\ MaxRequests \in Nat
          /\ refs = "downloading" => todo > 0
      BY ReferenceAssumption DEF TypeOK, RefTypeOK, References
    <3>3. ASSUME BeginDownload(job.refs) PROVE DownloadAdvances
      BY <2>4, <3>3 DEF BeginDownload, DownloadAdvances
    <3>4. ASSUME OpenRoute PROVE DownloadAdvances
      BY <2>4, <3>2, <3>4 DEF OpenRoute, Abandon, DownloadAdvances
    <3>5. ASSUME Request PROVE DownloadAdvances
      <4>1. \/ hops' = hops + 1 /\ UNCHANGED <<refs, todo, route, checked>>
            \/ route' = route + 1 /\ UNCHANGED <<refs, todo>>
            \/ todo' = todo - 1 /\ UNCHANGED refs
        BY <2>4, <3>5 DEF Request, RouteFailed, NextRoute, Abandon
      <4>2. QED
        BY <3>2, <4>1 DEF DownloadAdvances
    <3>6. DownloadAdvances
      BY <1>3, <3>3, <3>4, <3>5 DEF DownloadReferences, Fetch
    <3>7. QED
      BY <2>1, <3>1, <3>6 DEF Advances
  <2>5. QED
    BY <1>3, <2>2, <2>3, <2>4 DEF DownloadReferences, Goto, Decide
<1>4. CASE Open \/ ComposeVideo \/ ComposeImage \/ Send
  <2>1. UNCHANGED tries /\ stage \in {"opening", "composing", "typing"}
    BY <1>4 DEF Open, ComposeVideo, ComposeImage, Send
  <2>2. \/ stage' = "closing"
        \/ stage = "opening" /\ stage' = "composing"
        \/ stage = "opening" /\ stage' = "polling" /\ left' = PollTime
        \/ stage = "composing" /\ stage' = "typing"
        \/ stage = "typing" /\ stage' = "grace" /\ left' = Grace
        \/ stage = "typing" /\ stage' = "looking" /\ left' = ImageTime
    BY <1>4 DEF Open, ComposeVideo, ComposeImage, Send, LoggedOut, UploadTimesOut, Goto, Decide
  <2>3. QED
    BY <1>0, <1>1, <1>2, <2>1, <2>2, RoundsNow, RoundsNext DEF Rounds
<1>5. CASE WatchForChallenge \/ AwaitVerification \/ LocateConversation
  <2>1. UNCHANGED tries /\ stage \in {"grace", "verifying", "locating"}
    BY <1>5 DEF WatchForChallenge, AwaitVerification, LocateConversation
  <2>2. \/ stage' = "closing"
        \/ stage' = stage /\ left' = left - 1
        \/ stage = "grace" /\ stage' = "verifying" /\ left' = VerifyTime
        \/ stage = "grace" /\ stage' = "locating" /\ left' = ConvTime
        \/ stage = "verifying" /\ stage' = "locating" /\ left' = ConvTime
        \/ stage = "locating" /\ stage' = "polling" /\ left' = PollTime
    BY <1>0, <1>5 DEF WatchForChallenge, AwaitVerification, LocateConversation, Goto, Decide
  <2>3. QED
    BY <1>0, <1>1, <1>2, <2>1, <2>2, RoundsNow, RoundsNext DEF Rounds
<1>6. CASE Poll
  <2>1. PICK d \in 1..MaxElapse : left' = IF d > left THEN 0 ELSE left - d
    BY <1>6 DEF Poll, Elapse
  <2>2. UNCHANGED tries /\ stage = "polling" /\ left' < left
    BY <1>0, <1>6, <2>1, TimesAssumption DEF Poll
  <2>3. stage' \in {"closing", "polling", "saving"}
    BY <1>6 DEF Poll, Goto, Decide
  <2>4. QED
    BY <1>0, <1>1, <1>2, <2>2, <2>3, RoundsNow, RoundsNext DEF Rounds
<1>7. CASE ReadLines \/ ReadImages
  <2>1. UNCHANGED tries /\ stage \in {"looking", "judging"} /\ left > 0
    BY <1>7 DEF ReadLines, ReadImages, JudgesInTime
  <2>2. \/ stage' = "closing"
        \/ stage = "looking" /\ stage' = "judging" /\ left' = left
        \/ stage = "judging" /\ stage' = "saving"
        \/ stage = "judging" /\ stage' = "looking" /\ left' < left
    <3>1. CASE ReadLines
      BY <3>1 DEF ReadLines, Goto, Decide
    <3>2. CASE ReadImages
      <4>1. \/ Goto("saving")
            \/ Goto("looking") /\ \E d \in 1..MaxElapse : Elapse(d)
        BY <3>2 DEF ReadImages, NextRound
      <4>2. stage = "judging"
        BY <3>2 DEF ReadImages
      <4>3. QED
        BY <1>0, <2>1, <4>1, <4>2, TimesAssumption DEF Goto, Elapse
    <3>3. QED
      BY <1>7, <3>1, <3>2
  <2>3. QED
    BY <1>0, <1>1, <1>2, <2>1, <2>2, RoundsNow, RoundsNext DEF Rounds
<1>8. CASE PollTimeout \/ LookTimeout \/ Save \/ PageError
  <2>1. /\ UNCHANGED tries /\ stage \notin {"closing", "ended"}
        /\ stage' = "closing" \/ (stage = "looking" /\ stage' = "saving")
    BY <1>8 DEF PollTimeout, LookTimeout, Save, PageError, Goto, Decide
  <2>2. QED
    BY <1>0, <1>1, <1>2, <2>1, RoundsNow, RoundsNext DEF Rounds
<1>9. CASE Rotate
  BY <1>0, <1>9 DEF Rotate, Advances
<1>10. CASE End
  BY <1>0, <1>1, <1>10, RoundsNow, RoundsNext DEF End, Rounds
<1>11. QED
  BY <1>3, <1>4, <1>5, <1>6, <1>7, <1>8, <1>9, <1>10 DEF Work

LEMMA JudgesInTimeStep ==
  ASSUME IInv, JudgesInTime, [Next]_vars
  PROVE  JudgesInTime'
<1>1. CASE UNCHANGED <<stage, left>>
  BY <1>1 DEF JudgesInTime
<1>2. CASE stage' # "judging"
  BY <1>2 DEF JudgesInTime
<1>3. CASE ReadLines
  BY <1>3 DEF ReadLines, JudgesInTime
<1>4. QED
  BY <1>1, <1>2, <1>3
     DEF Next, Work, DownloadReferences, Open, ComposeVideo, ComposeImage, Send, WatchForChallenge,
         AwaitVerification, LocateConversation, Poll, PollTimeout, ReadImages, LookTimeout, Save,
         PageError, Rotate, End, Cancel, Accept, Challenge, Write, Show, vars, worker, Goto, Decide,
         LoggedOut, UploadTimesOut

(* Every step of the worker brings the end of its task nearer and nothing  *)
(* the page does takes it away again: the part of EveryGenerationEnds that *)
(* is about the code.  What is left to come is bounded by TypeOK           *)
(* (video_worker_ui.py:218, 399, image_worker.py:133, media.py:110-157).   *)
THEOREM RunsDown == Spec => NeverWoundBack
<1>1. Init => JudgesInTime
  BY DEF Init, JudgesInTime
<1>2. IInv /\ JudgesInTime /\ [Next]_vars => JudgesInTime'
  BY JudgesInTimeStep
<1>3. ASSUME IInv, JudgesInTime, [Next]_vars
      PROVE  [/\ Work => Advances
              /\ Advances \/ UNCHANGED <<stage, left, tries, refVars>>]_vars
  <2>1. IInv'
    BY <1>3, Inductive
  <2>2. Work => Advances
    BY <1>3, <2>1, WorkAdvances
  <2>3. CASE Cancel
    BY <1>3, <2>1, <2>3, DecideAdvances DEF Cancel, Decide, IInv, TypeOK
  <2>4. CASE Accept \/ Challenge \/ (\E t \in Texts : Write(t)) \/ (\E S \in SUBSET Images : Show(S))
    <3>1. UNCHANGED <<stage, left, tries, refVars>>
      BY <2>4 DEF Accept, Challenge, Write, Show, worker
    <3>2. QED
      BY <2>2, <3>1
  <2>5. CASE UNCHANGED vars
    BY <2>5
  <2>6. QED
    BY <1>3, <2>2, <2>3, <2>4, <2>5 DEF Next
<1>4. QED
  BY <1>1, <1>2, <1>3, Invariance, PTL DEF Spec, NeverWoundBack

-----------------------------------------------------------------------------
(* The refinement of AccountUse.  A page whose worker is past the typing   *)
(* carries a prompt, so that a verdict that moves on leaves either an open *)
(* page or a sent prompt behind.                                           *)
SentOnPage == stage \in OnPage /\ job.kind # "resume" => chat # "none"

LEMMA SentOnPageStep ==
  ASSUME IInv, SentOnPage, [Next]_vars
  PROVE  SentOnPage'
<1> USE DEF SentOnPage, OnPage, IInv, TypeOK, Stages, Goto, Decide, Video, Image
<1>1. CASE Accept \/ Challenge \/ (\E t \in Texts : Write(t)) \/ (\E S \in SUBSET Images : Show(S))
  BY <1>1 DEF Accept, Challenge, Write, Show, worker
<1>2. CASE DownloadReferences \/ Open \/ ComposeVideo \/ ComposeImage
  BY <1>2 DEF DownloadReferences, Open, LoggedOut, ComposeVideo, UploadTimesOut, ComposeImage, page,
              Position
<1>3. CASE Send
  BY <1>3 DEF Send
<1>4. CASE WatchForChallenge \/ AwaitVerification \/ LocateConversation \/ Poll \/ PollTimeout
  BY <1>4 DEF WatchForChallenge, AwaitVerification, LocateConversation, Poll, PollTimeout, page
<1>5. CASE ReadLines \/ ReadImages \/ LookTimeout \/ Save \/ PageError
  BY <1>5 DEF ReadLines, ReadImages, LookTimeout, Save, PageError, page
<1>6. CASE Rotate \/ End \/ Cancel
  BY <1>6 DEF Rotate, End, Cancel
<1>7. CASE UNCHANGED vars
  BY <1>7 DEF vars, page, worker
<1>8. QED
  BY <1>1, <1>2, <1>3, <1>4, <1>5, <1>6, <1>7 DEF Next, Work

(* What a place of the worker is to the accounts. *)
UseAt(s, v, c) ==
  CASE s \in {"refs", "opening"}     -> "waiting"
    [] s \in {"composing", "typing"} -> "open"
    [] s \in OnPage                  -> "sent"
    [] s = "closing" /\ job.kind # "resume" /\ v \in Restrictions \union {"login_expired", "missing"}
         -> IF c = "none" THEN "open" ELSE "sent"
    [] OTHER -> IF v = "completed" THEN "completed" ELSE "failed"

LEMMA UseNowAt ==
  /\ UseNow = UseAt(stage, verdict, chat)
  /\ UNCHANGED job => UseNow' = UseAt(stage', verdict', chat')
<1>1. UseNow = UseAt(stage, verdict, chat)
  BY DEF UseNow, UseAt, MovesOn
<1>2. UNCHANGED job => UseNow' = UseAt(stage', verdict', chat')
  BY DEF UseNow, UseAt, MovesOn
<1>3. QED
  BY <1>1, <1>2

(* The places, one by one. *)
LEMMA UsePlaces ==
  ASSUME NEW s, NEW v, NEW c
  PROVE  /\ s \in {"refs", "opening"} => UseAt(s, v, c) = "waiting"
         /\ s \in {"composing", "typing"} => UseAt(s, v, c) = "open"
         /\ s \in OnPage => UseAt(s, v, c) = "sent"
         /\ s \in {"closing", "ended"} /\ v = "completed" => UseAt(s, v, c) = "completed"
         /\ s = "ended" /\ v # "completed" => UseAt(s, v, c) = "failed"
         /\ s = "closing" /\ v # "completed" =>
              \/ UseAt(s, v, c) = "failed"
              \/ UseAt(s, v, c) = IF c = "none" THEN "open" ELSE "sent"
         /\ s = "closing" /\ v \in {"error", "timeout", "verification", "cancelled", "not_started",
                                    "content_rejected"} =>
              UseAt(s, v, c) = "failed"
         /\ s = "closing" /\ v # "completed" /\ job.kind = "resume" => UseAt(s, v, c) = "failed"
         /\ s = "closing" /\ v \in Restrictions \union {"login_expired", "missing"} 
              /\ job.kind # "resume" => UseAt(s, v, c) = IF c = "none" THEN "open" ELSE "sent"
BY DEF UseAt, OnPage, Restrictions

LEMMA TurnStep ==
  ASSUME IInv, SentOnPage, [Next]_vars
  PROVE  Turn!Step \/ UNCHANGED UseNow
<1> DEFINE kind == IF job.kind = "resume" THEN "resume" ELSE "new"
<1> USE DEF IInv, TypeOK
<1>0. UNCHANGED job
  BY DEF Next, Work, DownloadReferences, Open, ComposeVideo, ComposeImage, Send, WatchForChallenge,
         AwaitVerification, LocateConversation, Poll, PollTimeout, ReadLines, ReadImages, LookTimeout,
         Save, PageError, Rotate, End, Cancel, Accept, Challenge, Write, Show, vars
<1>1. /\ UseNow = UseAt(stage, verdict, chat)
      /\ UseNow' = UseAt(stage', verdict', chat')
  BY <1>0, UseNowAt
<1>2. ASSUME UseNow \in {"waiting", "open", "sent"}, UseNow' = "failed"
      PROVE  Turn!Step
  BY <1>2 DEF Turn!Step, Turn!Fail, Turn!Pending
<1>3. CASE Accept \/ Challenge \/ (\E t \in Texts : Write(t)) \/ (\E S \in SUBSET Images : Show(S))
  <2>1. UNCHANGED <<stage, verdict>> /\ stage # "closing"
    BY <1>3 DEF Accept, Challenge, Write, Show, worker, Dola
  <2>2. UseAt(stage, verdict, chat) = UseAt(stage, verdict, chat')
    BY <2>1 DEF UseAt
  <2>3. QED
    BY <1>1, <2>1, <2>2
<1>4. CASE DownloadReferences
  <2>1. /\ stage = "refs"
        /\ stage' \in {"refs", "opening"} \/ (stage' = "closing" /\ verdict' = "error")
    BY <1>4 DEF DownloadReferences, Goto, Decide
  <2>2. QED
    BY <1>1, <1>2, <2>1, UsePlaces
<1>5. CASE Open
  <2>1. /\ stage = "opening" /\ UNCHANGED chat
        /\ \/ stage' = "composing" /\ job.kind # "resume"
           \/ stage' = "polling" /\ job.kind = "resume"
           \/ /\ stage' = "closing" /\ verdict' \in {"login_expired", "missing"}
              /\ job.kind # "resume"
           \/ stage' = "closing" /\ verdict' = "error"
    BY <1>5 DEF Open, Goto, Decide, LoggedOut, Image, Video, page
  <2>2. UseNow = "waiting"
    BY <1>1, <2>1, UsePlaces
  <2>3. job.kind # "resume" => chat = "none"
    BY <2>1 DEF Position
  <2>4. \/ UseNow' = "open" /\ job.kind # "resume"
        \/ UseNow' = "sent" /\ job.kind = "resume"
        \/ UseNow' = "failed"
    BY <1>1, <2>1, <2>3, UsePlaces DEF OnPage
  <2>5. QED
    BY <1>2, <2>2, <2>4 DEF Turn!Step, Turn!Open, Turn!Follow
<1>6. CASE ComposeVideo \/ ComposeImage
  <2>1. /\ stage = "composing"
        /\ stage' = "typing" \/ (stage' = "closing" /\ verdict' \in {"error", "timeout"})
    BY <1>6 DEF ComposeVideo, ComposeImage, UploadTimesOut, Goto, Decide
  <2>2. QED
    BY <1>1, <1>2, <2>1, UsePlaces
<1>7. CASE Send
  <2>1. /\ stage = "typing"
        /\ stage' \in {"grace", "looking"} \/ (stage' = "closing" /\ verdict' = "error")
    BY <1>7 DEF Send, Goto, Decide
  <2>2. UseNow = "open" /\ UseNow' \in {"sent", "failed"}
    BY <1>1, <2>1, UsePlaces DEF OnPage
  <2>3. QED
    BY <1>2, <2>2 DEF Turn!Step, Turn!Send
<1>8. CASE \/ WatchForChallenge \/ AwaitVerification \/ LocateConversation \/ Poll \/ PollTimeout
           \/ ReadLines \/ ReadImages \/ LookTimeout \/ Save \/ PageError
  <2>1. /\ stage \in OnPage /\ UNCHANGED chat
        /\ \/ stage' \in OnPage
           \/ stage' = "closing" /\ verdict' # "completed"
           \/ stage = "saving" /\ stage' = "closing" /\ verdict' = "completed"
    <3>1. CASE WatchForChallenge \/ AwaitVerification \/ LocateConversation \/ PollTimeout
      BY <3>1 DEF WatchForChallenge, AwaitVerification, LocateConversation, PollTimeout, Goto, Decide,
                  OnPage, page
    <3>2. CASE Poll
      <4>1. \A t : PollVerdict(t) # "completed"
        BY DEF PollVerdict, Classify
      <4>2. QED
        BY <3>2, <4>1 DEF Poll, Goto, Decide, OnPage
    <3>3. CASE ReadLines
      <4>1. \A t : Classify(t) # "completed"
        BY DEF Classify
      <4>2. QED
        BY <3>3, <4>1 DEF ReadLines, Goto, Decide, OnPage, page
    <3>4. CASE ReadImages \/ LookTimeout \/ PageError
      BY <3>4 DEF ReadImages, LookTimeout, PageError, Goto, Decide, OnPage, page
    <3>5. CASE Save
      BY <3>5 DEF Save, Decide, OnPage, page
    <3>6. QED
      BY <1>8, <3>1, <3>2, <3>3, <3>4, <3>5
  <2>2. UseNow = "sent"
    BY <1>1, <2>1, UsePlaces
  <2>3. CASE stage' \in OnPage
    BY <1>1, <2>2, <2>3, UsePlaces
  <2>4. CASE stage' = "closing" /\ verdict' # "completed"
    <3>1. CASE job.kind = "resume"
      BY <1>1, <1>2, <2>2, <2>4, <3>1, UsePlaces
    <3>2. CASE job.kind # "resume"
      <4>1. chat' # "none"
        BY <2>1, <3>2 DEF SentOnPage
      <4>2. UseNow' \in {"failed", "sent"}
        BY <1>1, <2>4, <4>1, UsePlaces
      <4>3. QED
        BY <1>2, <2>2, <4>2
    <3>3. QED
      BY <3>1, <3>2
  <2>5. CASE stage' = "closing" /\ verdict' = "completed"
    <3>1. UseNow' = "completed"
      BY <1>1, <2>5, UsePlaces
    <3>2. QED
      BY <2>2, <3>1 DEF Turn!Step, Turn!Complete
  <2>6. QED
    BY <2>1, <2>3, <2>4, <2>5
<1>9. CASE Rotate
  <2>1. /\ stage = "closing" /\ stage' = "opening" /\ job.kind # "resume"
        /\ verdict \in Restrictions \union {"login_expired", "missing"}
    BY <1>9 DEF Rotate, MovesOn
  <2>2. UseNow \in {"open", "sent"} /\ UseNow' = "waiting"
    BY <1>1, <2>1, UsePlaces
  <2>3. QED
    BY <2>1, <2>2 DEF Turn!Step, Turn!MoveOn
<1>10. CASE End
  <2>1. stage = "closing" /\ stage' = "ended" /\ verdict' = verdict
    BY <1>10 DEF End
  <2>2. CASE verdict = "completed"
    BY <1>1, <2>1, <2>2, UsePlaces
  <2>3. CASE verdict # "completed"
    BY <1>1, <1>2, <2>1, <2>3, UsePlaces
  <2>4. QED
    BY <2>2, <2>3
<1>11. CASE Cancel
  <2>1. /\ stage \in Stages \ {"closing", "ended"}
        /\ stage' = "closing" /\ verdict' = "cancelled"
    BY <1>11 DEF Cancel, Decide
  <2>2. UseNow \in {"waiting", "open", "sent"}
    BY <1>1, <2>1, UsePlaces DEF Stages, OnPage
  <2>3. QED
    BY <1>1, <1>2, <2>1, <2>2, UsePlaces
<1>12. CASE UNCHANGED vars
  BY <1>1, <1>12 DEF vars, page, worker
<1>13. QED
  BY <1>3, <1>4, <1>5, <1>6, <1>7, <1>8, <1>9, <1>10, <1>11, <1>12 DEF Next, Work

(* Whatever Dola and the user do to the page, its worker takes its turn on *)
(* the accounts as AccountUse says (video_worker_ui.py, image_worker.py).  *)
THEOREM PageImplementsTurn == Spec => TakesTurn
<1>1. Init => Turn!Init /\ SentOnPage
  BY UseNowAt, UsePlaces DEF Init, Turn!Init, SentOnPage, OnPage
<1>2. IInv /\ SentOnPage /\ [Next]_vars => SentOnPage'
  BY SentOnPageStep
<1>3. ASSUME IInv, SentOnPage, [Next]_vars
      PROVE  [Turn!Step /\ UNCHANGED (IF job.kind = "resume" THEN "resume" ELSE "new")]_<<
                (IF job.kind = "resume" THEN "resume" ELSE "new"), UseNow>>
  <2>1. UNCHANGED job
    BY <1>3 DEF Next, Work, DownloadReferences, Open, ComposeVideo, ComposeImage, Send,
         WatchForChallenge, AwaitVerification, LocateConversation, Poll, PollTimeout, ReadLines,
         ReadImages, LookTimeout, Save, PageError, Rotate, End, Cancel, Accept, Challenge, Write,
         Show, vars
  <2>2. QED
    BY <1>3, <2>1, TurnStep
<1>4. QED
  BY <1>1, <1>2, <1>3, Invariance, PTL DEF Spec, TakesTurn, Turn!Spec
=============================================================================
