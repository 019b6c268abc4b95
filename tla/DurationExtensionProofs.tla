---------------------- MODULE DurationExtensionProofs ----------------------
(***************************************************************************)
(* Proofs about DurationExtension, for any number of tabs, any responses   *)
(* and any number of events.                                               *)
(*                                                                         *)
(* The worker's set is behind the browser's sessions by what is still in   *)
(* the inbox: the invariant says what the set will be once the inbox has   *)
(* been handled (WillBe), and that a session that is attached but does not *)
(* patch yet has a message under way that changes this (Enabling).         *)
(***************************************************************************)
EXTENDS DurationExtension, SequenceTheorems, TLAPS

(* The messages after which a tab joins the worker's set and leaves it.    *)
Joins(m, t)  == m.kind = "enabled" /\ m.tab = t /\ m.ok
Leaves(m, t) == m.kind \in {"detached", "removed"} /\ m.tab = t

WillJoin(s, t) ==
  \E i \in DOMAIN s : Joins(s[i], t) /\ \A j \in DOMAIN s : j > i => ~Leaves(s[j], t)
Silent(s, t) == \A i \in DOMAIN s : ~Joins(s[i], t) /\ ~Leaves(s[i], t)

(* The tab will be in the set, that is now, when s has been handled.       *)
WillBe(s, now, t) == WillJoin(s, t) \/ (Silent(s, t) /\ t \in now)

Synchronised(t) == session[t] = "patching" <=> WillBe(inbox, attachedTabs, t)

(* Only a closed tab is said to be removed; until then the button claims   *)
(* what the set says.                                                      *)
RemovedClosed(t) ==
  \A i \in DOMAIN inbox : inbox[i].kind = "removed" /\ inbox[i].tab = t => ~open[t]
BadgeOK(t) == badge[t] = "ON" /\ open[t] => t \in attachedTabs

(* The answer to attachDebugger() or the call of Fetch.enable.             *)
AttachedMsg(m, t) == m.kind = "attached" /\ m.tab = t /\ m.ok
EnableMsg(m, t)   == m.kind = "enable" /\ m.tab = t
Enabling(t) ==
  session[t] = "attached" =>
    \/ \E i \in DOMAIN inbox : AttachedMsg(inbox[i], t)
    \/ \E i \in DOMAIN outbox : EnableMsg(outbox[i], t)

TabOK(t) == Synchronised(t) /\ RemovedClosed(t) /\ BadgeOK(t) /\ Enabling(t)
IInv == TypeOK /\ \A t \in Tabs : TabOK(t)

-----------------------------------------------------------------------------
(* Queues.                                                                 *)

LEMMA Taking ==
  ASSUME NEW S, NEW s \in Seq(S), s # <<>>
  PROVE  /\ Tail(s) \in Seq(S) /\ Len(s) \in Nat \ {0} /\ DOMAIN s = 1..Len(s)
         /\ Head(s) = s[1] /\ Head(s) \in S
         /\ DOMAIN Tail(s) = 1..(Len(s) - 1)
         /\ \A i \in 1..(Len(s) - 1) : Tail(s)[i] = s[i + 1]
BY HeadTailProperties

LEMMA Adding ==
  ASSUME NEW S, NEW s \in Seq(S), NEW u \in Seq(S)
  PROVE  /\ s \o u \in Seq(S) /\ Len(s) \in Nat /\ Len(u) \in Nat
         /\ DOMAIN s = 1..Len(s) /\ DOMAIN u = 1..Len(u)
         /\ DOMAIN (s \o u) = 1..(Len(s) + Len(u))
         /\ \A i \in 1..Len(s) : (s \o u)[i] = s[i]
         /\ \A i \in 1..Len(u) : (s \o u)[Len(s) + i] = u[i]
BY ConcatProperties

LEMMA OneMore ==
  ASSUME NEW S, NEW s \in Seq(S), NEW m \in S
  PROVE  /\ Append(s, m) \in Seq(S) /\ Len(s) \in Nat
         /\ DOMAIN s = 1..Len(s) /\ DOMAIN Append(s, m) = 1..(Len(s) + 1)
         /\ \A i \in 1..Len(s) : Append(s, m)[i] = s[i]
         /\ Append(s, m)[Len(s) + 1] = m
BY AppendProperties

(* What handling the first message makes of what the set will be.          *)
LEMMA WillBeTaken ==
  ASSUME NEW S, NEW s \in Seq(S), s # <<>>, NEW t, NEW now, NEW next,
         t \in next <=> Joins(Head(s), t) \/ (t \in now /\ ~Leaves(Head(s), t))
  PROVE  WillBe(Tail(s), next, t) <=> WillBe(s, now, t)
<1> DEFINE n == Len(s)
<1>1. /\ n \in Nat \ {0} /\ DOMAIN s = 1..n /\ Head(s) = s[1]
      /\ DOMAIN Tail(s) = 1..(n - 1)
      /\ \A i \in 1..(n - 1) : Tail(s)[i] = s[i + 1]
  BY Taking
<1> HIDE DEF n
<1>2. ~(Joins(s[1], t) /\ Leaves(s[1], t))
  BY DEF Joins, Leaves
<1>3. ASSUME WillJoin(Tail(s), t) PROVE WillJoin(s, t)
  <2>1. PICK i \in 1..(n - 1) : /\ Joins(Tail(s)[i], t)
                                /\ \A j \in 1..(n - 1) : j > i => ~Leaves(Tail(s)[j], t)
    BY <1>1, <1>3 DEF WillJoin
  <2>2. i + 1 \in 1..n /\ Joins(s[i + 1], t)
    BY <1>1, <2>1
  <2>3. ASSUME NEW j \in 1..n, j > i + 1 PROVE ~Leaves(s[j], t)
    <3>1. j - 1 \in 1..(n - 1) /\ j - 1 > i /\ (j - 1) + 1 = j
      BY <1>1, <2>1, <2>3
    <3> QED BY <1>1, <2>1, <3>1
  <2> QED BY <1>1, <2>2, <2>3 DEF WillJoin
<1>4. ASSUME WillJoin(s, t), ~WillJoin(Tail(s), t)
      PROVE  Joins(s[1], t) /\ Silent(Tail(s), t)
  <2>1. PICK i \in 1..n : Joins(s[i], t) /\ \A j \in 1..n : j > i => ~Leaves(s[j], t)
    BY <1>1, <1>4 DEF WillJoin
  <2>2. ASSUME NEW k \in 1..(n - 1), Joins(Tail(s)[k], t), k + 1 >= i PROVE FALSE
    <3>1. \A j \in 1..(n - 1) : j > k => ~Leaves(Tail(s)[j], t)
      <4> TAKE j \in 1..(n - 1)
      <4> HAVE j > k
      <4>1. j + 1 \in 1..n /\ j + 1 > i
        BY <1>1, <2>2
      <4> QED BY <1>1, <2>1, <4>1
    <3> QED BY <1>1, <1>4, <2>2, <3>1 DEF WillJoin
  <2>3. i = 1
    <3>1. CASE i # 1
      <4>1. i - 1 \in 1..(n - 1) /\ (i - 1) + 1 = i
        BY <1>1, <3>1
      <4>2. Joins(Tail(s)[i - 1], t)
        BY <1>1, <2>1, <4>1
      <4>3. (i - 1) + 1 >= i
        BY <4>1
      <4> QED BY <2>2, <4>1, <4>2, <4>3
    <3> QED BY <3>1
  <2>4. \A k \in 1..(n - 1) : ~Joins(Tail(s)[k], t)
    BY <1>1, <2>2, <2>3
  <2>5. \A k \in 1..(n - 1) : ~Leaves(Tail(s)[k], t)
    <3> TAKE k \in 1..(n - 1)
    <3>1. k + 1 \in 1..n /\ k + 1 > i
      BY <1>1, <2>3
    <3> QED BY <1>1, <2>1, <3>1
  <2> QED BY <1>1, <2>1, <2>3, <2>4, <2>5 DEF Silent
<1>5. ASSUME Joins(s[1], t), Silent(Tail(s), t) PROVE WillJoin(s, t)
  <2>1. \A j \in 1..n : j > 1 => ~Leaves(s[j], t)
    <3> TAKE j \in 1..n
    <3> HAVE j > 1
    <3>1. j - 1 \in 1..(n - 1) /\ (j - 1) + 1 = j
      BY <1>1
    <3> QED BY <1>1, <1>5, <3>1 DEF Silent
  <2> QED BY <1>1, <1>5, <2>1 DEF WillJoin
<1>6. Silent(s, t) <=> Silent(Tail(s), t) /\ ~Joins(s[1], t) /\ ~Leaves(s[1], t)
  <2>1. ASSUME Silent(s, t) PROVE Silent(Tail(s), t) /\ ~Joins(s[1], t) /\ ~Leaves(s[1], t)
    <3>1. \A i \in 1..(n - 1) : i + 1 \in 1..n
      BY <1>1
    <3> QED BY <1>1, <2>1, <3>1 DEF Silent
  <2>2. ASSUME Silent(Tail(s), t), ~Joins(s[1], t), ~Leaves(s[1], t) PROVE Silent(s, t)
    <3> SUFFICES ASSUME NEW i \in 1..n PROVE ~Joins(s[i], t) /\ ~Leaves(s[i], t)
      BY <1>1 DEF Silent
    <3>1. i # 1 => i - 1 \in 1..(n - 1) /\ (i - 1) + 1 = i
      BY <1>1
    <3> QED BY <1>1, <2>2, <3>1 DEF Silent
  <2> QED BY <2>1, <2>2
<1> QED BY <1>1, <1>2, <1>3, <1>4, <1>5, <1>6 DEF WillBe

(* Messages that change nothing, and one that does.                        *)
LEMMA WillBeSame ==
  ASSUME NEW S, NEW s \in Seq(S), NEW u \in Seq(S), NEW t, NEW now, Silent(u, t)
  PROVE  WillBe(s \o u, now, t) <=> WillBe(s, now, t)
<1> DEFINE n == Len(s)
           k == Len(u)
           su == s \o u
<1>1. /\ n \in Nat /\ k \in Nat /\ DOMAIN s = 1..n /\ DOMAIN u = 1..k /\ DOMAIN su = 1..(n + k)
      /\ \A i \in 1..n : su[i] = s[i]
      /\ \A i \in 1..k : su[n + i] = u[i]
  BY Adding
<1> HIDE DEF n, k, su
<1>2. \A i \in 1..(n + k) : i \in 1..n \/ (~Joins(su[i], t) /\ ~Leaves(su[i], t))
  <2> TAKE i \in 1..(n + k)
  <2>1. i \in 1..n \/ (i - n \in 1..k /\ n + (i - n) = i)
    BY <1>1
  <2> QED BY <1>1, <2>1 DEF Silent
<1>3. 1..n \subseteq 1..(n + k)
  BY <1>1
<1>4. WillJoin(su, t) <=> WillJoin(s, t)
  BY <1>1, <1>2, <1>3 DEF WillJoin
<1>5. Silent(su, t) <=> Silent(s, t)
  BY <1>1, <1>2, <1>3 DEF Silent
<1> QED BY <1>4, <1>5 DEF WillBe, su

LEMMA WillBeLast ==
  ASSUME NEW S, NEW s \in Seq(S), NEW m \in S, NEW t, NEW now
  PROVE  /\ Joins(m, t) => WillBe(Append(s, m), now, t)
         /\ Leaves(m, t) => ~WillBe(Append(s, m), now, t)
         /\ ~Joins(m, t) /\ ~Leaves(m, t) =>
              (WillBe(Append(s, m), now, t) <=> WillBe(s, now, t))
<1> DEFINE n == Len(s)
           sm == Append(s, m)
<1>1. /\ n \in Nat /\ DOMAIN s = 1..n /\ DOMAIN sm = 1..(n + 1)
      /\ \A i \in 1..n : sm[i] = s[i]
      /\ sm[n + 1] = m
  BY OneMore
<1> HIDE DEF n, sm
<1>2. 1..(n + 1) = 1..n \union {n + 1} /\ \A i \in 1..n : i < n + 1
  BY <1>1
<1>3. Joins(m, t) => WillBe(sm, now, t)
  BY <1>1, <1>2 DEF WillBe, WillJoin
<1>4. Leaves(m, t) => ~WillBe(sm, now, t)
  <2>1. ~(Joins(m, t) /\ Leaves(m, t))
    BY DEF Joins, Leaves
  <2> QED BY <1>1, <1>2, <2>1 DEF WillBe, WillJoin, Silent
<1>5. ~Joins(m, t) /\ ~Leaves(m, t) => (WillBe(sm, now, t) <=> WillBe(s, now, t))
  BY <1>1, <1>2 DEF WillBe, WillJoin, Silent
<1> QED BY <1>3, <1>4, <1>5 DEF sm

-----------------------------------------------------------------------------
(* What a step of each party does to the queues.                           *)

Inbox  == Message(Events \union Answers)
Outbox == Message(Calls)

LEMMA Messages ==
  /\ \A t \in Tabs, ok \in BOOLEAN :
       /\ \A k \in (Events \union Answers) \ OfResponses : About(k, t, ok) \in Inbox
       /\ \A k \in Calls \ OfResponses : About(k, t, ok) \in Outbox
  /\ \A r \in Requests, ok \in BOOLEAN :
       /\ \A k \in (Events \union Answers) \cap OfResponses : AboutResponse(k, r, ok) \in Inbox
       /\ \A k \in Calls \cap OfResponses : AboutResponse(k, r, ok) \in Outbox
BY RequestsAssumption DEF About, AboutResponse, Inbox, Outbox, Message

LEMMA WorkerShape ==
  ASSUME TypeOK, Worker
  PROVE  /\ inbox # <<>> /\ inbox' = Tail(inbox) /\ UNCHANGED browserState
         /\ attachedTabs' \in SUBSET Tabs /\ badge' \in [Tabs -> {"", "ON"}]
         /\ \/ outbox' = outbox
            \/ \E m \in Outbox : outbox' = Append(outbox, m)
         /\ Head(inbox) \in Inbox
         /\ \A t \in Tabs :
              /\ t \in attachedTabs' <=> Joins(Head(inbox), t)
                                           \/ (t \in attachedTabs /\ ~Leaves(Head(inbox), t))
              /\ badge'[t] = "ON" =>
                   \/ Joins(Head(inbox), t)
                   \/ badge[t] = "ON" /\ ~(Head(inbox).kind = "detached" /\ Head(inbox).tab = t)
              /\ AttachedMsg(Head(inbox), t) => outbox' = Append(outbox, About("enable", t, TRUE))
<1> DEFINE m == Head(inbox)
<1>1. inbox # <<>> /\ inbox' = Tail(inbox)
  BY DEF Worker, attachExistingTabs, onActivated, GotTab, onUpdated, onClicked, Attached, Enabled,
         onRemoved, onDetach, onPaused, GotBody, Answered, Continued, Took
<1>2. m \in Inbox
  BY <1>1, Taking DEF TypeOK, Inbox
<1>3. /\ m.tab \in Tabs /\ m.ok \in BOOLEAN
      /\ m.kind \in OfResponses => m.request \in Requests
  BY <1>2 DEF Inbox, Message
<1>4. attachedTabs \in SUBSET Tabs /\ badge \in [Tabs -> {"", "ON"}]
  BY DEF TypeOK
<1>5. /\ \A k \in {"query", "get", "attach", "enable"} : About(k, m.tab, TRUE) \in Outbox
      /\ m.kind \in OfResponses =>
           \A k \in {"getBody", "release", "fulfill", "continue"} :
             AboutResponse(k, m.request, TRUE) \in Outbox
  BY <1>3, Messages DEF Calls, OfResponses
<1> HIDE DEF m
<1> USE DEF Took, NoCall, Call, workerState
<1>6. CASE attachExistingTabs \/ onActivated
  BY <1>1, <1>2, <1>3, <1>4, <1>5, <1>6 DEF attachExistingTabs, onActivated, Joins, Leaves, AttachedMsg, m
<1>7. CASE GotTab \/ onUpdated \/ onClicked
  BY <1>1, <1>2, <1>3, <1>4, <1>5, <1>7
     DEF GotTab, onUpdated, onClicked, ensureAttached, Joins, Leaves, AttachedMsg, m
<1>8. CASE Attached
  <2>1. /\ m.kind = "attached" /\ attachedTabs' = attachedTabs /\ UNCHANGED browserState
        /\ IF m.ok THEN outbox' = Append(outbox, About("enable", m.tab, TRUE)) /\ badge' = badge
           ELSE badge' = [badge EXCEPT ![m.tab] = ""] /\ outbox' = outbox
    BY <1>8 DEF Attached, setBadge, m
  <2>2. badge' \in [Tabs -> {"", "ON"}] /\ \A t \in Tabs : badge'[t] = "ON" => badge[t] = "ON"
    BY <1>3, <1>4, <2>1
  <2> QED BY <1>1, <1>2, <1>3, <1>4, <1>5, <2>1, <2>2 DEF Joins, Leaves, AttachedMsg, m
<1>9. CASE Enabled
  <2>1. /\ m.kind = "enabled" /\ UNCHANGED browserState /\ outbox' = outbox
        /\ IF m.ok THEN /\ attachedTabs' = attachedTabs \union {m.tab}
                        /\ badge' = [badge EXCEPT ![m.tab] = "ON"]
           ELSE badge' = [badge EXCEPT ![m.tab] = ""] /\ attachedTabs' = attachedTabs
    BY <1>9 DEF Enabled, setBadge, m
  <2>2. /\ badge' \in [Tabs -> {"", "ON"}]
        /\ \A t \in Tabs : badge'[t] = "ON" => badge[t] = "ON" \/ (m.ok /\ m.tab = t)
    BY <1>3, <1>4, <2>1
  <2> QED BY <1>1, <1>2, <1>3, <1>4, <2>1, <2>2 DEF Joins, Leaves, AttachedMsg, m
<1>10. CASE onRemoved
  <2>1. /\ m.kind = "removed" /\ UNCHANGED browserState /\ outbox' = outbox
        /\ attachedTabs' = attachedTabs \ {m.tab} /\ badge' = badge
    BY <1>10 DEF onRemoved, m
  <2> QED BY <1>1, <1>2, <1>3, <1>4, <2>1 DEF Joins, Leaves, AttachedMsg, m
<1>11. CASE onDetach
  <2>1. /\ m.kind = "detached" /\ UNCHANGED browserState /\ outbox' = outbox
        /\ attachedTabs' = attachedTabs \ {m.tab} /\ badge' = [badge EXCEPT ![m.tab] = ""]
    BY <1>11 DEF onDetach, setBadge, m
  <2>2. /\ badge' \in [Tabs -> {"", "ON"}]
        /\ \A t \in Tabs : badge'[t] = "ON" => badge[t] = "ON" /\ m.tab # t
    BY <1>3, <1>4, <2>1
  <2> QED BY <1>1, <1>2, <1>3, <1>4, <2>1, <2>2 DEF Joins, Leaves, AttachedMsg, m
<1>12. CASE onPaused \/ GotBody \/ Answered \/ Continued
  <2>1. /\ m.kind \in OfResponses \ {"attached", "enabled", "removed", "detached"}
        /\ UNCHANGED browserState /\ attachedTabs' = attachedTabs /\ badge' = badge
    BY <1>12 DEF onPaused, GotBody, Answered, Continued, OfResponses, m
  <2>2. \/ outbox' = outbox
        \/ \E k \in {"getBody", "release", "fulfill", "continue"} :
             outbox' = Append(outbox, AboutResponse(k, m.request, TRUE))
    BY <1>12 DEF onPaused, GotBody, Answered, Continued, m
  <2>3. outbox' = outbox \/ \E c \in Outbox : outbox' = Append(outbox, c)
    BY <1>5, <2>1, <2>2
  <2> QED BY <1>1, <1>2, <1>3, <1>4, <2>1, <2>3 DEF Joins, Leaves, AttachedMsg, m
<1> QED BY <1>6, <1>7, <1>8, <1>9, <1>10, <1>11, <1>12 DEF Worker

(* What the worker does leaves every tab as it should be.                  *)
LEMMA WorkerStep ==
  ASSUME IInv, Worker
  PROVE  IInv'
<1> DEFINE m == Head(inbox)
<1>0. TypeOK /\ \A t \in Tabs : TabOK(t)
  BY DEF IInv
<1>1. /\ inbox # <<>> /\ inbox' = Tail(inbox) /\ UNCHANGED browserState
      /\ attachedTabs' \in SUBSET Tabs /\ badge' \in [Tabs -> {"", "ON"}]
      /\ outbox' = outbox \/ \E c \in Outbox : outbox' = Append(outbox, c)
      /\ m \in Inbox
      /\ \A t \in Tabs :
           /\ t \in attachedTabs' <=> Joins(m, t) \/ (t \in attachedTabs /\ ~Leaves(m, t))
           /\ badge'[t] = "ON" =>
                \/ Joins(m, t)
                \/ badge[t] = "ON" /\ ~(m.kind = "detached" /\ m.tab = t)
           /\ AttachedMsg(m, t) => outbox' = Append(outbox, About("enable", t, TRUE))
  BY <1>0, WorkerShape
<1>2. /\ inbox \in Seq(Inbox) /\ outbox \in Seq(Outbox)
      /\ Tail(inbox) \in Seq(Inbox) /\ Len(inbox) \in Nat \ {0} /\ DOMAIN inbox = 1..Len(inbox)
      /\ m = inbox[1] /\ DOMAIN Tail(inbox) = 1..(Len(inbox) - 1)
      /\ \A i \in 1..(Len(inbox) - 1) : Tail(inbox)[i] = inbox[i + 1]
  BY <1>0, <1>1, Taking DEF TypeOK, Inbox, Outbox
<1> DEFINE n == Len(inbox)
<1>6. inbox' = Tail(inbox) /\ n \in Nat \ {0} /\ DOMAIN inbox = 1..n /\ DOMAIN inbox' = 1..(n - 1)
      /\ \A i \in 1..(n - 1) : inbox'[i] = inbox[i + 1]
  BY <1>1, <1>2
<1> HIDE DEF m, n
<1>7. outbox \in Seq(Outbox)
  BY <1>2
<1>8. \A c \in Outbox : /\ Append(outbox, c) \in Seq(Outbox)
                       /\ \A i \in DOMAIN outbox : i \in DOMAIN Append(outbox, c)
                                                  /\ Append(outbox, c)[i] = outbox[i]
  BY <1>7, OneMore
<1>10. ASSUME NEW c \in Outbox, outbox' = Append(outbox, c)
       PROVE  \E i \in DOMAIN outbox' : outbox'[i] = c
  <2>1. Len(outbox) + 1 \in DOMAIN Append(outbox, c) /\ Append(outbox, c)[Len(outbox) + 1] = c
    BY <1>7, OneMore
  <2> QED BY <1>10, <2>1
<1>9. outbox' = outbox \/ \E c \in Outbox : outbox' = Append(outbox, c)
  BY <1>1
<1>3. outbox' \in Seq(Outbox)
  BY <1>7, <1>8, <1>9
<1>4. TypeOK'
  BY <1>0, <1>1, <1>2, <1>3 DEF TypeOK, Inbox, Outbox, browserState
<1>5. ASSUME NEW t \in Tabs PROVE TabOK(t)'
  <2>0. Synchronised(t) /\ RemovedClosed(t) /\ BadgeOK(t) /\ Enabling(t)
    BY <1>0 DEF TabOK
  <2>1. session'[t] = session[t] /\ open'[t] = open[t]
    BY <1>1 DEF browserState
  <2>2. Synchronised(t)'
    <3>1. WillBe(Tail(inbox), attachedTabs', t) <=> WillBe(inbox, attachedTabs, t)
      <4>1. inbox \in Seq(Inbox) /\ inbox # <<>>
        BY <1>1, <1>2
      <4>2. t \in attachedTabs' <=> Joins(Head(inbox), t) \/ (t \in attachedTabs /\ ~Leaves(Head(inbox), t))
        BY <1>1 DEF m
      <4> QED BY <4>1, <4>2, WillBeTaken
    <3> QED BY <1>1, <2>0, <2>1, <3>1 DEF Synchronised
  <2>3. \A i \in 1..(n - 1) : i + 1 \in 1..n /\ inbox'[i] = inbox[i + 1]
    BY <1>6
  <2>4. RemovedClosed(t)'
    BY <1>6, <2>0, <2>1, <2>3 DEF RemovedClosed
  <2>5. BadgeOK(t)'
    <3>1. 1 \in DOMAIN inbox
      BY <1>2
    <3>2. m.kind = "removed" /\ m.tab = t => ~open[t]
      BY <1>2, <2>0, <3>1 DEF RemovedClosed
    <3> QED BY <1>1, <2>0, <2>1, <3>2 DEF BadgeOK, Leaves
  <2>6. Enabling(t)'
    <3> SUFFICES ASSUME session[t] = "attached"
                 PROVE  \/ \E i \in DOMAIN inbox' : AttachedMsg(inbox'[i], t)
                        \/ \E i \in DOMAIN outbox' : EnableMsg(outbox'[i], t)
      BY <2>1 DEF Enabling
    <3>1. CASE \E i \in DOMAIN outbox : EnableMsg(outbox[i], t)
      <4>1. PICK i \in DOMAIN outbox : EnableMsg(outbox[i], t)
        BY <3>1
      <4>2. i \in DOMAIN outbox' /\ outbox'[i] = outbox[i]
        BY <1>8, <1>9
      <4> QED BY <4>1, <4>2
    <3>2. CASE AttachedMsg(m, t)
      <4>1. About("enable", t, TRUE) \in Outbox /\ EnableMsg(About("enable", t, TRUE), t)
        BY Messages DEF Calls, OfResponses, About, EnableMsg
      <4>2. outbox' = Append(outbox, About("enable", t, TRUE))
        BY <1>1, <3>2
      <4>3. \E i \in DOMAIN outbox' : outbox'[i] = About("enable", t, TRUE)
        BY <1>10, <4>1, <4>2
      <4> QED BY <4>1, <4>3
    <3>3. CASE ~AttachedMsg(m, t) /\ \E i \in DOMAIN inbox : AttachedMsg(inbox[i], t)
      <4>1. PICK i \in 1..n : AttachedMsg(inbox[i], t)
        BY <1>6, <3>3
      <4>2. i - 1 \in 1..(n - 1) /\ (i - 1) + 1 = i
        <5>1. i # 1
          BY <1>2, <3>3, <4>1
        <5> QED BY <1>6, <4>1, <5>1
      <4>3. i - 1 \in DOMAIN inbox' /\ inbox'[i - 1] = inbox[i]
        BY <1>6, <4>2
      <4> QED BY <4>1, <4>3
    <3> QED BY <2>0, <3>1, <3>2, <3>3 DEF Enabling
  <2> QED BY <2>2, <2>4, <2>5, <2>6 DEF TabOK
<1> QED BY <1>4, <1>5 DEF IInv

(* An answer that changes nothing. *)
Neutral(m) == m.kind \notin Events \union {"enabled"} /\ ~(m.kind = "attached" /\ m.ok)

LEMMA BrowserShape ==
  ASSUME TypeOK, Browser
  PROVE  /\ outbox # <<>> /\ outbox' = Tail(outbox) /\ UNCHANGED <<dola, open, events, workerState>>
         /\ session' \in [Tabs -> Sessions] /\ response' \in [Requests -> Responses]
         /\ DOMAIN body' = Requests
         /\ \/ /\ session' = session
               /\ \/ \E u \in Seq(Inbox) :
                       /\ inbox' = inbox \o u
                       /\ \A i \in DOMAIN u : Neutral(u[i])
                  \/ \E c \in Inbox :
                       /\ inbox' = Append(inbox, c)
                       /\ Neutral(c)
               /\ Head(outbox).kind # "enable"
            \/ \E t \in Tabs :
                 /\ session[t] = "none" /\ session' = [session EXCEPT ![t] = "attached"]
                 /\ inbox' = Append(inbox, About("attached", t, TRUE))
                 /\ Head(outbox).kind # "enable"
            \/ \E t \in Tabs :
                 /\ session' = [session EXCEPT ![t] = "patching"]
                 /\ inbox' = Append(inbox, About("enabled", t, TRUE))
                 /\ Head(outbox).kind = "enable" /\ Head(outbox).tab = t
            \/ \E t \in Tabs :
                 /\ session' = [session EXCEPT ![t] = IF @ = "attached" THEN "refused" ELSE @]
                 /\ inbox' = Append(inbox, About("enabled", t, FALSE))
                 /\ Head(outbox).kind = "enable" /\ Head(outbox).tab = t
<1> DEFINE h == Head(outbox)
<1>1. outbox # <<>> /\ outbox' = Tail(outbox)
  BY DEF Browser, Query, Get, Attach, Enable, GetBody, Fulfill, Continue, Carried
<1>2. h \in Outbox
  BY <1>1, Taking DEF TypeOK, Outbox
<1>3. h.tab \in Tabs /\ (h.kind \in OfResponses => h.request \in Requests)
  BY <1>2 DEF Outbox, Message
<1>4. session \in [Tabs -> Sessions] /\ response \in [Requests -> Responses] /\ DOMAIN body = Requests
  BY DEF TypeOK
<1> HIDE DEF h
<1> USE DEF Carried, Last
<1>5. CASE Query
  <2> DEFINE u == [t \in Tabs |-> About("tab", t, Listed(t))]
  <2>1. /\ h.kind = "query" /\ inbox' = inbox \o u
        /\ UNCHANGED <<browserState, workerState>>
    BY <1>5 DEF Query, h
  <2>2. \A t \in Tabs : Listed(t) \in BOOLEAN /\ About("tab", t, Listed(t)) \in Inbox
    <3> TAKE t \in Tabs
    <3>1. Listed(t) \in BOOLEAN
      BY DEF Listed, TypeOK
    <3> QED BY <3>1, Messages DEF Answers, OfResponses
  <2>3. u \in Seq(Inbox) /\ \A i \in DOMAIN u : Neutral(u[i])
    <3>1. \A i \in Tabs : Neutral(u[i])
      BY DEF About, Neutral, Events
    <3>2. u \in [1..NumTabs -> Inbox] /\ NumTabs \in Nat
      BY <2>2, TabsAssumption DEF Tabs
    <3> QED BY <3>1, <3>2
  <2> HIDE DEF u
  <2> QED BY <1>1, <1>4, <2>1, <2>3 DEF browserState, h
<1>6. CASE Get
  <2>1. /\ h.kind = "get" /\ inbox' = Append(inbox, About("tab", h.tab, Listed(h.tab)))
        /\ UNCHANGED <<browserState, workerState>>
    BY <1>6 DEF Get, h
  <2>2. Listed(h.tab) \in BOOLEAN
    BY <1>3 DEF Listed, TypeOK
  <2>3. About("tab", h.tab, Listed(h.tab)) \in Inbox /\ About("tab", h.tab, Listed(h.tab)).kind = "tab"
    BY <1>3, <2>2, Messages DEF Answers, OfResponses, About
  <2> QED BY <1>1, <1>4, <2>1, <2>3 DEF browserState, Events, Neutral, h
<1>7. CASE Attach
  <2>1. h.kind = "attach" /\ UNCHANGED <<dola, open, response, body, events, workerState>>
    BY <1>7 DEF Attach, h
  <2>2. CASE /\ session[h.tab] = "none" /\ session' = [session EXCEPT ![h.tab] = "attached"]
             /\ inbox' = Append(inbox, About("attached", h.tab, TRUE))
    <3>1. session' \in [Tabs -> Sessions]
      BY <1>3, <1>4, <2>2 DEF Sessions
    <3> QED BY <1>1, <1>3, <1>4, <2>1, <2>2, <3>1 DEF h
  <2>3. CASE session' = session /\ inbox' = Append(inbox, About("attached", h.tab, FALSE))
    <3>1. /\ About("attached", h.tab, FALSE) \in Inbox
          /\ About("attached", h.tab, FALSE).kind = "attached" /\ ~About("attached", h.tab, FALSE).ok
      BY <1>3, Messages DEF Answers, OfResponses, About
    <3> QED BY <1>1, <1>4, <2>1, <2>3, <3>1 DEF Neutral, Events, h
  <2> QED BY <1>7, <2>2, <2>3 DEF Attach, h
<1>8. CASE Enable
  <2>1. h.kind = "enable" /\ UNCHANGED <<dola, open, response, body, events, workerState>>
    BY <1>8 DEF Enable, h
  <2>2. CASE /\ session' = [session EXCEPT ![h.tab] = "patching"]
             /\ inbox' = Append(inbox, About("enabled", h.tab, TRUE))
    <3>1. session' \in [Tabs -> Sessions]
      BY <1>3, <1>4, <2>2 DEF Sessions
    <3> QED BY <1>1, <1>3, <1>4, <2>1, <2>2, <3>1 DEF h
  <2>3. CASE /\ session' = [session EXCEPT ![h.tab] = IF @ = "attached" THEN "refused" ELSE @]
             /\ inbox' = Append(inbox, About("enabled", h.tab, FALSE))
    <3>1. session' \in [Tabs -> Sessions]
      BY <1>3, <1>4, <2>3 DEF Sessions
    <3> QED BY <1>1, <1>3, <1>4, <2>1, <2>3, <3>1 DEF h
  <2> QED BY <1>8, <2>2, <2>3 DEF Enable, h
<1>9. CASE GetBody \/ Fulfill \/ Continue
  <2>1. /\ h.kind \in {"getBody", "fulfill", "release", "continue"} /\ session' = session
        /\ UNCHANGED <<dola, open, events, workerState>>
    BY <1>9 DEF GetBody, Fulfill, Continue, browserState, h
  <2>2. h.request \in Requests
    BY <1>3, <2>1 DEF OfResponses
  <2>3. PICK k \in {"gotBody", "fulfilled", "released", "continued"}, ok \in BOOLEAN :
          inbox' = Append(inbox, AboutResponse(k, h.request, ok))
    <3>1. Here(h.request) \in BOOLEAN
      BY DEF Here
    <3> QED BY <1>9, <3>1 DEF GetBody, Fulfill, Continue, h
  <2>4. AboutResponse(k, h.request, ok) \in Inbox /\ AboutResponse(k, h.request, ok).kind = k
    BY <2>2, <2>3, Messages DEF Answers, OfResponses, AboutResponse
  <2>5. response' \in [Requests -> Responses]
    BY <1>4, <1>9, <2>2 DEF GetBody, Fulfill, Continue, browserState, Responses
  <2>6. DOMAIN body' = Requests
    BY <1>4, <1>9 DEF GetBody, Fulfill, Continue, browserState
  <2> QED BY <1>1, <2>1, <2>3, <2>4, <2>5, <2>6, <1>4 DEF Neutral, Events, h
<1> QED BY <1>5, <1>6, <1>7, <1>8, <1>9 DEF Browser

(* A queue that got a message, and one that got several.                   *)
LEMMA Grown ==
  ASSUME NEW S, NEW s \in Seq(S), NEW c \in S
  PROVE  /\ Append(s, c) \in Seq(S)
         /\ \A i \in DOMAIN s : i \in DOMAIN Append(s, c) /\ Append(s, c)[i] = s[i]
         /\ \A i \in DOMAIN Append(s, c) : i \in DOMAIN s \/ Append(s, c)[i] = c
         /\ \E i \in DOMAIN Append(s, c) : Append(s, c)[i] = c
<1> DEFINE n == Len(s)
           sc == Append(s, c)
<1>1. /\ sc \in Seq(S) /\ n \in Nat /\ DOMAIN s = 1..n /\ DOMAIN sc = 1..(n + 1)
      /\ \A i \in 1..n : sc[i] = s[i]
      /\ sc[n + 1] = c
  BY OneMore
<1> HIDE DEF n, sc
<1>2. 1..(n + 1) = 1..n \union {n + 1}
  BY <1>1
<1> QED BY <1>1, <1>2 DEF sc

LEMMA GrownBy ==
  ASSUME NEW S, NEW s \in Seq(S), NEW u \in Seq(S)
  PROVE  /\ s \o u \in Seq(S)
         /\ \A i \in DOMAIN s : i \in DOMAIN (s \o u) /\ (s \o u)[i] = s[i]
         /\ \A i \in DOMAIN (s \o u) : i \in DOMAIN s \/ \E k \in DOMAIN u : (s \o u)[i] = u[k]
<1> DEFINE n == Len(s)
           l == Len(u)
           su == s \o u
<1>1. /\ su \in Seq(S) /\ n \in Nat /\ l \in Nat
      /\ DOMAIN s = 1..n /\ DOMAIN u = 1..l /\ DOMAIN su = 1..(n + l)
      /\ \A i \in 1..n : su[i] = s[i]
      /\ \A i \in 1..l : su[n + i] = u[i]
  BY Adding
<1> HIDE DEF n, l, su
<1>2. \A i \in 1..(n + l) : i \in 1..n \/ (i - n \in 1..l /\ n + (i - n) = i)
  BY <1>1
<1>3. \A i \in 1..n : i \in 1..(n + l)
  BY <1>1
<1>4. ASSUME NEW i \in 1..(n + l), i \notin 1..n PROVE \E k \in 1..l : su[i] = u[k]
  BY <1>1, <1>2, <1>4
<1> QED BY <1>1, <1>3, <1>4 DEF su

(* Whatever the browser answers.                                           *)
LEMMA BrowserStep ==
  ASSUME IInv, Browser
  PROVE  IInv'
<1> DEFINE h == Head(outbox)
           n == Len(outbox)
<1>0. TypeOK /\ \A t \in Tabs : TabOK(t)
  BY DEF IInv
<1>1. /\ outbox # <<>> /\ outbox' = Tail(outbox) /\ UNCHANGED <<dola, open, events, workerState>>
      /\ session' \in [Tabs -> Sessions] /\ response' \in [Requests -> Responses]
      /\ DOMAIN body' = Requests
  BY <1>0, BrowserShape
<1>2. inbox \in Seq(Inbox) /\ outbox \in Seq(Outbox) /\ session \in [Tabs -> Sessions]
  BY <1>0 DEF TypeOK, Inbox, Outbox
<1>3. /\ n \in Nat \ {0} /\ DOMAIN outbox = 1..n /\ h = outbox[1] /\ outbox' \in Seq(Outbox)
      /\ DOMAIN outbox' = 1..(n - 1)
      /\ \A i \in 1..(n - 1) : outbox'[i] = outbox[i + 1]
  BY <1>1, <1>2, Taking
<1> HIDE DEF h, n
<1>4. ASSUME NEW t \in Tabs, session[t] = "attached", ~EnableMsg(h, t)
      PROVE  \/ \E i \in DOMAIN inbox : AttachedMsg(inbox[i], t)
             \/ \E i \in DOMAIN outbox' : EnableMsg(outbox'[i], t)
  <2> SUFFICES ASSUME NEW i \in 1..n, EnableMsg(outbox[i], t)
               PROVE  \E j \in DOMAIN outbox' : EnableMsg(outbox'[j], t)
    BY <1>0, <1>3, <1>4 DEF TabOK, Enabling
  <2>1. i # 1
    BY <1>3, <1>4
  <2>2. i - 1 \in 1..(n - 1) /\ (i - 1) + 1 = i
    BY <1>3, <2>1
  <2> QED BY <1>3, <2>2
<1>5. ASSUME inbox' \in Seq(Inbox),
             \A i \in DOMAIN inbox : i \in DOMAIN inbox' /\ inbox'[i] = inbox[i],
             \A i \in DOMAIN inbox' : i \in DOMAIN inbox \/ inbox'[i].kind # "removed",
             \A t \in Tabs : /\ Synchronised(t)'
                             /\ session'[t] = "attached" =>
                                  \/ session[t] = "attached" /\ ~EnableMsg(h, t)
                                  \/ \E i \in DOMAIN inbox' : AttachedMsg(inbox'[i], t)
      PROVE  IInv'
  <2>1. TypeOK'
    BY <1>0, <1>1, <1>3, <1>5 DEF TypeOK, Inbox, Outbox, workerState
  <2>2. ASSUME NEW t \in Tabs PROVE TabOK(t)'
    <3>1. RemovedClosed(t) /\ BadgeOK(t) /\ open'[t] = open[t] /\ badge'[t] = badge[t]
          /\ attachedTabs' = attachedTabs
      BY <1>0, <1>1 DEF TabOK, workerState
    <3>2. RemovedClosed(t)' /\ BadgeOK(t)'
      BY <1>5, <3>1 DEF RemovedClosed, BadgeOK
    <3>3. Enabling(t)'
      BY <1>4, <1>5 DEF Enabling
    <3> QED BY <1>5, <3>2, <3>3 DEF TabOK
  <2> QED BY <2>1, <2>2 DEF IInv
<1>6. attachedTabs' = attachedTabs
  BY <1>1 DEF workerState
<1>7. \A t \in Tabs : Synchronised(t)
  BY <1>0 DEF TabOK
<1>8. ASSUME session' = session, NEW u \in Seq(Inbox), inbox' = inbox \o u,
             \A i \in DOMAIN u : Neutral(u[i]), h.kind # "enable"
      PROVE  IInv'
  <2>1. /\ inbox' \in Seq(Inbox)
        /\ \A i \in DOMAIN inbox : i \in DOMAIN inbox' /\ inbox'[i] = inbox[i]
        /\ \A i \in DOMAIN inbox' : i \in DOMAIN inbox \/ \E k \in DOMAIN u : inbox'[i] = u[k]
    BY <1>2, <1>8, GrownBy
  <2>2. \A t \in Tabs : Synchronised(t)'
    <3> TAKE t \in Tabs
    <3>1. Silent(u, t)
      BY <1>8 DEF Silent, Neutral, Joins, Leaves, Events
    <3>2. WillBe(inbox', attachedTabs, t) <=> WillBe(inbox, attachedTabs, t)
      BY <1>2, <1>8, <3>1, WillBeSame
    <3> QED BY <1>6, <1>7, <1>8, <3>2 DEF Synchronised
  <2>3. \A i \in DOMAIN inbox' : i \in DOMAIN inbox \/ inbox'[i].kind # "removed"
    BY <1>8, <2>1 DEF Neutral, Events
  <2> QED BY <1>5, <1>8, <2>1, <2>2, <2>3 DEF EnableMsg
<1>9. ASSUME NEW c \in Inbox, inbox' = Append(inbox, c), c.kind # "removed",
             \A t \in Tabs :
               /\ session'[t] = "patching" <=> Joins(c, t) \/ session[t] = "patching"
               /\ ~Leaves(c, t)
               /\ session'[t] = "attached" =>
                    \/ session[t] = "attached" /\ ~EnableMsg(h, t)
                    \/ AttachedMsg(c, t)
      PROVE  IInv'
  <2>1. /\ inbox' \in Seq(Inbox)
        /\ \A i \in DOMAIN inbox : i \in DOMAIN inbox' /\ inbox'[i] = inbox[i]
        /\ \A i \in DOMAIN inbox' : i \in DOMAIN inbox \/ inbox'[i] = c
        /\ \E i \in DOMAIN inbox' : inbox'[i] = c
    BY <1>2, <1>9, Grown
  <2>2. \A t \in Tabs : Synchronised(t)'
    <3> TAKE t \in Tabs
    <3>1. /\ Joins(c, t) => WillBe(inbox', attachedTabs, t)
          /\ ~Joins(c, t) => (WillBe(inbox', attachedTabs, t) <=> WillBe(inbox, attachedTabs, t))
      BY <1>2, <1>9, WillBeLast
    <3> QED BY <1>6, <1>7, <1>9, <3>1 DEF Synchronised
  <2>3. \A i \in DOMAIN inbox' : i \in DOMAIN inbox \/ inbox'[i].kind # "removed"
    BY <1>9, <2>1
  <2>4. \A t \in Tabs : session'[t] = "attached" =>
          \/ session[t] = "attached" /\ ~EnableMsg(h, t)
          \/ \E i \in DOMAIN inbox' : AttachedMsg(inbox'[i], t)
    BY <1>9, <2>1
  <2> QED BY <1>5, <2>1, <2>2, <2>3, <2>4
<1>10. ASSUME session' = session, NEW c \in Inbox, inbox' = Append(inbox, c), Neutral(c),
              h.kind # "enable"
       PROVE  IInv'
  BY <1>9, <1>10 DEF Neutral, Events, Joins, Leaves, EnableMsg
<1>11. ASSUME NEW t \in Tabs, session[t] = "none", session' = [session EXCEPT ![t] = "attached"],
              inbox' = Append(inbox, About("attached", t, TRUE)), h.kind # "enable"
       PROVE  IInv'
  <2> DEFINE c == About("attached", t, TRUE)
  <2>1. c \in Inbox /\ c.kind = "attached" /\ c.tab = t /\ c.ok = TRUE
    BY Messages DEF Answers, OfResponses, About
  <2> HIDE DEF c
  <2>2. \A s \in Tabs : session'[s] = IF s = t THEN "attached" ELSE session[s]
    BY <1>2, <1>11
  <2>3. inbox' = Append(inbox, c)
    BY <1>11 DEF c
  <2>4. \A s \in Tabs : /\ ~Joins(c, s) /\ ~Leaves(c, s) /\ ~EnableMsg(h, s)
                        /\ s = t => AttachedMsg(c, s)
    BY <1>11, <2>1 DEF Joins, Leaves, EnableMsg, AttachedMsg
  <2> QED BY <1>9, <1>11, <2>1, <2>2, <2>3, <2>4
<1>12. ASSUME NEW t \in Tabs, session' = [session EXCEPT ![t] = "patching"],
              inbox' = Append(inbox, About("enabled", t, TRUE)), EnableMsg(h, t)
       PROVE  IInv'
  <2> DEFINE c == About("enabled", t, TRUE)
  <2>1. c \in Inbox /\ c.kind = "enabled" /\ c.tab = t /\ c.ok = TRUE
    BY Messages DEF Answers, OfResponses, About
  <2> HIDE DEF c
  <2>2. \A s \in Tabs : session'[s] = IF s = t THEN "patching" ELSE session[s]
    BY <1>2, <1>12
  <2>3. inbox' = Append(inbox, c)
    BY <1>12 DEF c
  <2>4. \A s \in Tabs : (Joins(c, s) <=> s = t) /\ ~Leaves(c, s) /\ (EnableMsg(h, s) => s = t)
    BY <1>12, <2>1 DEF Joins, Leaves, EnableMsg
  <2> QED BY <1>9, <2>1, <2>2, <2>3, <2>4
<1>13. ASSUME NEW t \in Tabs,
              session' = [session EXCEPT ![t] = IF @ = "attached" THEN "refused" ELSE @],
              inbox' = Append(inbox, About("enabled", t, FALSE)), EnableMsg(h, t)
       PROVE  IInv'
  <2> DEFINE c == About("enabled", t, FALSE)
  <2>1. c \in Inbox /\ c.kind = "enabled" /\ c.tab = t /\ c.ok = FALSE
    BY Messages DEF Answers, OfResponses, About
  <2> HIDE DEF c
  <2>2. \A s \in Tabs : session'[s] = IF s = t /\ session[s] = "attached" THEN "refused" ELSE session[s]
    BY <1>2, <1>13
  <2>3. inbox' = Append(inbox, c)
    BY <1>13 DEF c
  <2>4. \A s \in Tabs : ~Joins(c, s) /\ ~Leaves(c, s) /\ (EnableMsg(h, s) => s = t)
    BY <1>13, <2>1 DEF Joins, Leaves, EnableMsg
  <2> QED BY <1>9, <2>1, <2>2, <2>3, <2>4
<1> QED BY <1>0, <1>8, <1>10, <1>11, <1>12, <1>13, BrowserShape DEF EnableMsg, h

(* Whatever the user, the automation and the pages do.                     *)
LEMMA OutsideStep ==
  ASSUME IInv, Outside
  PROVE  IInv'
<1>0. TypeOK /\ \A t \in Tabs : TabOK(t)
  BY DEF IInv
<1>1. /\ inbox \in Seq(Inbox) /\ session \in [Tabs -> Sessions] /\ open \in [Tabs -> BOOLEAN]
      /\ dola \in [Tabs -> BOOLEAN] /\ response \in [Requests -> Responses]
      /\ events \in [Tabs -> Nat] /\ DOMAIN body = Requests
  BY <1>0 DEF TypeOK, Inbox
<1>2. UNCHANGED <<outbox, attachedTabs, badge, body>>
  BY DEF Outside, Startup, Activate, Click, Update, CancelDebugging, Close, Respond, Happens, NoCall,
         workerState
<1>14. 1 \in Tabs
  BY TabsAssumption DEF Tabs
<1>3. events' \in [Tabs -> Nat]
  <2>1. events' = events \/ \E t \in Tabs : Happens(t)
    BY <1>14 DEF Outside, Startup, Activate, Click, Update, CancelDebugging, Close, Respond
  <2>2. ASSUME NEW t \in Tabs, Happens(t) PROVE events' \in [Tabs -> Nat]
    <3>1. events' = [events EXCEPT ![t] = events[t] + 1] /\ events[t] + 1 \in Nat
      BY <1>1, <2>2 DEF Happens
    <3> QED BY <1>1, <3>1
  <2> QED BY <1>1, <2>1, <2>2
<1>4. response' \in [Requests -> Responses]
  BY <1>1 DEF Outside, Startup, Activate, Click, Update, CancelDebugging, Close, Respond, Freed, Responses
<1>5. dola' \in [Tabs -> BOOLEAN]
  BY <1>1 DEF Outside, Startup, Activate, Click, Update, CancelDebugging, Close, Respond
<1>6. ASSUME inbox' \in Seq(Inbox), session' \in [Tabs -> Sessions], open' \in [Tabs -> BOOLEAN],
             \A i \in DOMAIN inbox : i \in DOMAIN inbox' /\ inbox'[i] = inbox[i],
             \A i \in DOMAIN inbox' :
               i \in DOMAIN inbox \/ (inbox'[i].kind = "removed" => ~open'[inbox'[i].tab]),
             \A t \in Tabs : /\ Synchronised(t)'
                             /\ session'[t] = "attached" => session[t] = "attached"
                             /\ open'[t] => open[t]
      PROVE  IInv'
  <2>1. TypeOK'
    BY <1>0, <1>2, <1>3, <1>4, <1>5, <1>6 DEF TypeOK, Inbox, Outbox
  <2>2. ASSUME NEW t \in Tabs PROVE TabOK(t)'
    <3>1. RemovedClosed(t) /\ BadgeOK(t) /\ Enabling(t)
      BY <1>0 DEF TabOK
    <3>2. RemovedClosed(t)'
      BY <1>6, <3>1 DEF RemovedClosed
    <3>3. BadgeOK(t)'
      BY <1>2, <1>6, <3>1 DEF BadgeOK
    <3>4. Enabling(t)'
      BY <1>2, <1>6, <3>1 DEF Enabling
    <3> QED BY <1>6, <3>2, <3>3, <3>4 DEF TabOK
  <2> QED BY <2>1, <2>2 DEF IInv
<1>7. \A t \in Tabs : Synchronised(t)
  BY <1>0 DEF TabOK
(* One message, about tab x if it says that a session ended. *)
<1>8. ASSUME NEW c \in Inbox, inbox' = Append(inbox, c), NEW x \in Tabs,
             c.kind \notin {"enabled"},
             c.kind \in {"detached", "removed"} => c.tab = x,
             c.kind = "removed" => ~open'[x],
             session' \in [Tabs -> Sessions], open' \in [Tabs -> BOOLEAN],
             session'[x] = IF c.kind \in {"detached", "removed"} THEN "none" ELSE session[x],
             \A t \in Tabs : /\ t # x => session'[t] = session[t]
                             /\ open'[t] => open[t]
      PROVE  IInv'
  <2>1. /\ inbox' \in Seq(Inbox)
        /\ \A i \in DOMAIN inbox : i \in DOMAIN inbox' /\ inbox'[i] = inbox[i]
        /\ \A i \in DOMAIN inbox' : i \in DOMAIN inbox \/ inbox'[i] = c
    BY <1>1, <1>8, Grown
  <2>2. ASSUME NEW t \in Tabs PROVE Synchronised(t)'
    <3>1. /\ Leaves(c, t) => ~WillBe(inbox', attachedTabs, t)
          /\ ~Leaves(c, t) => (WillBe(inbox', attachedTabs, t) <=> WillBe(inbox, attachedTabs, t))
      <4>1. ~Joins(c, t)
        BY <1>8 DEF Joins
      <4> QED BY <1>1, <1>8, <4>1, WillBeLast
    <3>2. Leaves(c, t) <=> c.kind \in {"detached", "removed"} /\ t = x
      BY <1>8 DEF Leaves
    <3>3. session'[t] = IF Leaves(c, t) THEN "none" ELSE session[t]
      BY <1>8, <3>2
    <3> QED BY <1>2, <1>7, <3>1, <3>3 DEF Synchronised
  <2>3. \A t \in Tabs : session'[t] = "attached" => session[t] = "attached"
    BY <1>8
  <2>4. \A i \in DOMAIN inbox' :
          i \in DOMAIN inbox \/ (inbox'[i].kind = "removed" => ~open'[inbox'[i].tab])
    BY <1>8, <2>1
  <2> QED BY <1>6, <1>8, <2>1, <2>2, <2>3, <2>4
<1>9. ASSUME NEW c \in Inbox, inbox' = Append(inbox, c), UNCHANGED <<session, open>>,
             c.kind \notin {"enabled", "detached", "removed"}
      PROVE  IInv'
  <2>1. c.kind \notin {"enabled"} /\ ~(c.kind \in {"detached", "removed"}) /\ c.kind # "removed"
    BY <1>9
  <2>2. session' = session /\ open' = open
    BY <1>9
  <2> QED BY <1>1, <1>8, <1>9, <1>14, <2>1, <2>2
<1>10. CASE Startup \/ \E t \in Tabs : Activate(t) \/ Click(t) \/ Update(t)
  <2>1. UNCHANGED <<session, open>>
    BY <1>10 DEF Startup, Activate, Click, Update
  <2>2. PICK t \in Tabs, k \in {"startup", "activated", "clicked", "updated"}, ok \in BOOLEAN :
          inbox' = Append(inbox, About(k, t, ok))
    <3>1. CASE Startup
      BY <1>14, <3>1 DEF Startup, Last
    <3>2. ASSUME NEW t \in Tabs, Activate(t) \/ Click(t) \/ Update(t)
          PROVE  \E k \in {"startup", "activated", "clicked", "updated"}, ok \in BOOLEAN :
                   inbox' = Append(inbox, About(k, t, ok))
      <4>1. CASE Activate(t)
        BY <4>1 DEF Activate, Last
      <4>2. CASE Click(t)
        BY <4>2 DEF Click, Last
      <4>3. CASE Update(t)
        BY <4>3 DEF Update, Last
      <4> QED BY <3>2, <4>1, <4>2, <4>3
    <3> QED BY <1>10, <3>1, <3>2
  <2>3. About(k, t, ok) \in Inbox /\ About(k, t, ok).kind = k
    BY <2>2, Messages DEF Events, OfResponses, About
  <2> QED BY <1>9, <2>1, <2>2, <2>3
<1>11. ASSUME NEW t \in Tabs, CancelDebugging(t) PROVE IInv'
  <2> DEFINE c == About("detached", t, TRUE)
  <2>1. c \in Inbox /\ c.kind = "detached" /\ c.tab = t
    BY Messages DEF Events, OfResponses, About
  <2>2. inbox' = Append(inbox, c) /\ session' = [session EXCEPT ![t] = "none"] /\ open' = open
    BY <1>11 DEF CancelDebugging, Last
  <2> HIDE DEF c
  <2> QED BY <1>1, <1>8, <2>1, <2>2 DEF Sessions
<1>12. ASSUME NEW t \in Tabs, Close(t) PROVE IInv'
  <2> DEFINE gone  == About("removed", t, TRUE)
             ended == About("detached", t, TRUE)
  <2>1. /\ gone \in Inbox /\ gone.kind = "removed" /\ gone.tab = t
        /\ ended \in Inbox /\ ended.kind = "detached" /\ ended.tab = t
    BY Messages DEF Events, OfResponses, About
  <2>2. /\ open' = [open EXCEPT ![t] = FALSE] /\ session' = [session EXCEPT ![t] = "none"]
        /\ \/ inbox' = Append(inbox, gone)
           \/ inbox' = Append(Append(inbox, gone), ended)
           \/ inbox' = Append(Append(inbox, ended), gone)
    <3>1. \A s \in Seq(Inbox), m \in Inbox : s \o <<m>> = Append(s, m)
      BY AppendIsConcat
    <3>2. Append(inbox, gone) \in Seq(Inbox) /\ Append(inbox, ended) \in Seq(Inbox)
      BY <1>1, <2>1, OneMore
    <3>3. /\ open' = [open EXCEPT ![t] = FALSE] /\ session' = [session EXCEPT ![t] = "none"]
          /\ \/ inbox' = inbox \o <<gone>>
             \/ inbox' = (inbox \o <<gone>>) \o <<ended>>
             \/ inbox' = (inbox \o <<ended>>) \o <<gone>>
      BY <1>12 DEF Close
    <3> QED BY <1>1, <2>1, <3>1, <3>2, <3>3
  <2> HIDE DEF gone, ended
  <2>3. /\ session' \in [Tabs -> Sessions] /\ open' \in [Tabs -> BOOLEAN]
        /\ session'[t] = "none" /\ ~open'[t]
        /\ \A s \in Tabs : (s # t => session'[s] = session[s]) /\ (open'[s] => open[s])
    BY <1>1, <2>2 DEF Sessions
  <2>4. CASE inbox' = Append(inbox, gone)
    BY <1>8, <2>1, <2>3, <2>4
  <2>5. ASSUME NEW c \in {gone, ended}, NEW d \in {gone, ended}, inbox' = Append(Append(inbox, c), d)
        PROVE  IInv'
    <3>1. /\ Append(inbox, c) \in Seq(Inbox)
          /\ \A i \in DOMAIN inbox : i \in DOMAIN Append(inbox, c) /\ Append(inbox, c)[i] = inbox[i]
          /\ \A i \in DOMAIN Append(inbox, c) : i \in DOMAIN inbox \/ Append(inbox, c)[i] = c
      BY <1>1, <2>1, <2>5, Grown
    <3>2. /\ inbox' \in Seq(Inbox)
          /\ \A i \in DOMAIN Append(inbox, c) :
               i \in DOMAIN inbox' /\ inbox'[i] = Append(inbox, c)[i]
          /\ \A i \in DOMAIN inbox' : i \in DOMAIN Append(inbox, c) \/ inbox'[i] = d
      BY <2>1, <2>5, <3>1, Grown
    <3>3. ASSUME NEW s \in Tabs PROVE Synchronised(s)'
      <4>1. /\ ~Joins(c, s) /\ ~Joins(d, s) /\ (Leaves(c, s) <=> s = t) /\ (Leaves(d, s) <=> s = t)
        BY <2>1 DEF Joins, Leaves
      <4>2. s # t => (WillBe(Append(inbox, c), attachedTabs, s) <=> WillBe(inbox, attachedTabs, s))
        BY <1>1, <2>1, <4>1, WillBeLast
      <4>3. /\ s # t => (WillBe(inbox', attachedTabs, s) <=> WillBe(Append(inbox, c), attachedTabs, s))
            /\ s = t => ~WillBe(inbox', attachedTabs, s)
        <5> DEFINE q == Append(inbox, c)
        <5>1. q \in Seq(Inbox) /\ d \in Inbox /\ inbox' = Append(q, d)
          BY <2>1, <2>5, <3>1
        <5> HIDE DEF q
        <5>2. /\ s # t => (WillBe(inbox', attachedTabs, s) <=> WillBe(q, attachedTabs, s))
              /\ s = t => ~WillBe(inbox', attachedTabs, s)
          BY <4>1, <5>1, WillBeLast
        <5> QED BY <5>2 DEF q
      <4> QED BY <1>2, <1>7, <2>3, <4>2, <4>3 DEF Synchronised
    <3>4. \A i \in DOMAIN inbox' :
            i \in DOMAIN inbox \/ (inbox'[i].kind = "removed" => ~open'[inbox'[i].tab])
      BY <2>1, <2>3, <3>1, <3>2
    <3>5. \A i \in DOMAIN inbox : i \in DOMAIN inbox' /\ inbox'[i] = inbox[i]
      BY <3>1, <3>2
    <3>6. \A s \in Tabs : session'[s] = "attached" => session[s] = "attached"
      BY <2>3
    <3> QED BY <1>6, <2>3, <3>2, <3>3, <3>4, <3>5, <3>6
  <2> QED BY <2>2, <2>4, <2>5
<1>13. ASSUME NEW r \in Requests, Respond(r) PROVE IInv'
  <2>1. UNCHANGED <<session, open>>
    BY <1>13 DEF Respond
  <2>2. CASE inbox' = inbox
    BY <1>1, <1>2, <1>6, <1>7, <2>1, <2>2 DEF Synchronised
  <2>3. CASE inbox' # inbox
    <3>1. PICK ok \in BOOLEAN : inbox' = Append(inbox, AboutResponse("paused", r, ok))
      BY <1>13, <2>3 DEF Respond, Last
    <3>2. AboutResponse("paused", r, ok) \in Inbox /\ AboutResponse("paused", r, ok).kind = "paused"
      BY Messages DEF Events, OfResponses, AboutResponse
    <3> QED BY <1>9, <2>1, <3>1, <3>2
  <2> QED BY <2>2, <2>3
<1> QED BY <1>10, <1>11, <1>12, <1>13 DEF Outside

-----------------------------------------------------------------------------
LEMMA Initial == Init => IInv
<1> SUFFICES ASSUME Init PROVE IInv
  OBVIOUS
<1>1. TypeOK
  <2>1. inbox \in Seq(Inbox) /\ outbox \in Seq(Outbox)
    BY EmptySeq DEF Init
  <2>2. /\ session \in [Tabs -> Sessions] /\ response \in [Requests -> Responses]
        /\ open \in [Tabs -> BOOLEAN] /\ dola \in [Tabs -> BOOLEAN] /\ events \in [Tabs -> Nat]
        /\ badge \in [Tabs -> {"", "ON"}] /\ attachedTabs \in SUBSET Tabs
    BY DEF Init, Sessions, Responses
  <2>3. DOMAIN body = Requests
    BY RequestsAssumption DEF Init
  <2> QED BY <2>1, <2>2, <2>3 DEF TypeOK, Inbox, Outbox
<1>2. (\A i \in DOMAIN inbox : FALSE) /\ (\A i \in DOMAIN outbox : FALSE)
  <2>1. inbox = <<>> /\ outbox = <<>>
    BY DEF Init
  <2>2. Len(inbox) = 0 /\ Len(outbox) = 0
    BY <2>1, EmptySeq
  <2>3. \A S : \A s \in Seq(S) : DOMAIN s = 1..Len(s)
    OBVIOUS
  <2>4. DOMAIN inbox = 1..Len(inbox) /\ DOMAIN outbox = 1..Len(outbox)
    BY <1>1, <2>3 DEF TypeOK
  <2> QED BY <2>2, <2>4
<1>3. \A t \in Tabs : TabOK(t)
  <2> TAKE t \in Tabs
  <2>1. session[t] = "none" /\ badge[t] = "" /\ attachedTabs = {}
    BY DEF Init
  <2> QED BY <1>2, <2>1 DEF TabOK, Synchronised, WillBe, WillJoin, RemovedClosed, BadgeOK, Enabling
<1> QED BY <1>1, <1>3 DEF IInv

LEMMA Unchanged == IInv /\ UNCHANGED vars => IInv'
BY DEF IInv, vars, TypeOK, TabOK, Synchronised, RemovedClosed, BadgeOK, Enabling

LEMMA Invariance == Spec => []IInv
<1>1. IInv /\ [Next]_vars => IInv'
  BY WorkerStep, BrowserStep, OutsideStep, Unchanged DEF Next
<1> QED BY <1>1, Initial, PTL DEF Spec

(* Every variable keeps its type; in particular every message is about a   *)
(* tab and, where its handler needs one, about a response.                 *)
THEOREM TypeCorrect == Spec => []TypeOK
<1>1. IInv => TypeOK
  BY DEF IInv
<1> QED BY <1>1, Invariance, PTL

(* For any number of tabs and events: once the events of a tab have been   *)
(* handled, the worker's set says whether durations are patched there, the *)
(* button claims it only then, and no attachment is left half done.        *)
THEOREM TabsSettle == Spec => []SettledTabs
<1>1. IInv => SettledTabs
  <2> SUFFICES ASSUME IInv, NEW t \in Tabs, Quiet(t)
               PROVE  /\ t \in attachedTabs <=> session[t] = "patching"
                      /\ badge[t] = "ON" /\ open[t] => session[t] = "patching"
                      /\ session[t] # "attached"
    BY DEF SettledTabs
  <2>1. TabOK(t)
    BY DEF IInv
  <2>2. Silent(inbox, t) /\ ~WillJoin(inbox, t)
    BY DEF Quiet, Silent, WillJoin, Joins, Leaves
  <2>3. session[t] = "patching" <=> t \in attachedTabs
    BY <2>1, <2>2 DEF TabOK, Synchronised, WillBe
  <2>4. session[t] # "attached"
    BY <2>1 DEF TabOK, Enabling, Quiet, AttachedMsg, EnableMsg
  <2> QED BY <2>1, <2>3, <2>4 DEF TabOK, BadgeOK
<1> QED BY <1>1, Invariance, PTL

-----------------------------------------------------------------------------
(* Responses and their handlers.                                           *)

None(q, r)  == Concerning(q, r) = {}
Alone(q, r) == \A i, j \in Concerning(q, r) : i = j
Led(q, r)   == \E i \in Concerning(q, r) : LeadsOn(q[i])

(* What becomes of the messages about a response when the first message of *)
(* a queue is taken, one is added, or several that are about none.         *)
LEMMA TakenFrom ==
  ASSUME NEW S, NEW s \in Seq(S), s # <<>>, NEW r, Alone(s, r)
  PROVE  /\ Alone(Tail(s), r)
         /\ Head(s).request = r => None(Tail(s), r) /\ ~None(s, r)
                                   /\ (Led(s, r) => LeadsOn(Head(s)))
         /\ Head(s).request # r => /\ None(s, r) <=> None(Tail(s), r)
                                   /\ Led(s, r) => Led(Tail(s), r)
<1> DEFINE n == Len(s)
           u == Tail(s)
<1>1. /\ n \in Nat \ {0} /\ DOMAIN s = 1..n /\ Head(s) = s[1]
      /\ DOMAIN u = 1..(n - 1)
      /\ \A i \in 1..(n - 1) : u[i] = s[i + 1]
  BY Taking
<1> HIDE DEF n, u
<1>2. \A i \in 1..(n - 1) : i + 1 \in 1..n /\ i + 1 # 1
  BY <1>1
<1>3. \A i \in 1..n : i = 1 \/ (i - 1 \in 1..(n - 1) /\ (i - 1) + 1 = i)
  BY <1>1
<1>4. \A i \in Concerning(u, r) : i \in Nat /\ i + 1 \in Concerning(s, r) /\ u[i] = s[i + 1]
  BY <1>1, <1>2 DEF Concerning
<1>5. \A i \in Concerning(s, r) : i = 1 \/ (i - 1 \in Concerning(u, r) /\ u[i - 1] = s[i])
  BY <1>1, <1>3 DEF Concerning
<1>6. 1 \in Concerning(s, r) <=> Head(s).request = r
  BY <1>1 DEF Concerning
<1>7. Alone(u, r)
  <2> SUFFICES ASSUME NEW i \in Concerning(u, r), NEW j \in Concerning(u, r)
               PROVE  i = j
    BY DEF Alone
  <2>1. i + 1 = j + 1 /\ i \in Nat /\ j \in Nat
    BY <1>4 DEF Alone
  <2> QED BY <2>1
<1>8. ASSUME Head(s).request = r
      PROVE  None(u, r) /\ ~None(s, r) /\ (Led(s, r) => LeadsOn(Head(s)))
  <2>1. \A i \in Concerning(s, r) : i = 1
    BY <1>6, <1>8 DEF Alone
  <2>2. Concerning(u, r) = {}
    <3>1. \A i \in Concerning(u, r) : i + 1 = 1 /\ i \in Nat /\ i # 0
      BY <1>1, <1>4, <2>1 DEF Concerning
    <3> QED BY <3>1
  <2> QED BY <1>1, <1>6, <1>8, <2>1, <2>2 DEF None, Led
<1>9. ASSUME Head(s).request # r
      PROVE  (None(s, r) <=> None(u, r)) /\ (Led(s, r) => Led(u, r))
  BY <1>4, <1>5, <1>6, <1>9 DEF None, Led
<1> QED BY <1>7, <1>8, <1>9 DEF u

LEMMA AddedTo ==
  ASSUME NEW S, NEW s \in Seq(S), NEW c \in S, NEW r, Alone(s, r)
  PROVE  /\ c.request = r /\ None(s, r) => Alone(Append(s, c), r)
         /\ c.request = r => ~None(Append(s, c), r) /\ (LeadsOn(c) => Led(Append(s, c), r))
         /\ c.request # r => /\ Alone(Append(s, c), r)
                             /\ None(Append(s, c), r) <=> None(s, r)
                             /\ Led(s, r) => Led(Append(s, c), r)
<1> DEFINE n == Len(s)
           sc == Append(s, c)
<1>1. /\ n \in Nat /\ DOMAIN s = 1..n /\ DOMAIN sc = 1..(n + 1)
      /\ \A i \in 1..n : sc[i] = s[i]
      /\ sc[n + 1] = c
  BY OneMore
<1> HIDE DEF n, sc
<1>2. 1..(n + 1) = 1..n \union {n + 1}
  BY <1>1
<1>3. Concerning(sc, r) = Concerning(s, r) \union IF c.request = r THEN {n + 1} ELSE {}
  BY <1>1, <1>2 DEF Concerning
<1>4. \A i \in Concerning(s, r) : sc[i] = s[i]
  BY <1>1 DEF Concerning
<1> QED BY <1>1, <1>3, <1>4 DEF Alone, None, Led, sc

LEMMA OthersAdded ==
  ASSUME NEW S, NEW s \in Seq(S), NEW u \in Seq(S), NEW r,
         \A i \in DOMAIN u : u[i].request # r
  PROVE  /\ Alone(s, r) => Alone(s \o u, r)
         /\ None(s \o u, r) <=> None(s, r)
         /\ Led(s, r) => Led(s \o u, r)
<1>1. /\ \A i \in DOMAIN s : i \in DOMAIN (s \o u) /\ (s \o u)[i] = s[i]
      /\ \A i \in DOMAIN (s \o u) : i \in DOMAIN s \/ \E k \in DOMAIN u : (s \o u)[i] = u[k]
  BY GrownBy
<1>2. Concerning(s \o u, r) = Concerning(s, r)
  BY <1>1 DEF Concerning
<1>3. \A i \in Concerning(s, r) : (s \o u)[i] = s[i]
  BY <1>1 DEF Concerning
<1> QED BY <1>2, <1>3 DEF Alone, None, Led

Handled(r) ==
  /\ Alone(inbox, r) /\ Alone(outbox, r)
  /\ None(inbox, r) \/ None(outbox, r)
  /\ response[r] = "expected" => None(inbox, r) /\ None(outbox, r)
  /\ response[r] = "paused" => ~None(outbox, r) \/ Led(inbox, r)

LEMMA HandledIsOnce == HandledOnce <=> \A r \in Requests : Handled(r)
BY DEF HandledOnce, Handled, Alone, None, Led

(* The worker handles an answer about a response with a call about it, or  *)
(* with none when the response went on.                                    *)
LEMMA WorkerHandles ==
  ASSUME TypeOK, Worker, NEW r \in Requests, Handled(r)
  PROVE  Handled(r)'
<1> DEFINE m == Head(inbox)
<1>0. inbox \in Seq(Inbox) /\ outbox \in Seq(Outbox)
  BY DEF TypeOK, Inbox, Outbox
<1>1. /\ inbox # <<>> /\ inbox' = Tail(inbox) /\ response' = response /\ m \in Inbox
      /\ inbox \in Seq(Inbox) /\ outbox \in Seq(Outbox)
  BY <1>0, WorkerShape DEF browserState
<1>2. m.tab \in Tabs /\ (m.kind \in OfResponses <=> m.request # NoRequest)
      /\ m.request \in Requests \union {NoRequest}
  BY <1>1 DEF Inbox, Message
<1>3. r # NoRequest
  BY RequestsAssumption
<1>4. \/ outbox' = outbox /\ ~(m.request = r /\ LeadsOn(m))
      \/ \E c \in Outbox : /\ outbox' = Append(outbox, c)
                           /\ c.request = r <=> m.request = r
  <2> USE DEF Took, NoCall, Call
  <2> HIDE DEF m
  <2>1. CASE attachExistingTabs \/ onActivated \/ GotTab \/ onUpdated \/ onClicked \/ Attached
    <3>0. m.kind \in {"startup", "activated", "tab", "updated", "clicked", "attached"}
      BY <2>1 DEF attachExistingTabs, onActivated, GotTab, onUpdated, onClicked, Attached, m
    <3>1. m.request # r
      BY <1>2, <1>3, <3>0 DEF OfResponses
    <3>2. \/ outbox' = outbox
          \/ \E k \in {"query", "get", "attach", "enable"} :
               outbox' = Append(outbox, About(k, m.tab, TRUE))
      <4>1. CASE attachExistingTabs \/ onActivated \/ GotTab \/ onUpdated \/ onClicked
        BY <4>1 DEF attachExistingTabs, onActivated, GotTab, onUpdated, onClicked, ensureAttached, m
      <4>2. CASE Attached
        BY <4>2 DEF Attached, m
      <4> QED BY <2>1, <4>1, <4>2
    <3>3. \A k \in {"query", "get", "attach", "enable"} :
            About(k, m.tab, TRUE) \in Outbox
      BY <1>2, Messages DEF Calls, OfResponses
    <3>4. ASSUME NEW k \in {"query", "get", "attach", "enable"},
                 outbox' = Append(outbox, About(k, m.tab, TRUE))
          PROVE  \E c \in Outbox : /\ outbox' = Append(outbox, c)
                                   /\ c.request = r <=> m.request = r
      <4>1. About(k, m.tab, TRUE) \in Outbox
        BY <3>3, <3>4
      <4>2. About(k, m.tab, TRUE).request # r
        BY <1>3 DEF About
      <4> QED BY <3>1, <3>4, <4>1, <4>2
    <3> QED BY <3>1, <3>2, <3>4
  <2>2. CASE Enabled \/ onRemoved \/ onDetach \/ Continued
    <3>1. m.kind \in {"enabled", "removed", "detached", "continued"} /\ outbox' = outbox
      <4>1. CASE Enabled
        BY <4>1 DEF Enabled, m
      <4>2. CASE onDetach
        BY <4>2 DEF onDetach, m
      <4>3. CASE onRemoved \/ Continued
        BY <4>3 DEF onRemoved, Continued, m
      <4> QED BY <2>2, <4>1, <4>2, <4>3
    <3> QED BY <3>1 DEF LeadsOn
  <2>3. CASE onPaused \/ GotBody \/ Answered
    <3>1. m.kind \in OfResponses
      BY <2>3 DEF onPaused, GotBody, Answered, OfResponses, m
    <3>2. m.request \in Requests
      BY <1>2, <3>1
    <3>3. \/ outbox' = outbox /\ ~LeadsOn(m)
          \/ \E k \in {"getBody", "release", "fulfill", "continue"} :
               outbox' = Append(outbox, AboutResponse(k, m.request, TRUE))
      BY <2>3 DEF onPaused, GotBody, Answered, LeadsOn, m
    <3>4. \A k \in {"getBody", "release", "fulfill", "continue"} :
            /\ AboutResponse(k, m.request, TRUE) \in Outbox
            /\ AboutResponse(k, m.request, TRUE).request = m.request
      BY <3>2, Messages DEF Calls, OfResponses, AboutResponse
    <3> QED BY <3>3, <3>4
  <2> QED BY <2>1, <2>2, <2>3 DEF Worker
<1> HIDE DEF m
<1>5. /\ Alone(Tail(inbox), r)
      /\ m.request = r => None(Tail(inbox), r) /\ ~None(inbox, r) /\ (Led(inbox, r) => LeadsOn(m))
      /\ m.request # r => /\ None(inbox, r) <=> None(Tail(inbox), r)
                          /\ Led(inbox, r) => Led(Tail(inbox), r)
  BY <1>1, TakenFrom DEF Handled, m
<1>6. ASSUME outbox' = outbox, ~(m.request = r /\ LeadsOn(m))
      PROVE  Handled(r)'
  BY <1>1, <1>5, <1>6 DEF Handled, Alone, None, Led, Concerning
<1>7. ASSUME NEW c \in Outbox, outbox' = Append(outbox, c), c.request = r <=> m.request = r
      PROVE  Handled(r)'
  <2>1. Alone(outbox, r)
    BY DEF Handled
  <2>2. /\ c.request = r /\ None(outbox, r) => Alone(Append(outbox, c), r)
        /\ c.request = r => ~None(Append(outbox, c), r)
        /\ c.request # r => /\ Alone(Append(outbox, c), r)
                            /\ None(Append(outbox, c), r) <=> None(outbox, r)
    BY <1>1, <2>1, AddedTo
  <2>3. /\ Alone(inbox', r) /\ Alone(outbox', r) /\ (None(inbox', r) \/ None(outbox', r))
        /\ response'[r] = "expected" => None(inbox', r) /\ None(outbox', r)
        /\ response'[r] = "paused" => ~None(outbox', r) \/ Led(inbox', r)
    BY <1>1, <1>5, <1>7, <2>2 DEF Handled
  <2> QED BY <2>3 DEF Handled, Alone, None, Led, Concerning
<1> QED BY <1>4, <1>6, <1>7

(* The browser answers a call about a response with a message about it,    *)
(* after which the handler goes on unless the response does.               *)
LEMMA BrowserHandles ==
  ASSUME TypeOK, Browser, NEW r \in Requests, Handled(r)
  PROVE  Handled(r)'
<1> DEFINE h == Head(outbox)
<1>0. inbox \in Seq(Inbox) /\ outbox \in Seq(Outbox) /\ response \in [Requests -> Responses]
  BY DEF TypeOK, Inbox, Outbox
<1>1. outbox # <<>> /\ outbox' = Tail(outbox)
  BY DEF Browser, Query, Get, Attach, Enable, GetBody, Fulfill, Continue, Carried
<1>2. h \in Outbox
  BY <1>0, <1>1, Taking
<1>3. h.tab \in Tabs /\ (h.kind \in OfResponses <=> h.request # NoRequest)
      /\ h.request \in Requests \union {NoRequest} /\ r # NoRequest
  BY <1>2, RequestsAssumption DEF Outbox, Message
<1> HIDE DEF h
<1>4. /\ Alone(outbox', r)
      /\ h.request = r => None(outbox', r) /\ ~None(outbox, r)
      /\ h.request # r => (None(outbox, r) <=> None(outbox', r))
  BY <1>0, <1>1, TakenFrom DEF Handled, h
(* A call about a tab. *)
<1>5. ASSUME NEW u \in Seq(Inbox), inbox' = inbox \o u, \A i \in DOMAIN u : u[i].request # r,
             h.request # r, response' = response
      PROVE  Handled(r)'
  <2>1. /\ Alone(inbox, r) => Alone(inbox', r)
        /\ None(inbox', r) <=> None(inbox, r)
        /\ Led(inbox, r) => Led(inbox', r)
    BY <1>0, <1>5, OthersAdded
  <2>2. /\ Alone(inbox', r) /\ Alone(outbox', r) /\ (None(inbox', r) \/ None(outbox', r))
        /\ response'[r] = "expected" => None(inbox', r) /\ None(outbox', r)
        /\ response'[r] = "paused" => ~None(outbox', r) \/ Led(inbox', r)
    BY <1>4, <1>5, <2>1 DEF Handled
  <2> QED BY <2>2 DEF Handled, Alone, None, Led, Concerning
(* One answer. *)
<1>6. ASSUME NEW c \in Inbox, inbox' = Append(inbox, c), c.request = h.request,
             h.request # r => response'[r] = response[r],
             h.request = r =>
               /\ response'[r] = "expected" => response[r] = "expected"
               /\ response'[r] = "paused" => LeadsOn(c)
      PROVE  Handled(r)'
  <2>1. /\ c.request = r /\ None(inbox, r) => Alone(inbox', r)
        /\ c.request = r => ~None(inbox', r) /\ (LeadsOn(c) => Led(inbox', r))
        /\ c.request # r => /\ Alone(inbox', r)
                            /\ None(inbox', r) <=> None(inbox, r)
                            /\ Led(inbox, r) => Led(inbox', r)
    BY <1>0, <1>6, AddedTo DEF Handled
  <2>2. /\ Alone(inbox', r) /\ Alone(outbox', r) /\ (None(inbox', r) \/ None(outbox', r))
        /\ response'[r] = "expected" => None(inbox', r) /\ None(outbox', r)
        /\ response'[r] = "paused" => ~None(outbox', r) \/ Led(inbox', r)
    BY <1>4, <1>6, <2>1 DEF Handled
  <2> QED BY <2>2 DEF Handled, Alone, None, Led, Concerning
<1> USE DEF Carried, Last
<1>7. CASE Query
  <2> DEFINE u == [t \in Tabs |-> About("tab", t, Listed(t))]
  <2>1. h.kind = "query" /\ inbox' = inbox \o u /\ response' = response
    BY <1>7 DEF Query, browserState, h
  <2>2. h.request # r
    BY <1>3, <2>1 DEF OfResponses
  <2>3. \A t \in Tabs : Listed(t) \in BOOLEAN /\ About("tab", t, Listed(t)) \in Inbox
    <3> TAKE t \in Tabs
    <3>1. Listed(t) \in BOOLEAN
      BY DEF Listed, TypeOK
    <3> QED BY <3>1, Messages DEF Answers, OfResponses
  <2>4. u \in Seq(Inbox)
    <3>1. u \in [1..NumTabs -> Inbox] /\ NumTabs \in Nat
      BY <2>3, TabsAssumption DEF Tabs
    <3> QED BY <3>1
  <2>5. \A i \in DOMAIN u : u[i].request # r
    BY <1>3 DEF About
  <2> HIDE DEF u
  <2> QED BY <1>5, <2>1, <2>2, <2>4, <2>5
<1>8. CASE Get \/ Attach \/ Enable
  <2>1. h.kind \in {"get", "attach", "enable"} /\ response' = response
    BY <1>8 DEF Get, Attach, Enable, browserState, h
  <2>2. h.request = NoRequest
    BY <1>3, <2>1 DEF OfResponses
  <2>3. PICK k \in {"tab", "attached", "enabled"}, ok \in BOOLEAN :
          inbox' = Append(inbox, About(k, h.tab, ok))
    <3>1. Listed(h.tab) \in BOOLEAN
      BY <1>3 DEF Listed, TypeOK
    <3>2. CASE Get
      BY <3>1, <3>2 DEF Get, h
    <3>3. CASE Attach
      BY <3>3 DEF Attach, h
    <3>4. CASE Enable
      BY <3>4 DEF Enable, h
    <3> QED BY <1>8, <3>2, <3>3, <3>4
  <2>4. About(k, h.tab, ok) \in Inbox
    BY <1>3, <2>3, Messages DEF Answers, OfResponses
  <2>5. About(k, h.tab, ok).request = NoRequest
    BY DEF About
  <2> QED BY <1>3, <1>6, <2>1, <2>2, <2>3, <2>4, <2>5
<1>9. CASE GetBody \/ Fulfill \/ Continue
  <2>1. h.kind \in {"getBody", "fulfill", "release", "continue"}
    BY <1>9 DEF GetBody, Fulfill, Continue, h
  <2>2. h.request \in Requests
    BY <1>3, <2>1 DEF OfResponses
  <2>3. PICK k \in {"gotBody", "fulfilled", "released", "continued"}, ok \in BOOLEAN :
          /\ inbox' = Append(inbox, AboutResponse(k, h.request, ok))
          /\ \A q \in Requests : q # h.request => response'[q] = response[q]
          /\ response'[h.request] = "expected" => response[h.request] = "expected"
          /\ response'[h.request] = "paused" => k = "gotBody" \/ (k = "fulfilled" /\ ~ok)
    <3> DEFINE Goal(k, ok) ==
          /\ inbox' = Append(inbox, AboutResponse(k, h.request, ok))
          /\ \A q \in Requests : q # h.request => response'[q] = response[q]
          /\ response'[h.request] = "expected" => response[h.request] = "expected"
          /\ response'[h.request] = "paused" => k = "gotBody" \/ (k = "fulfilled" /\ ~ok)
    <3>1. CASE GetBody
      <4>1. PICK ok \in BOOLEAN : inbox' = Append(inbox, AboutResponse("gotBody", h.request, ok))
        BY <3>1 DEF GetBody, h
      <4>2. response' = response
        BY <3>1 DEF GetBody, browserState
      <4> QED BY <4>1, <4>2
    <3>2. CASE Fulfill
      <4>1. \/ /\ response' = [response EXCEPT ![h.request] = "patched"]
               /\ inbox' = Append(inbox, AboutResponse("fulfilled", h.request, TRUE))
            \/ /\ response' = response
               /\ inbox' = Append(inbox, AboutResponse("fulfilled", h.request, FALSE))
        BY <3>2 DEF Fulfill, h
      <4>2. Goal("fulfilled", TRUE) \/ Goal("fulfilled", FALSE)
        BY <1>0, <2>2, <4>1
      <4> QED BY <4>2
    <3>3. CASE Continue
      <4>1. Here(h.request) \in BOOLEAN
        BY DEF Here
      <4>2. /\ response' = [response EXCEPT ![h.request] =
                              IF Here(h.request) THEN "passed" ELSE response[h.request]]
            /\ \/ inbox' = Append(inbox, AboutResponse("released", h.request, Here(h.request)))
               \/ inbox' = Append(inbox, AboutResponse("continued", h.request, Here(h.request)))
        BY <3>3 DEF Continue, h
      <4>3. /\ \A q \in Requests : q # h.request => response'[q] = response[q]
            /\ response'[h.request] = "expected" => response[h.request] = "expected"
            /\ response'[h.request] # "paused"
        BY <1>0, <2>2, <4>2 DEF Here
      <4> QED BY <4>1, <4>2, <4>3
    <3> QED BY <1>9, <3>1, <3>2, <3>3
  <2> DEFINE c == AboutResponse(k, h.request, ok)
  <2>4. c \in Inbox
    BY <2>2, <2>3, Messages DEF Answers, OfResponses
  <2>5. c.request = h.request /\ c.kind = k /\ c.ok = ok
    BY DEF AboutResponse
  <2>6. inbox' = Append(inbox, c)
    BY <2>3
  <2> HIDE DEF c
  <2>7. response'[h.request] = "paused" => LeadsOn(c)
    BY <2>3, <2>5 DEF LeadsOn
  <2> QED BY <1>6, <2>3, <2>4, <2>5, <2>6, <2>7
<1> QED BY <1>7, <1>8, <1>9 DEF Browser

(* A response is intercepted once; what happens to tabs is about no        *)
(* response, and may let some go on.                                       *)
LEMMA OutsideHandles ==
  ASSUME TypeOK, Outside, NEW r \in Requests, Handled(r)
  PROVE  Handled(r)'
<1>0. inbox \in Seq(Inbox) /\ response \in [Requests -> Responses] /\ r # NoRequest
  BY RequestsAssumption DEF TypeOK, Inbox
<1>1. outbox' = outbox
  BY DEF Outside, Startup, Activate, Click, Update, CancelDebugging, Close, Respond, Happens, NoCall
<1> DEFINE Kept(q) == /\ Alone(q, r)
                      /\ None(q, r) <=> None(inbox, r)
                      /\ Led(inbox, r) => Led(q, r)
<1>2. /\ Kept(inbox)
      /\ \A q \in Seq(Inbox), c \in Inbox :
           Kept(q) /\ c.request # r => Append(q, c) \in Seq(Inbox) /\ Kept(Append(q, c))
  <2>1. Kept(inbox)
    BY DEF Handled
  <2>2. ASSUME NEW q \in Seq(Inbox), NEW c \in Inbox, Kept(q), c.request # r
        PROVE  Append(q, c) \in Seq(Inbox) /\ Kept(Append(q, c))
    <3>1. /\ Alone(Append(q, c), r)
          /\ None(Append(q, c), r) <=> None(q, r)
          /\ Led(q, r) => Led(Append(q, c), r)
      BY <2>2, AddedTo
    <3>2. Append(q, c) \in Seq(Inbox)
      BY OneMore
    <3> QED BY <2>2, <3>1, <3>2
  <2> QED BY <2>1, <2>2
<1>2a. ASSUME Kept(inbox'), response'[r] = response[r] \/ response'[r] = "passed"
       PROVE  Handled(r)'
  <2>1. /\ Alone(inbox', r) /\ Alone(outbox', r) /\ (None(inbox', r) \/ None(outbox', r))
        /\ response'[r] = "expected" => None(inbox', r) /\ None(outbox', r)
        /\ response'[r] = "paused" => ~None(outbox', r) \/ Led(inbox', r)
    BY <1>1, <1>2a DEF Handled, Alone, None, Concerning
  <2> QED BY <2>1 DEF Handled, Alone, None, Led, Concerning
<1> HIDE DEF Kept
<1>3. ASSUME NEW c \in Inbox, inbox' = Append(inbox, c), c.request # r,
             response'[r] = response[r] \/ response'[r] = "passed"
      PROVE  Handled(r)'
  <2>1. Kept(Append(inbox, c))
    BY <1>0, <1>2, <1>3
  <2> QED BY <1>3, <1>2a, <2>1
<1>4. 1 \in Tabs
  BY TabsAssumption DEF Tabs
<1>5. \A k \in {"startup", "activated", "clicked", "updated", "detached", "removed"},
        t \in Tabs, ok \in BOOLEAN : About(k, t, ok) \in Inbox
  BY Messages DEF Events, OfResponses
<1>6. \A k, t, ok : About(k, t, ok).request # r
  BY <1>0 DEF About
<1>7. CASE Startup \/ \E t \in Tabs : Activate(t) \/ Click(t) \/ Update(t)
  <2>1. response' = response
    BY <1>7 DEF Startup, Activate, Click, Update
  <2>2. PICK t \in Tabs, k \in {"startup", "activated", "clicked", "updated"}, ok \in BOOLEAN :
          inbox' = Append(inbox, About(k, t, ok))
    BY <1>4, <1>7 DEF Startup, Activate, Click, Update, Last
  <2> QED BY <1>3, <1>5, <1>6, <2>1, <2>2
<1>8. \A t \in Tabs : Freed(t) => response'[r] = response[r] \/ response'[r] = "passed"
  BY DEF Freed
<1>9. ASSUME NEW t \in Tabs, CancelDebugging(t) PROVE Handled(r)'
  BY <1>3, <1>5, <1>6, <1>8, <1>9 DEF CancelDebugging, Last
<1>10. ASSUME NEW t \in Tabs, Close(t) PROVE Handled(r)'
  <2> DEFINE gone  == About("removed", t, TRUE)
             ended == About("detached", t, TRUE)
  <2>1. gone \in Inbox /\ ended \in Inbox /\ gone.request # r /\ ended.request # r
    BY <1>5, <1>6
  <2>2. \/ inbox' = Append(inbox, gone)
        \/ inbox' = Append(Append(inbox, gone), ended)
        \/ inbox' = Append(Append(inbox, ended), gone)
    <3>1. \A q \in Seq(Inbox), m \in Inbox : q \o <<m>> = Append(q, m)
      BY AppendIsConcat
    <3>2. Append(inbox, gone) \in Seq(Inbox) /\ Append(inbox, ended) \in Seq(Inbox)
      BY <1>0, <2>1, OneMore
    <3>3. \/ inbox' = inbox \o <<gone>>
          \/ inbox' = (inbox \o <<gone>>) \o <<ended>>
          \/ inbox' = (inbox \o <<ended>>) \o <<gone>>
      BY <1>10 DEF Close
    <3> QED BY <1>0, <2>1, <3>1, <3>2, <3>3
  <2> HIDE DEF gone, ended
  <2>3. Kept(inbox')
    <3>1. \A c \in {gone, ended} : Append(inbox, c) \in Seq(Inbox) /\ Kept(Append(inbox, c))
      BY <1>0, <1>2, <2>1
    <3>2. \A c, d \in {gone, ended} : Kept(Append(Append(inbox, c), d))
      BY <1>2, <2>1, <3>1
    <3> QED BY <2>2, <3>1, <3>2
  <2>4. response'[r] = response[r] \/ response'[r] = "passed"
    BY <1>8, <1>10 DEF Close
  <2> QED BY <1>2a, <2>3, <2>4
<1>11. ASSUME NEW q \in Requests, Respond(q) PROVE Handled(r)'
  <2>1. CASE inbox' = inbox /\ response' = [response EXCEPT ![q] = "passed"]
    <3>1. response'[r] = response[r] \/ response'[r] = "passed"
      BY <1>0, <2>1
    <3>2. inbox' = inbox
      BY <2>1
    <3> QED BY <1>1, <3>1, <3>2 DEF Handled, Alone, None, Led, Concerning
  <2>2. ASSUME NEW ok \in BOOLEAN, inbox' = Append(inbox, AboutResponse("paused", q, ok)),
               response[q] = "expected", response' = [response EXCEPT ![q] = "paused"]
        PROVE  Handled(r)'
    <3> DEFINE c == AboutResponse("paused", q, ok)
    <3>1. c \in Inbox /\ c.request = q /\ LeadsOn(c)
      BY Messages DEF Events, OfResponses, AboutResponse, LeadsOn
    <3>2. inbox' = Append(inbox, c)
      BY <2>2
    <3> HIDE DEF c
    <3>3. CASE q # r
      BY <1>0, <1>3, <2>2, <3>1, <3>2, <3>3
    <3>4. CASE q = r
      <4>1. None(inbox, r) /\ None(outbox, r) /\ Alone(inbox, r) /\ Alone(outbox, r)
        BY <2>2, <3>4 DEF Handled
      <4>2. Alone(inbox', r) /\ Led(inbox', r)
        BY <1>0, <3>1, <3>2, <3>4, <4>1, AddedTo
      <4>3. response'[r] = "paused"
        BY <1>0, <2>2, <3>4
      <4> QED BY <1>1, <4>1, <4>2, <4>3 DEF Handled, Alone, None, Led, Concerning
    <3> QED BY <3>3, <3>4
  <2> QED BY <1>11, <2>1, <2>2 DEF Respond, Last
<1> QED BY <1>7, <1>9, <1>10, <1>11 DEF Outside

(* However calls fail, tabs close and sessions end, a held response has    *)
(* exactly one handler under way and it will make another attempt; no      *)
(* response is handled twice (service-worker.js:107-131).                  *)
THEOREM HandledByOne == Spec => []HandledOnce
<1> DEFINE RInv == IInv /\ \A r \in Requests : Handled(r)
<1>1. Init => RInv
  <2> SUFFICES ASSUME Init, NEW r \in Requests PROVE Handled(r)
    BY Initial
  <2>1. inbox = <<>> /\ outbox = <<>> /\ response[r] = "expected"
    BY DEF Init
  <2>2. Concerning(<<>>, r) = {}
    BY EmptySeq DEF Concerning
  <2> QED BY <2>1, <2>2 DEF Handled, Alone, None
<1>2. RInv /\ [Next]_vars => RInv'
  <2> SUFFICES ASSUME RInv, [Next]_vars PROVE RInv'
    OBVIOUS
  <2>1. IInv' /\ TypeOK
    BY WorkerStep, BrowserStep, OutsideStep, Unchanged DEF Next, IInv
  <2>2. ASSUME NEW r \in Requests PROVE Handled(r)'
    <3>1. CASE UNCHANGED vars
      BY <3>1 DEF vars, Handled, Alone, None, Led, Concerning
    <3> QED BY <2>1, <3>1, WorkerHandles, BrowserHandles, OutsideHandles DEF Next
  <2> QED BY <2>1, <2>2
<1>3. RInv => HandledOnce
  BY HandledIsOnce
<1> QED BY <1>1, <1>2, <1>3, PTL DEF Spec

-----------------------------------------------------------------------------
(* duration-patch.js.                                                      *)

Required == {"10", "15", "30"}

(* A new option is recognised as what it was made for, whatever fields the *)
(* exemplar has.                                                           *)
LEMMA NewOption ==
  ASSUME NEW d \in Required, NEW e
  PROVE  /\ optionDuration(durationOption(d, e)) = d
         /\ "is_default" \in DOMAIN durationOption(d, e) => durationOption(d, e)["is_default"] = "false"
<1> DEFINE named  == IF "option_key" \in DOMAIN e THEN {} ELSE {"value"}
           shown  == IF "display_text" \in DOMAIN e THEN {} ELSE {"show_name"}
           fields == (DOMAIN e \ {"id"}) \union named \union shown
           o == durationOption(d, e)
<1>1. o = [f \in fields |->
             CASE f \in {"option_key", "value"}        -> d
               [] f \in {"display_text", "show_name"}  -> Label(d)
               [] f = "message_text"                   -> NoText
               [] f = "is_default"                     -> "false"
               [] OTHER                                -> e[f]]
  BY DEF durationOption
<1>2. "option_key" \in fields <=> "option_key" \in DOMAIN e
  OBVIOUS
<1>3. "option_key" \notin DOMAIN e => "value" \in fields
  OBVIOUS
<1> HIDE DEF fields, o
<1>4. DOMAIN o = fields
  BY <1>1
<1>5. /\ "option_key" \in fields => o["option_key"] = d
      /\ "value" \in fields => o["value"] = d
      /\ "is_default" \in fields => o["is_default"] = "false"
  BY <1>1
<1>6. optionDuration(o) = d
  BY <1>2, <1>3, <1>4, <1>5 DEF optionDuration
<1> QED BY <1>4, <1>5, <1>6 DEF o

(* One required duration more, if it is missing. *)
OfferedOnce(s, after, d) ==
  /\ Len(s) \in Nat /\ DOMAIN s = 1..Len(s) /\ DOMAIN after = 1..Len(after)
  /\ \A i \in 1..Len(s) : after[i] = s[i]
  /\ IF Offers(s, d) THEN after = s
     ELSE /\ Len(after) = Len(s) + 1
          /\ optionDuration(after[Len(s) + 1]) = d
          /\ "is_default" \in DOMAIN after[Len(s) + 1] =>
               after[Len(s) + 1]["is_default"] = "false"
  /\ \A x : Offers(after, x) <=> Offers(s, x) \/ x = d

LEMMA OneOffer ==
  ASSUME NEW S, NEW s \in Seq(S), NEW d \in Required, NEW e, durationOption(d, e) \in S
  PROVE  Offer(s, d, e) \in Seq(S) /\ OfferedOnce(s, Offer(s, d, e), d)
<1> DEFINE after == Offer(s, d, e)
           n == Len(s)
           o == durationOption(d, e)
<1>1. n \in Nat /\ DOMAIN s = 1..n
  OBVIOUS
<1>2. CASE Offers(s, d)
  BY <1>1, <1>2 DEF Offer, OfferedOnce
<1>3. CASE ~Offers(s, d)
  <2>1. after = Append(s, o)
    BY <1>3 DEF Offer
  <2>2. /\ after \in Seq(S) /\ DOMAIN after = 1..(n + 1)
        /\ \A i \in 1..n : after[i] = s[i]
        /\ after[n + 1] = o
    BY <2>1, OneMore
  <2>3. Len(after) = n + 1
    BY <2>1
  <2>4. /\ optionDuration(o) = d
        /\ "is_default" \in DOMAIN o => o["is_default"] = "false"
    BY NewOption
  <2> HIDE DEF after, n, o
  <2>5. 1..(n + 1) = 1..n \union {n + 1}
    BY <1>1
  <2>6. \A x : Offers(after, x) <=> Offers(s, x) \/ x = d
    BY <1>1, <2>2, <2>4, <2>5 DEF Offers
  <2> QED BY <1>1, <1>3, <2>2, <2>3, <2>4, <2>6 DEF after, n, OfferedOnce
<1> QED BY <1>2, <1>3

(* The choices of a selector are completed, and nothing is done twice.     *)
LEMMA ChoicesCompleted ==
  ASSUME NEW s, IsList(s)
  PROVE  /\ Completed(s, ensureDurationOptions(s))
         /\ ensureDurationOptions(ensureDurationOptions(s)) = ensureDurationOptions(s)
<1> DEFINE e  == Exemplar(s)
           S  == {s[i] : i \in DOMAIN s} \union {durationOption(d, e) : d \in Required}
           s1 == Offer(s, "10", e)
           s2 == Offer(s1, "15", e)
           s3 == Offer(s2, "30", e)
           n == Len(s)
           n1 == Len(s1)
           n2 == Len(s2)
           n3 == Len(s3)
<1>1. s \in Seq(S) /\ \A d \in Required : durationOption(d, e) \in S
  BY DEF IsList
<1>2. "10" \in Required /\ "15" \in Required /\ "30" \in Required
  BY DEF Required
<1> HIDE DEF e, S
<1>3. s1 \in Seq(S) /\ OfferedOnce(s, s1, "10")
  BY <1>1, <1>2, OneOffer
<1> HIDE DEF s1
<1>4. s2 \in Seq(S) /\ OfferedOnce(s1, s2, "15")
  BY <1>1, <1>2, <1>3, OneOffer
<1> HIDE DEF s2
<1>5. s3 \in Seq(S) /\ OfferedOnce(s2, s3, "30")
  BY <1>1, <1>2, <1>4, OneOffer
<1> HIDE DEF s3
<1>3a. /\ n \in Nat /\ DOMAIN s = 1..n /\ DOMAIN s1 = 1..n1
       /\ \A i \in 1..n : s1[i] = s[i]
       /\ IF Offers(s, "10") THEN s1 = s
          ELSE /\ n1 = n + 1
               /\ optionDuration(s1[n + 1]) = "10"
               /\ "is_default" \in DOMAIN s1[n + 1] => s1[n + 1]["is_default"] = "false"
       /\ \A x : Offers(s1, x) <=> Offers(s, x) \/ x = "10"
  BY <1>3 DEF OfferedOnce
<1>4a. /\ n1 \in Nat /\ DOMAIN s1 = 1..n1 /\ DOMAIN s2 = 1..n2
       /\ \A i \in 1..n1 : s2[i] = s1[i]
       /\ IF Offers(s1, "15") THEN s2 = s1
          ELSE /\ n2 = n1 + 1
               /\ optionDuration(s2[n1 + 1]) = "15"
               /\ "is_default" \in DOMAIN s2[n1 + 1] => s2[n1 + 1]["is_default"] = "false"
       /\ \A x : Offers(s2, x) <=> Offers(s1, x) \/ x = "15"
  BY <1>4 DEF OfferedOnce
<1>5a. /\ n2 \in Nat /\ DOMAIN s2 = 1..n2 /\ DOMAIN s3 = 1..n3
       /\ \A i \in 1..n2 : s3[i] = s2[i]
       /\ IF Offers(s2, "30") THEN s3 = s2
          ELSE /\ n3 = n2 + 1
               /\ optionDuration(s3[n2 + 1]) = "30"
               /\ "is_default" \in DOMAIN s3[n2 + 1] => s3[n2 + 1]["is_default"] = "false"
       /\ \A x : Offers(s3, x) <=> Offers(s2, x) \/ x = "30"
  BY <1>5 DEF OfferedOnce
<1>5b. n3 \in Nat
  BY <1>5
<1>6. ensureDurationOptions(s) = s3
  BY DEF ensureDurationOptions, s1, s2, s3, e
<1>7. \A d \in Required : Offers(s3, d)
  BY <1>3a, <1>4a, <1>5a DEF Required
<1>8. /\ n1 \in {n, n + 1} /\ n2 \in {n1, n1 + 1} /\ n3 \in {n2, n2 + 1} /\ n3 \in Nat
      /\ n1 = n => s1 = s
      /\ n2 = n1 => s2 = s1
      /\ n3 = n2 => s3 = s2
  <2>1. n1 = n + 1 \/ (s1 = s /\ n1 = n)
    BY <1>3a DEF n1, n
  <2>2. n2 = n1 + 1 \/ (s2 = s1 /\ n2 = n1)
    BY <1>4a DEF n1, n2
  <2>3. n3 = n2 + 1 \/ (s3 = s2 /\ n3 = n2)
    BY <1>5a DEF n3, n2
  <2> HIDE DEF n, n1, n2, n3
  <2>4. n \in Nat /\ n1 \in Nat /\ n2 \in Nat /\ n3 \in Nat
    BY <1>3a, <1>4a, <1>5a, <1>5b
  <2> QED BY <2>1, <2>2, <2>3, <2>4
<1> HIDE DEF n, n1, n2, n3
<1>9. /\ n <= n1 /\ n1 <= n2 /\ n2 <= n3 /\ n \in Nat /\ n1 \in Nat /\ n2 \in Nat /\ n3 \in Nat
      /\ n1 <= n + 1 /\ n2 <= n1 + 1 /\ n3 <= n2 + 1
  BY <1>3a, <1>4a, <1>5a, <1>8
<1> DEFINE New(i, d) ==
             /\ optionDuration(s3[i]) = d /\ ~Offers(s, d)
             /\ "is_default" \in DOMAIN s3[i] => s3[i]["is_default"] = "false"
<1>10. /\ \A i \in 1..n1 : s3[i] = s1[i]
       /\ \A i \in 1..n2 : s3[i] = s2[i]
       /\ \A i \in 1..n : s3[i] = s[i]
  BY <1>3a, <1>4a, <1>5a, <1>9
<1>11. \A i \in (n + 1)..n1 : New(i, "10")
  <2> TAKE i \in (n + 1)..n1
  <2>1. i = n + 1 /\ n1 # n /\ i \in 1..n1
    BY <1>9
  <2>2. ~Offers(s, "10")
    BY <1>3a, <2>1 DEF n1, n
  <2> QED BY <1>3a, <1>10, <2>1, <2>2
<1>12. \A i \in (n1 + 1)..n2 : New(i, "15")
  <2> TAKE i \in (n1 + 1)..n2
  <2>1. i = n1 + 1 /\ n2 # n1 /\ i \in 1..n2
    BY <1>9
  <2>2. ~Offers(s1, "15")
    BY <1>4a, <2>1 DEF n1, n2
  <2> QED BY <1>3a, <1>4a, <1>10, <2>1, <2>2
<1>13. \A i \in (n2 + 1)..n3 : New(i, "30")
  <2> TAKE i \in (n2 + 1)..n3
  <2>1. i = n2 + 1 /\ n3 # n2 /\ i \in 1..n3
    BY <1>9
  <2>2. ~Offers(s2, "30")
    BY <1>5a, <2>1 DEF n3, n2
  <2> QED BY <1>3a, <1>4a, <1>5a, <2>1, <2>2
<1>14. Completed(s, s3)
  <2>1. REQUIRED_DURATIONS[1] = "10" /\ REQUIRED_DURATIONS[2] = "15" /\ REQUIRED_DURATIONS[3] = "30"
        /\ DOMAIN REQUIRED_DURATIONS = 1..3 /\ Len(REQUIRED_DURATIONS) = 3
    BY DEF REQUIRED_DURATIONS
  <2>2. \A a \in 1..3 : Offers(s3, REQUIRED_DURATIONS[a])
    BY <1>7, <2>1 DEF Required
  <2> DEFINE Fits(i) ==
        /\ "is_default" \in DOMAIN s3[i] => s3[i]["is_default"] = "false"
        /\ \E a \in 1..3 :
             /\ optionDuration(s3[i]) = REQUIRED_DURATIONS[a]
             /\ ~Offers(s, REQUIRED_DURATIONS[a])
             /\ \A j \in (i + 1)..n3 :
                  \E b \in (a + 1)..3 : optionDuration(s3[j]) = REQUIRED_DURATIONS[b]
  <2>3. ASSUME NEW i \in (n + 1)..n1 PROVE Fits(i)
    <3>1. \A j \in (i + 1)..n3 : j \in (n1 + 1)..n2 \/ j \in (n2 + 1)..n3
      BY <1>9
    <3>2. \A j \in (i + 1)..n3 : \E b \in (1 + 1)..3 : optionDuration(s3[j]) = REQUIRED_DURATIONS[b]
      BY <1>12, <1>13, <2>1, <3>1
    <3> QED BY <1>11, <2>1, <3>2
  <2>4. ASSUME NEW i \in (n1 + 1)..n2 PROVE Fits(i)
    <3>1. \A j \in (i + 1)..n3 : j \in (n2 + 1)..n3
      BY <1>9
    <3>2. \A j \in (i + 1)..n3 : \E b \in (2 + 1)..3 : optionDuration(s3[j]) = REQUIRED_DURATIONS[b]
      BY <1>13, <2>1, <3>1
    <3> QED BY <1>12, <2>1, <3>2
  <2>5. ASSUME NEW i \in (n2 + 1)..n3 PROVE Fits(i)
    <3>1. ~\E j \in (i + 1)..n3 : TRUE
      BY <1>9
    <3> QED BY <1>13, <2>1, <3>1
  <2>6. \A i \in (n + 1)..n3 : i \in (n + 1)..n1 \/ i \in (n1 + 1)..n2 \/ i \in (n2 + 1)..n3
    BY <1>9
  <2>7. \A i \in (n + 1)..n3 : Fits(i)
    BY <2>3, <2>4, <2>5, <2>6
  <2>8. n <= n3 /\ \A i \in DOMAIN s : s3[i] = s[i]
    BY <1>3a, <1>9, <1>10
  <2> QED BY <2>1, <2>2, <2>7, <2>8 DEF Completed, n, n3
<1>15. ensureDurationOptions(s3) = s3
  BY <1>2, <1>7 DEF ensureDurationOptions, Offer
<1> QED BY <1>6, <1>14, <1>15

(* The same of the list of supported durations. *)
Has(s, d) == \E i \in DOMAIN s : s[i] = d

LEMMA OneIncluded ==
  ASSUME NEW S, NEW s \in Seq(S), NEW d \in S
  PROVE  /\ Include(s, d) \in Seq(S)
         /\ \A x : Has(Include(s, d), x) <=> Has(s, x) \/ x = d
<1>1. CASE Has(s, d)
  BY <1>1 DEF Include, Has
<1>2. CASE ~Has(s, d)
  <2> DEFINE after == Append(s, d)
             n == Len(s)
  <2>1. Include(s, d) = after
    BY <1>2 DEF Include, Has
  <2>2. /\ after \in Seq(S) /\ DOMAIN after = 1..(n + 1)
        /\ \A i \in 1..n : after[i] = s[i]
        /\ after[n + 1] = d
    BY OneMore
  <2>3. n \in Nat /\ DOMAIN s = 1..n
    OBVIOUS
  <2> HIDE DEF after, n
  <2>4. 1..(n + 1) = 1..n \union {n + 1}
    BY <2>3
  <2>5. \A x : Has(after, x) <=> Has(s, x) \/ x = d
    BY <2>2, <2>3, <2>4 DEF Has
  <2> QED BY <2>1, <2>2, <2>5
<1> QED BY <1>1, <1>2

LEMMA DurationsIncluded ==
  ASSUME NEW s, IsList(s)
  PROVE  /\ \A d \in Required : Has(ensureDurations(s), d)
         /\ ensureDurations(ensureDurations(s)) = ensureDurations(s)
<1> DEFINE S  == {s[i] : i \in DOMAIN s} \union Required
           s1 == Include(s, "10")
           s2 == Include(s1, "15")
           s3 == Include(s2, "30")
<1>1. s \in Seq(S) /\ "10" \in S /\ "15" \in S /\ "30" \in S
  BY DEF IsList, Required
<1> HIDE DEF S
<1>2. s1 \in Seq(S) /\ \A x : Has(s1, x) <=> Has(s, x) \/ x = "10"
  BY <1>1, OneIncluded
<1> HIDE DEF s1
<1>3. s2 \in Seq(S) /\ \A x : Has(s2, x) <=> Has(s1, x) \/ x = "15"
  BY <1>1, <1>2, OneIncluded
<1> HIDE DEF s2
<1>4. s3 \in Seq(S) /\ \A x : Has(s3, x) <=> Has(s2, x) \/ x = "30"
  BY <1>1, <1>3, OneIncluded
<1> HIDE DEF s3
<1>5. ensureDurations(s) = s3
  BY DEF ensureDurations, s1, s2, s3
<1>6. Has(s3, "10") /\ Has(s3, "15") /\ Has(s3, "30")
  BY <1>2, <1>3, <1>4
<1>7. ensureDurations(s3) = s3
  BY <1>6 DEF ensureDurations, Include, Has
<1> QED BY <1>5, <1>6, <1>7 DEF Required

(* An object of the payload, as the assumption on Payload has it. *)
NodeOK(node) ==
  /\ node = [selector |-> node.selector, lists |-> node.lists, supported |-> node.supported]
  /\ node.selector \in BOOLEAN
  /\ \A i \in DOMAIN node.lists : IsList(node.lists[i])
  /\ \A i \in DOMAIN node.supported : IsList(node.supported[i])

Choices(node) == IF node.selector THEN Each(node.lists, ensureDurationOptions) ELSE node.lists

LEMMA OnePatch ==
  ASSUME NEW node, NEW a, NEW b, NEW c, node = [selector |-> a, lists |-> b, supported |-> c]
  PROVE  patchValue(node) =
           [selector |-> a,
            lists |-> IF a THEN Each(b, ensureDurationOptions) ELSE b,
            supported |-> Each(c, ensureDurations)]
<1> DEFINE x == IF a THEN Each(b, ensureDurationOptions) ELSE b
           y == Each(c, ensureDurations)
<1>1. node.selector = a /\ node.lists = b /\ node.supported = c
  OBVIOUS
<1>2. patchValue(node) = [node EXCEPT !.lists = x, !.supported = y]
  <2>1. patchValue(node) =
          [node EXCEPT !.lists = IF node.selector THEN Each(node.lists, ensureDurationOptions)
                                 ELSE node.lists,
                       !.supported = Each(node.supported, ensureDurations)]
    BY DEF patchValue, Each
  <2> QED BY <1>1, <2>1 DEF Each
<1> HIDE DEF x, y
<1>3. [node EXCEPT !.lists = x, !.supported = y] = [selector |-> a, lists |-> x, supported |-> y]
  <2>1. [node EXCEPT !.lists = x] = [selector |-> a, lists |-> x, supported |-> c]
    OBVIOUS
  <2> DEFINE n == [selector |-> a, lists |-> x, supported |-> c]
  <2>2. [n EXCEPT !.supported = y] = [selector |-> a, lists |-> x, supported |-> y]
    OBVIOUS
  <2> QED BY <2>1, <2>2
<1> QED BY <1>2, <1>3 DEF x, y, Each

LEMMA NodePatched ==
  ASSUME NEW node, NodeOK(node)
  PROVE  LET new == patchValue(node) IN
         /\ \A i \in DOMAIN node.lists :
              IF node.selector THEN Completed(node.lists[i], new.lists[i])
              ELSE new.lists[i] = node.lists[i]
         /\ \A i \in DOMAIN node.supported : \A d \in Required : Has(new.supported[i], d)
         /\ patchValue(new) = new
<1> DEFINE a   == node.selector
           b   == node.lists
           c   == node.supported
           b2  == IF a THEN Each(b, ensureDurationOptions) ELSE b
           c2  == Each(c, ensureDurations)
           b3  == IF a THEN Each(b2, ensureDurationOptions) ELSE b2
           c3  == Each(c2, ensureDurations)
           new == patchValue(node)
<1>1. new = [selector |-> a, lists |-> b2, supported |-> c2]
  BY OnePatch DEF NodeOK
<1>2. patchValue(new) = [selector |-> a, lists |-> b3, supported |-> c3]
  BY <1>1, OnePatch
<1>3. ASSUME a PROVE b3 = b2 /\ DOMAIN b2 = DOMAIN b /\ \A i \in DOMAIN b : Completed(b[i], b2[i])
  <2>1. b2 = [i \in DOMAIN b |-> ensureDurationOptions(b[i])]
    BY <1>3 DEF Each
  <2>2. b3 = [i \in DOMAIN b |-> ensureDurationOptions(ensureDurationOptions(b[i]))]
    BY <1>3 DEF Each
  <2>3. \A i \in DOMAIN b :
           /\ Completed(b[i], ensureDurationOptions(b[i]))
           /\ ensureDurationOptions(ensureDurationOptions(b[i])) = ensureDurationOptions(b[i])
    BY ChoicesCompleted DEF NodeOK
  <2> HIDE DEF b2, b3, b
  <2> QED BY <2>1, <2>2, <2>3
<1>4. ASSUME ~a PROVE b3 = b2 /\ b2 = b
  BY <1>4
<1>5. c3 = c2 /\ DOMAIN c2 = DOMAIN c /\ \A i \in DOMAIN c : \A d \in Required : Has(c2[i], d)
  <2>1. c2 = [i \in DOMAIN c |-> ensureDurations(c[i])]
    BY DEF Each
  <2>2. c3 = [i \in DOMAIN c |-> ensureDurations(ensureDurations(c[i]))]
    BY DEF Each
  <2>3. \A i \in DOMAIN c :
           /\ \A d \in Required : Has(ensureDurations(c[i]), d)
           /\ ensureDurations(ensureDurations(c[i])) = ensureDurations(c[i])
    BY DurationsIncluded DEF NodeOK
  <2> HIDE DEF c2, c3, c
  <2> QED BY <2>1, <2>2, <2>3
<1> HIDE DEF b2, b3, c2, c3, new
<1>6. new.lists = b2 /\ new.supported = c2
  BY <1>1
<1>7. a \in BOOLEAN
  BY DEF NodeOK
<1>8. b3 = b2 /\ c3 = c2
  BY <1>3, <1>4, <1>5, <1>7
<1>9. patchValue(new) = new
  BY <1>1, <1>2, <1>8
<1> QED BY <1>3, <1>4, <1>5, <1>6, <1>7, <1>9 DEF new

(* What a page gets: the answer of the server, or that answer patched once. *)
Delivered ==
  \A r \in Requests :
    body[r] = IF response[r] = "patched" THEN patchDurationPayload(Payload[r]) ELSE Payload[r]

LEMMA DeliveredInitially == Init => Delivered
  BY DEF Init, Delivered

LEMMA DeliveredStep == IInv /\ Delivered /\ [Next]_vars => Delivered'
<1> SUFFICES ASSUME IInv, Delivered, [Next]_vars PROVE Delivered'
  OBVIOUS
<1>1. DOMAIN body = Requests /\ DOMAIN response = Requests /\ outbox \in Seq(Message(Calls))
  BY DEF IInv, TypeOK
<1> DEFINE patched(r) == response[r] = "patched"
           OneStays(r) == body'[r] = body[r] /\ (response'[r] = "patched" <=> patched(r))
<1>2. CASE Fulfill
  <2> DEFINE r == Head(outbox).request
  <2>1. CASE /\ Here(r)
             /\ response' = [response EXCEPT ![r] = "patched"]
             /\ body' = [body EXCEPT ![r] = patchDurationPayload(@)]
    <3> HIDE DEF r
    <3>1. ASSUME NEW q \in Requests, q # r PROVE OneStays(q)
      BY <1>1, <2>1, <3>1
    <3>2. r \in Requests =>
            body'[r] = patchDurationPayload(body[r]) /\ response'[r] = "patched" /\ ~patched(r)
      BY <1>1, <2>1 DEF Here
    <3> HIDE DEF OneStays
    <3>3. ASSUME NEW q \in Requests
          PROVE  body'[q] = IF response'[q] = "patched" THEN patchDurationPayload(Payload[q])
                            ELSE Payload[q]
      BY <3>1, <3>2 DEF Delivered, OneStays
    <3> QED BY <3>3 DEF Delivered
  <2>2. CASE UNCHANGED <<response, body>>
    BY <2>2 DEF Delivered
  <2> QED BY <1>2, <2>1, <2>2 DEF Fulfill
<1>3. ASSUME body' = body, \A q \in Requests : response'[q] = "patched" <=> patched(q)
      PROVE  Delivered'
  BY <1>3 DEF Delivered
<1>4. CASE Continue
  BY <1>1, <1>3, <1>4 DEF Continue, Here
<1>5. ASSUME NEW t \in Tabs, Freed(t), body' = body PROVE Delivered'
  BY <1>1, <1>3, <1>5 DEF Freed, Here
<1>6. ASSUME NEW t \in Tabs, CancelDebugging(t) \/ Close(t) PROVE Delivered'
  BY <1>5, <1>6 DEF CancelDebugging, Close
<1>7. ASSUME NEW q \in Requests, Respond(q) PROVE Delivered'
  BY <1>1, <1>3, <1>7 DEF Respond
<1>8. CASE UNCHANGED <<response, body>>
  BY <1>3, <1>8
<1>9. CASE Worker
  <2>1. UNCHANGED <<response, body>>
    BY <1>9 DEF Worker, attachExistingTabs, onActivated, GotTab, onUpdated, onClicked,
         Attached, Enabled, onRemoved, onDetach, onPaused, GotBody, Answered, Continued,
         browserState
  <2> QED BY <1>8, <2>1
<1>10. CASE Browser
  BY <1>2, <1>4, <1>8, <1>10 DEF Browser, Query, Get, Attach, Enable, GetBody, browserState
<1>11. CASE Outside
  BY <1>6, <1>7, <1>8, <1>11 DEF Outside, Startup, Activate, Click, Update
<1>12. CASE UNCHANGED vars
  BY <1>8, <1>12 DEF vars
<1> QED BY <1>9, <1>10, <1>11, <1>12 DEF Next

(* For every payload, whatever options, fields and lists it has: a page    *)
(* gets the server's answer or that answer with exactly the missing        *)
(* durations behind its own choices, in order, none preselected, and       *)
(* patching it again would change nothing.                                 *)
THEOREM DeliveredIsComplete == Spec => []DeliveredComplete
<1>1. Delivered => DeliveredComplete
  <2> SUFFICES ASSUME Delivered, NEW r \in Requests
               PROVE  IF response[r] # "patched" \/ ~Payload[r].json THEN body[r] = Payload[r]
                      ELSE /\ patchDurationPayload(body[r]) = body[r]
                           /\ DOMAIN body[r].nodes = DOMAIN Payload[r].nodes
                           /\ \A n \in DOMAIN body[r].nodes :
                                LET old == Payload[r].nodes[n]
                                    new == body[r].nodes[n] IN
                                /\ \A i \in DOMAIN old.lists :
                                     IF old.selector THEN Completed(old.lists[i], new.lists[i])
                                     ELSE new.lists[i] = old.lists[i]
                                /\ \A i \in DOMAIN old.supported :
                                     \A d \in {"10", "15", "30"} :
                                       \E j \in DOMAIN new.supported[i] : new.supported[i][j] = d
    BY DEF DeliveredComplete
  <2> DEFINE p == Payload[r]
             json == p.json
             nodes == p.nodes
             again == [n \in DOMAIN nodes |-> patchValue(nodes[n])]
  <2>1. p = [json |-> json, nodes |-> nodes] /\ json \in BOOLEAN
    BY PayloadAssumption
  <2>2. \A n \in DOMAIN nodes : NodeOK(nodes[n])
    BY PayloadAssumption DEF NodeOK
  <2>3. CASE response[r] # "patched" \/ ~json
    BY <2>1, <2>3 DEF Delivered, patchDurationPayload
  <2>4. CASE response[r] = "patched" /\ json
    <3>1. body[r] = patchDurationPayload(p)
      BY <2>4 DEF Delivered
    <3> HIDE DEF p
    <3>2. body[r] = [p EXCEPT !.nodes = again]
      BY <2>4, <3>1 DEF patchDurationPayload, Each
    <3> HIDE DEF again, nodes, json
    <3>3. body[r] = [json |-> json, nodes |-> again]
      BY <2>1, <3>2
    <3>4. \A n \in DOMAIN nodes : patchValue(patchValue(nodes[n])) = patchValue(nodes[n])
      BY <2>2, NodePatched
    <3>5. [n \in DOMAIN again |-> patchValue(again[n])] = again
      <4>1. [n \in DOMAIN again |-> patchValue(again[n])]
              = [n \in DOMAIN nodes |-> patchValue(patchValue(nodes[n]))]
        BY DEF again
      <4>2. again = [n \in DOMAIN nodes |-> patchValue(nodes[n])]
        BY DEF again
      <4> QED BY <3>4, <4>1, <4>2
    <3>6. patchDurationPayload(body[r]) = body[r]
      <4> DEFINE once == body[r]
      <4>1. once.json = json /\ once.nodes = again
        BY <3>3
      <4> HIDE DEF once
      <4>2. patchDurationPayload(once) =
              [once EXCEPT !.nodes = [n \in DOMAIN once.nodes |-> patchValue(once.nodes[n])]]
        BY <2>4, <4>1 DEF patchDurationPayload, Each
      <4>3. patchDurationPayload(once) = [once EXCEPT !.nodes = again]
        BY <3>5, <4>1, <4>2
      <4>4. [once EXCEPT !.nodes = again] = once
        BY <3>3 DEF once
      <4> QED BY <4>3, <4>4 DEF once
    <3>7. body[r].nodes = again /\ DOMAIN again = DOMAIN nodes
          /\ \A n \in DOMAIN nodes : again[n] = patchValue(nodes[n])
      BY <3>3 DEF again
    <3>8. ASSUME NEW n \in DOMAIN nodes
          PROVE  LET old == nodes[n]
                     new == again[n] IN
                 /\ \A i \in DOMAIN old.lists :
                      IF old.selector THEN Completed(old.lists[i], new.lists[i])
                      ELSE new.lists[i] = old.lists[i]
                 /\ \A i \in DOMAIN old.supported :
                      \A d \in {"10", "15", "30"} :
                        \E j \in DOMAIN new.supported[i] : new.supported[i][j] = d
      BY <2>2, <3>7, NodePatched DEF Required, Has
    <3> QED BY <2>4, <3>6, <3>7, <3>8 DEF p, nodes, json
  <2> QED BY <2>1, <2>3, <2>4
<1>2. Spec => []Delivered
  BY Invariance, DeliveredInitially, DeliveredStep, PTL DEF Spec
<1> QED BY <1>1, <1>2, PTL
=============================================================================
