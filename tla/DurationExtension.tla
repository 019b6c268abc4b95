------------------------- MODULE DurationExtension -------------------------
(***************************************************************************)
(* The browser extension of src/dola_gateway/extensions/dola30: a service  *)
(* worker that attaches Chromium's debugger to the tabs that show Dola and *)
(* adds the missing durations to the responses the page asks for.          *)
(*                                                                         *)
(* Every await of the worker is a call answered by the browser, which runs *)
(* on its own: outbox holds the calls not carried out yet, inbox the       *)
(* answers and events not delivered yet, each in the order they were made. *)
(* A handler runs without interruption from one await to the next, and its *)
(* local state is the tab or the request it was called with, so that the   *)
(* two queues are all there is of the handlers in progress.                *)
(***************************************************************************)
EXTENDS Naturals, Sequences

CONSTANTS
  NumTabs,    \* tabs are numbered in the order of chrome.tabs.query
  Requests,   \* responses the pages ask for that match fetchPatterns
  NoRequest,  \* none of them
  TabOf,      \* the tab of each
  Payload,    \* what the server answers: [json, nodes], see Node
  MaxEvents   \* bound: events the browser starts by itself, per tab

Tabs == 1..NumTabs

ASSUME TabsAssumption == NumTabs \in Nat \ {0} /\ MaxEvents \in [Tabs -> Nat]
ASSUME RequestsAssumption ==
  NoRequest \notin Requests /\ TabOf \in [Requests -> Tabs] /\ DOMAIN Payload = Requests

(* A list is a sequence of something. *)
IsList(s) == s \in Seq({s[i] : i \in DOMAIN s})
ASSUME PayloadAssumption ==
  \A r \in Requests :
    LET p == Payload[r] IN
    /\ p = [json |-> p.json, nodes |-> p.nodes] /\ p.json \in BOOLEAN
    /\ \A n \in DOMAIN p.nodes :
         LET node == p.nodes[n] IN
         /\ node = [selector |-> node.selector, lists |-> node.lists, supported |-> node.supported]
         /\ node.selector \in BOOLEAN
         /\ \A i \in DOMAIN node.lists : IsList(node.lists[i])
         /\ \A i \in DOMAIN node.supported : IsList(node.supported[i])

-----------------------------------------------------------------------------
(* duration-patch.js.  A payload is the list of objects patchValue()       *)
(* reaches, inside nested JSON strings too; a body that is no JSON is left *)
(* alone.  Of an object only this is told apart: whether it is a duration  *)
(* selector, its arrays options and option_list, as far as it has them,    *)
(* and its array supported_durations, as a list of at most one.  An option *)
(* is a function on the fields it has.                                     *)

REQUIRED_DURATIONS == <<"10", "15", "30">>
Known  == {"5", "10", "15", "30"}
NoText == ""
Label(d) == CASE d = "10" -> "10s" [] d = "15" -> "15s" [] d = "30" -> "30s"

optionDuration(o) ==
  IF "option_key" \in DOMAIN o THEN o["option_key"]
  ELSE IF "value" \in DOMAIN o THEN o["value"] ELSE NoText

Offers(options, d) == \E i \in DOMAIN options : optionDuration(options[i]) = d

(* Mutant: the duration is named in the field value only. *)
NamedByValue(d, exemplar) ==
  [f \in (DOMAIN exemplar \ {"id"}) \union {"value", "show_name"} |->
     CASE f = "value" -> d [] f = "show_name" -> Label(d)
       [] f = "is_default" -> "false" [] OTHER -> exemplar[f]]

(* A new option has the fields of the exemplar, is no default, and names   *)
(* its duration in the field that optionDuration() reads.                  *)
durationOption(d, exemplar) ==
  LET named  == IF "option_key" \in DOMAIN exemplar THEN {} ELSE {"value"}
      shown  == IF "display_text" \in DOMAIN exemplar THEN {} ELSE {"show_name"}
      fields == (DOMAIN exemplar \ {"id"}) \union named \union shown
  IN [f \in fields |->
        CASE f \in {"option_key", "value"}        -> d
          [] f \in {"display_text", "show_name"}  -> Label(d)
          [] f = "message_text"                   -> NoText
          [] f = "is_default"                     -> "false"
          [] OTHER                                -> exemplar[f]]

NoOption == [f \in {} |-> NoText]
Exemplar(options) ==
  IF \E i \in DOMAIN options : optionDuration(options[i]) \in Known
  THEN options[CHOOSE i \in DOMAIN options :
                 /\ optionDuration(options[i]) \in Known
                 /\ \A j \in 1..(i - 1) : optionDuration(options[j]) \notin Known]
  ELSE NoOption

Offer(options, d, exemplar) ==
  IF Offers(options, d) THEN options ELSE Append(options, durationOption(d, exemplar))
ensureDurationOptions(options) ==
  LET e == Exemplar(options)
  IN Offer(Offer(Offer(options, "10", e), "15", e), "30", e)

Include(durations, d) ==
  IF \E i \in DOMAIN durations : durations[i] = d THEN durations ELSE Append(durations, d)
ensureDurations(durations) == Include(Include(Include(durations, "10"), "15"), "30")

Each(s, F(_)) == [i \in DOMAIN s |-> F(s[i])]

patchValue(node) ==
  [node EXCEPT !.lists = IF node.selector THEN Each(@, ensureDurationOptions) ELSE @,
               !.supported = Each(@, ensureDurations)]

patchDurationPayload(p) == IF p.json THEN [p EXCEPT !.nodes = Each(@, patchValue)] ELSE p

-----------------------------------------------------------------------------
VARIABLES
  dola,          \* the tab's address is one of Dola's
  open,          \* the tab exists
  session,       \* the browser's side of the debugger session of a tab
  attachedTabs,  \* the worker's set
  badge,         \* the text on the extension's button for a tab
  response,      \* where each response is
  body,          \* what the page got instead of Payload
  inbox, outbox, events

vars == <<dola, open, session, attachedTabs, badge, response, body, inbox, outbox, events>>

(* "refused": attached, but Fetch.enable failed. *)
Sessions  == {"none", "attached", "refused", "patching"}
Responses == {"expected", "paused", "passed", "patched"}

Events  == {"startup", "activated", "updated", "clicked", "removed", "detached", "paused"}
Answers == {"tab", "attached", "enabled", "gotBody", "fulfilled", "released", "continued"}
Calls   == {"query", "get", "attach", "enable", "getBody", "fulfill", "release", "continue"}

OfResponses == {"paused", "gotBody", "fulfilled", "released", "continued",
                "getBody", "fulfill", "release", "continue"}

(* A message is about a tab and, if its kind says so, about a response.    *)
Message(kinds) ==
  {m \in [kind : kinds, tab : Tabs, request : Requests \union {NoRequest}, ok : BOOLEAN] :
     m.kind \in OfResponses <=> m.request # NoRequest}

About(k, t, ok)       == [kind |-> k, tab |-> t, request |-> NoRequest, ok |-> ok]
AboutResponse(k, r, ok) == [kind |-> k, tab |-> TabOf[r], request |-> r, ok |-> ok]

TypeOK ==
  /\ dola \in [Tabs -> BOOLEAN] /\ open \in [Tabs -> BOOLEAN]
  /\ session \in [Tabs -> Sessions]
  /\ attachedTabs \in SUBSET Tabs
  /\ badge \in [Tabs -> {"", "ON"}]
  /\ response \in [Requests -> Responses]
  /\ DOMAIN body = Requests
  /\ inbox \in Seq(Message(Events \union Answers))
  /\ outbox \in Seq(Message(Calls))
  /\ events \in [Tabs -> Nat]

Init ==
  /\ dola \in [Tabs -> BOOLEAN]
  /\ open = [t \in Tabs |-> TRUE]
  /\ session = [t \in Tabs |-> "none"]
  /\ attachedTabs = {}
  /\ badge = [t \in Tabs |-> ""]
  /\ response = [r \in Requests |-> "expected"]
  /\ body = Payload
  /\ inbox = <<>> /\ outbox = <<>>
  /\ events = [t \in Tabs |-> 0]

Last(m)  == inbox' = Append(inbox, m)
Took(kind) == inbox # <<>> /\ Head(inbox).kind = kind /\ inbox' = Tail(inbox)
Call(m)  == outbox' = Append(outbox, m)
NoCall   == UNCHANGED outbox

browserState == <<dola, open, session, response, body, events>>
workerState  == <<attachedTabs, badge>>

-----------------------------------------------------------------------------
(* The worker: the handler of the next event, or the continuation of the   *)
(* handler that awaited the next answer.                                   *)

(* The head of ensureAttached(). *)
ensureAttached(t) ==
  IF t \in attachedTabs THEN NoCall ELSE Call(About("attach", t, TRUE))

setBadge(t, text) == badge' = [badge EXCEPT ![t] = text]

(* chrome.runtime.onInstalled and onStartup. *)
attachExistingTabs ==
  /\ Took("startup")
  /\ Call(About("query", Head(inbox).tab, TRUE))
  /\ UNCHANGED <<browserState, workerState>>

(* chrome.tabs.onActivated: safeGetTab(), then its answer; one answer per  *)
(* tab for attachExistingTabs().  ok: there is a tab, and shouldAttachToTab*)
(* holds of its address.                                                   *)
onActivated ==
  /\ Took("activated")
  /\ Call(About("get", Head(inbox).tab, TRUE))
  /\ UNCHANGED <<browserState, workerState>>
GotTab ==
  /\ Took("tab")
  /\ IF Head(inbox).ok THEN ensureAttached(Head(inbox).tab) ELSE NoCall
  /\ UNCHANGED <<browserState, workerState>>

(* chrome.tabs.onUpdated, with the address of the event. *)
onUpdated ==
  /\ Took("updated")
  /\ IF Head(inbox).ok THEN ensureAttached(Head(inbox).tab) ELSE NoCall
  /\ UNCHANGED <<browserState, workerState>>

(* chrome.action.onClicked: any address will do. *)
onClicked ==
  /\ Took("clicked")
  /\ ensureAttached(Head(inbox).tab)
  /\ UNCHANGED <<browserState, workerState>>

(* ensureAttached() after attachDebugger() and after Fetch.enable. *)
Attached ==
  /\ Took("attached")
  /\ IF Head(inbox).ok
     THEN Call(About("enable", Head(inbox).tab, TRUE)) /\ UNCHANGED badge
     ELSE setBadge(Head(inbox).tab, "") /\ NoCall
  /\ UNCHANGED <<browserState, attachedTabs>>
Enabled ==
  /\ Took("enabled")
  /\ IF Head(inbox).ok
     THEN /\ attachedTabs' = attachedTabs \union {Head(inbox).tab}
          /\ setBadge(Head(inbox).tab, "ON")
     ELSE /\ UNCHANGED attachedTabs
          /\ setBadge(Head(inbox).tab, "")
  /\ NoCall
  /\ UNCHANGED browserState

(* chrome.tabs.onRemoved *)
onRemoved ==
  /\ Took("removed")
  /\ attachedTabs' = attachedTabs \ {Head(inbox).tab}
  /\ NoCall
  /\ UNCHANGED <<browserState, badge>>

(* Mutant: the worker's set keeps a tab whose session ended. *)
DetachedKept ==
  /\ Took("detached")
  /\ setBadge(Head(inbox).tab, "")
  /\ NoCall
  /\ UNCHANGED <<browserState, attachedTabs>>

(* chrome.debugger.onDetach *)
onDetach ==
  /\ Took("detached")
  /\ attachedTabs' = attachedTabs \ {Head(inbox).tab}
  /\ setBadge(Head(inbox).tab, "")
  /\ NoCall
  /\ UNCHANGED browserState

(* chrome.debugger.onEvent, handlePausedResponse().  ok: the url is one of *)
(* DURATION_RESPONSE_PARTS.  Whatever fails in its try block, release      *)
(* included, continues the request; that this fails is of no consequence.  *)
onPaused ==
  /\ Took("paused")
  /\ Call(AboutResponse(IF Head(inbox).ok THEN "getBody" ELSE "release",
                        Head(inbox).request, TRUE))
  /\ UNCHANGED <<browserState, workerState>>
(* Mutant: a body that cannot be read is given up. *)
GivenUp ==
  /\ Took("gotBody")
  /\ IF Head(inbox).ok THEN Call(AboutResponse("fulfill", Head(inbox).request, TRUE))
     ELSE NoCall
  /\ UNCHANGED <<browserState, workerState>>

GotBody ==
  /\ Took("gotBody")
  /\ Call(AboutResponse(IF Head(inbox).ok THEN "fulfill" ELSE "continue",
                        Head(inbox).request, TRUE))
  /\ UNCHANGED <<browserState, workerState>>
Answered ==
  /\ Took("fulfilled") \/ Took("released")
  /\ IF Head(inbox).ok THEN NoCall
     ELSE Call(AboutResponse("continue", Head(inbox).request, TRUE))
  /\ UNCHANGED <<browserState, workerState>>
Continued ==
  /\ Took("continued")
  /\ NoCall
  /\ UNCHANGED <<browserState, workerState>>

Worker ==
  \/ attachExistingTabs \/ onActivated \/ GotTab \/ onUpdated \/ onClicked
  \/ Attached \/ Enabled \/ onRemoved \/ onDetach
  \/ onPaused \/ GotBody \/ Answered \/ Continued

-----------------------------------------------------------------------------
(* The browser carries out the next call and answers it.                   *)

Carried(kind) == outbox # <<>> /\ Head(outbox).kind = kind /\ outbox' = Tail(outbox)

Listed(t) == open[t] /\ dola[t]
Query ==
  /\ Carried("query")
  /\ inbox' = inbox \o [t \in Tabs |-> About("tab", t, Listed(t))]
  /\ UNCHANGED <<browserState, workerState>>
Get ==
  /\ Carried("get")
  /\ LET t == Head(outbox).tab IN Last(About("tab", t, Listed(t)))
  /\ UNCHANGED <<browserState, workerState>>

(* One session per tab and extension: attaching a second time fails, as it *)
(* may at any time (an address that is refused, a tab that is gone).       *)
Attach ==
  /\ Carried("attach")
  /\ LET t == Head(outbox).tab IN
     \/ /\ open[t] /\ session[t] = "none"
        /\ session' = [session EXCEPT ![t] = "attached"]
        /\ Last(About("attached", t, TRUE))
     \/ /\ Last(About("attached", t, FALSE))
        /\ UNCHANGED session
  /\ UNCHANGED <<dola, open, response, body, events, workerState>>

Enable ==
  /\ Carried("enable")
  /\ LET t == Head(outbox).tab IN
     \/ /\ session[t] # "none"
        /\ session' = [session EXCEPT ![t] = "patching"]
        /\ Last(About("enabled", t, TRUE))
     \/ /\ session' = [session EXCEPT ![t] = IF @ = "attached" THEN "refused" ELSE @]
        /\ Last(About("enabled", t, FALSE))
  /\ UNCHANGED <<dola, open, response, body, events, workerState>>

Here(r) == response[r] = "paused"

(* A response without a body cannot be read. *)
GetBody ==
  /\ Carried("getBody")
  /\ LET r == Head(outbox).request IN
     \E ok \in BOOLEAN : (ok => Here(r)) /\ Last(AboutResponse("gotBody", r, ok))
  /\ UNCHANGED <<browserState, workerState>>

(* The page gets the patched body, unless the browser rejects the answer.  *)
Fulfill ==
  /\ Carried("fulfill")
  /\ LET r == Head(outbox).request IN
     \/ /\ Here(r)
        /\ response' = [response EXCEPT ![r] = "patched"]
        /\ body' = [body EXCEPT ![r] = patchDurationPayload(@)]
        /\ Last(AboutResponse("fulfilled", r, TRUE))
     \/ /\ Last(AboutResponse("fulfilled", r, FALSE))
        /\ UNCHANGED <<response, body>>
  /\ UNCHANGED <<dola, open, session, events, workerState>>

(* Fetch.continueRequest succeeds as long as the response is held. *)
Continue ==
  /\ Carried("release") \/ Carried("continue")
  /\ LET r == Head(outbox).request
         k == IF Head(outbox).kind = "release" THEN "released" ELSE "continued"
     IN /\ response' = [response EXCEPT ![r] = IF Here(r) THEN "passed" ELSE @]
        /\ Last(AboutResponse(k, r, Here(r)))
  /\ UNCHANGED <<dola, open, session, body, events, workerState>>

Browser == Query \/ Get \/ Attach \/ Enable \/ GetBody \/ Fulfill \/ Continue

-----------------------------------------------------------------------------
(* What the user, the automation and the pages make the browser do.        *)

Happens(t) ==
  /\ events[t] < MaxEvents[t]
  /\ events' = [events EXCEPT ![t] = @ + 1]
  /\ NoCall

(* Held responses go on without the extension when its session ends. *)
Freed(t) ==
  response' = [r \in Requests |->
                 IF TabOf[r] = t /\ Here(r) THEN "passed" ELSE response[r]]

Startup ==
  /\ Happens(1)
  /\ Last(About("startup", 1, TRUE))
  /\ UNCHANGED <<dola, open, session, response, body, workerState>>
Activate(t) ==
  /\ Happens(t) /\ open[t]
  /\ Last(About("activated", t, TRUE))
  /\ UNCHANGED <<dola, open, session, response, body, workerState>>
Click(t) ==
  /\ Happens(t) /\ open[t]
  /\ Last(About("clicked", t, TRUE))
  /\ UNCHANGED <<dola, open, session, response, body, workerState>>

(* A navigation, or one of the later stages of loading a page. *)
Update(t) ==
  /\ Happens(t) /\ open[t]
  /\ \E now \in BOOLEAN : /\ dola' = [dola EXCEPT ![t] = now]
                        /\ Last(About("updated", t, now))
  /\ UNCHANGED <<open, session, response, body, workerState>>

(* The user cancels debugging in the browser's notice. *)
CancelDebugging(t) ==
  /\ Happens(t) /\ session[t] # "none"
  /\ session' = [session EXCEPT ![t] = "none"]
  /\ Freed(t)
  /\ Last(About("detached", t, TRUE))
  /\ UNCHANGED <<dola, open, body, workerState>>

(* A tab is closed; its session, if any, ends, in either order. *)
Close(t) ==
  /\ Happens(t) /\ open[t]
  /\ open' = [open EXCEPT ![t] = FALSE]
  /\ session' = [session EXCEPT ![t] = "none"]
  /\ Freed(t)
  /\ LET gone == <<About("removed", t, TRUE)>>
         ended == <<About("detached", t, TRUE)>>
     IN \/ session[t] = "none" /\ inbox' = inbox \o gone
        \/ session[t] # "none" /\ inbox' = inbox \o gone \o ended
        \/ session[t] # "none" /\ inbox' = inbox \o ended \o gone
  /\ UNCHANGED <<dola, body, workerState>>

(* A response the page asked for: held back if Fetch is enabled.  ok is    *)
(* FALSE for what fetchPatterns let through but the handler does not know. *)
Respond(r) ==
  /\ response[r] = "expected" /\ open[TabOf[r]]
  /\ \/ /\ session[TabOf[r]] = "patching"
        /\ response' = [response EXCEPT ![r] = "paused"]
        /\ \E ok \in BOOLEAN : Last(AboutResponse("paused", r, ok))
     \/ /\ session[TabOf[r]] # "patching"
        /\ response' = [response EXCEPT ![r] = "passed"]
        /\ UNCHANGED inbox
  /\ NoCall
  /\ UNCHANGED <<dola, open, session, body, events, workerState>>

Outside ==
  \/ Startup
  \/ \E t \in Tabs : Activate(t) \/ Click(t) \/ Update(t) \/ CancelDebugging(t) \/ Close(t)
  \/ \E r \in Requests : Respond(r)

Next == Worker \/ Browser \/ Outside

Spec == Init /\ [][Next]_vars

(* The worker's event loop and the browser answer; a worker with an open   *)
(* session is not stopped by the browser.                                  *)
FairSpec == Spec /\ WF_vars(Worker) /\ WF_vars(Browser)

-----------------------------------------------------------------------------
(* No handler is about to run, or is waiting, for this tab. *)
Quiet(t) ==
  /\ \A i \in DOMAIN inbox : inbox[i].tab # t
  /\ \A i \in DOMAIN outbox : outbox[i].tab # t

(* Whatever events attach, detach and close a tab at the same time: when   *)
(* they have been handled the worker's set says whether durations are      *)
(* patched there, the button claims it only then, and a session that does  *)
(* not patch is one whose Fetch.enable was refused (service-worker.js:     *)
(* 74-87; such a session blocks every later attempt).                      *)
SettledTabs ==
  \A t \in Tabs : Quiet(t) =>
    /\ t \in attachedTabs <=> session[t] = "patching"
    /\ badge[t] = "ON" /\ open[t] => session[t] = "patching"
    /\ session[t] # "attached"

(* What a page gets is the server's answer or that answer with exactly the *)
(* missing ones of 10, 15 and 30 seconds added behind its own choices, in  *)
(* this order, each recognisable as what it is and none preselected; to    *)
(* patch it once more changes nothing ("preserves the current Dola         *)
(* response and adds any missing ... choices", README.md:3).               *)
Completed(before, after) ==
  /\ Len(before) <= Len(after)
  /\ \A i \in DOMAIN before : after[i] = before[i]
  /\ \A a \in DOMAIN REQUIRED_DURATIONS : Offers(after, REQUIRED_DURATIONS[a])
  /\ \A i \in (Len(before) + 1)..Len(after) :
       /\ "is_default" \in DOMAIN after[i] => after[i]["is_default"] = "false"
       /\ \E a \in DOMAIN REQUIRED_DURATIONS :
            /\ optionDuration(after[i]) = REQUIRED_DURATIONS[a]
            /\ ~Offers(before, REQUIRED_DURATIONS[a])
            /\ \A j \in (i + 1)..Len(after) :
                 \E b \in (a + 1)..Len(REQUIRED_DURATIONS) :
                   optionDuration(after[j]) = REQUIRED_DURATIONS[b]
DeliveredComplete ==
  \A r \in Requests :
    IF response[r] # "patched" \/ ~Payload[r].json THEN body[r] = Payload[r]
    ELSE /\ patchDurationPayload(body[r]) = body[r]
         /\ DOMAIN body[r].nodes = DOMAIN Payload[r].nodes
         /\ \A n \in DOMAIN body[r].nodes :
              LET old == Payload[r].nodes[n]
                  new == body[r].nodes[n] IN
              /\ \A i \in DOMAIN old.lists :
                   IF old.selector THEN Completed(old.lists[i], new.lists[i])
                   ELSE new.lists[i] = old.lists[i]
              /\ \A i \in DOMAIN old.supported :
                   \A d \in {"10", "15", "30"} :
                     \E j \in DOMAIN new.supported[i] : new.supported[i][j] = d

(* The messages on their way about a response, and those of them whose     *)
(* handler will, as it is written, try to let the response go on.          *)
Concerning(queue, r) == {i \in DOMAIN queue : queue[i].request = r}
LeadsOn(m) == m.kind \in {"paused", "gotBody"} \/ (m.kind \in {"fulfilled", "released"} /\ ~m.ok)

(* A response has one handler and no second one, however calls fail and    *)
(* sessions end: one message about it is under way at most, none before it *)
(* was intercepted, and while it is held that message is a call that may   *)
(* let it go on or an answer after which the handler makes another one     *)
(* (service-worker.js:107-131).                                            *)
HandledOnce ==
  \A r \in Requests :
    /\ \A queue \in {inbox, outbox} : \A i, j \in Concerning(queue, r) : i = j
    /\ Concerning(inbox, r) = {} \/ Concerning(outbox, r) = {}
    /\ response[r] = "expected" => Concerning(inbox, r) = {} /\ Concerning(outbox, r) = {}
    /\ response[r] = "paused" =>
         \/ Concerning(outbox, r) # {}
         \/ \E i \in Concerning(inbox, r) : LeadsOn(inbox[i])

(* A response that is held back goes on to the page: no failed call, lost  *)
(* session or closed tab leaves it held (service-worker.js:107-131).       *)
NoResponseHeld == \A r \in Requests : response[r] = "paused" ~> response[r] # "paused"
=============================================================================
