--------------------------- MODULE TaskLifecycle ---------------------------
(***************************************************************************)
(* What the gateway promises about a generation task, whatever happens to  *)
(* the process that works on it: the status a client polls only moves      *)
(* forward, and a prompt that may be costing credits upstream is never     *)
(* sent a second time.                                                     *)
(*                                                                         *)
(* The status column is the one of src/dola_gateway/store.py.  The count   *)
(* outstanding is not stored anywhere: it is the number of submissions of  *)
(* the task that Dola has received and not explicitly refused.             *)
(***************************************************************************)
EXTENDS Naturals

CONSTANT Tasks

VARIABLES status, outstanding

vars == <<status, outstanding>>

Pending  == {"queued", "processing"}
Terminal == {"completed", "failed"}

Init ==
  /\ status      = [t \in Tasks |-> "none"]
  /\ outstanding = [t \in Tasks |-> 0]

(* The task is accepted from a client. *)
Accept(t) ==
  /\ status[t] = "none"
  /\ status' = [status EXCEPT ![t] = "queued"]
  /\ UNCHANGED outstanding

(* Work begins; it is recorded before anything is sent. *)
Start(t) ==
  /\ status[t] = "queued"
  /\ status' = [status EXCEPT ![t] = "processing"]
  /\ UNCHANGED outstanding

(* The prompt is sent, once. *)
Send(t) ==
  /\ status[t] = "processing"
  /\ outstanding[t] = 0
  /\ outstanding' = [outstanding EXCEPT ![t] = 1]
  /\ UNCHANGED status

(* Dola refuses the submission explicitly: another account may be tried. *)
Refused(t) ==
  /\ status[t] = "processing"
  /\ outstanding[t] = 1
  /\ outstanding' = [outstanding EXCEPT ![t] = 0]
  /\ UNCHANGED status

Complete(t) ==
  /\ status[t] = "processing"
  /\ outstanding[t] = 1
  /\ status' = [status EXCEPT ![t] = "completed"]
  /\ UNCHANGED outstanding

(* Any set of pending tasks may fail at once: a restart does that. *)
Fail(S) ==
  /\ \A t \in S : status[t] \in Pending
  /\ status' = [t \in Tasks |-> IF t \in S THEN "failed" ELSE status[t]]
  /\ UNCHANGED outstanding

Next ==
  \/ \E t \in Tasks :
       Accept(t) \/ Start(t) \/ Send(t) \/ Refused(t) \/ Complete(t)
  \/ \E S \in SUBSET Tasks : Fail(S)

Spec == Init /\ [][Next]_vars

-----------------------------------------------------------------------------
(* Where a status may be one step later. *)
Onward(s) ==
  CASE s = "none"       -> {"none", "queued"}
    [] s = "queued"     -> {"queued", "processing", "failed"}
    [] s = "processing" -> {"processing"} \union Terminal
    [] OTHER            -> {s}

(* What a client has polled stays true: a status never goes back, and a    *)
(* completed or failed task stays what it is, through every restart        *)
(* (server.py:662-684).                                                    *)
ForwardOnly == [][\A t \in Tasks : status'[t] \in Onward(status[t])]_vars

(* Only a task on record as being worked on has a prompt with Dola, and a  *)
(* completed one has exactly one: no result is reported that was not asked *)
(* for, and none is asked for in the name of a row that says it is waiting *)
(* (server.py:487-660).                                                    *)
ResultsWereAskedFor ==
  \A t \in Tasks :
    /\ status[t] \in {"none", "queued"} => outstanding[t] = 0
    /\ status[t] = "completed" => outstanding[t] = 1
=============================================================================
