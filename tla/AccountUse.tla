----------------------------- MODULE AccountUse -----------------------------
(***************************************************************************)
(* The turn of one generation on the accounts, as the gateway may count on *)
(* it: the part of a task's life that Gateway sees from outside the pool,  *)
(* BrowserPool from the accounts and GenerationPage from the page.  The    *)
(* three modules describe the same coroutine (_run_task, _run_image_task,  *)
(* _resume_task of src/dola_gateway/server.py between acquire() and        *)
(* release()) and each implements this one.                                *)
(***************************************************************************)
VARIABLES
  kind,   \* a "new" generation, a manual "retry" on its account, or the
          \* "resume" of a conversation accepted earlier
  use     \* what it has of an account

Pending == {"waiting", "open", "sent"}

Init ==
  /\ kind \in {"new", "retry", "resume"}
  /\ use = "waiting"

(* The profile of an account is opened for a prompt. *)
Open == use = "waiting" /\ kind # "resume" /\ use' = "open"

(* The conversation of an earlier run is followed on its account: nothing  *)
(* is typed.                                                               *)
Follow == use = "waiting" /\ kind = "resume" /\ use' = "sent"

Send == use = "open" /\ use' = "sent"

(* The account turns out to be unusable or restricted: another one.  Only  *)
(* a new generation is free to do so.                                      *)
MoveOn == use \in {"open", "sent"} /\ kind = "new" /\ use' = "waiting"

Complete == use = "sent" /\ use' = "completed"

Fail == use \in Pending /\ use' = "failed"

Step == Open \/ Follow \/ Send \/ MoveOn \/ Complete \/ Fail

Spec == Init /\ [][Step /\ UNCHANGED kind]_<<kind, use>>
=============================================================================
