----------------------------- MODULE MCGateway -----------------------------
(***************************************************************************)
(* Instances of Gateway for TLC.  The requests are fixed per instance: what*)
(* matters is which of them share a key and an Idempotency-Key, which are  *)
(* videos and which are manual retries.                                    *)
(***************************************************************************)
EXTENDS Gateway, TLC

CONSTANTS r1, r2, r3, r4, k1, i1

Request(media, key, idem, retry) ==
  [media |-> media, key |-> key, idem |-> idem, retry |-> retry]

ThreeTasks == {r1, r2, r3}
FourTasks  == {r1, r2, r3, r4}

(* One key: a repeated video request and an image request under the same   *)
(* Idempotency-Key, which is a different task.  And a manual retry of an   *)
(* anonymous client.                                                       *)
Repeated ==
  (r1 :> Request("video", k1, i1, FALSE)) @@ (r2 :> Request("video", k1, i1, FALSE))
    @@ (r3 :> Request("image", k1, i1, FALSE))
    @@ (r4 :> Request("video", NoKey, NoIdem, TRUE))

(* A video, an image and a manual retry of an anonymous client. *)
Mixed ==
  (r1 :> Request("video", k1, NoIdem, FALSE)) @@ (r2 :> Request("image", k1, NoIdem, FALSE))
    @@ (r3 :> Request("video", NoKey, NoIdem, TRUE))

LimitOne == k1 :> 1
NoLimit  == k1 :> 0
=============================================================================
