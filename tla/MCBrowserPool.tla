--------------------------- MODULE MCBrowserPool ---------------------------
(***************************************************************************)
(* Instances of BrowserPool for TLC: which kinds of task compete is fixed  *)
(* per instance, the restrictions they start from are not.                 *)
(***************************************************************************)
EXTENDS BrowserPool, TLC

CONSTANTS t1, t2, t3, t4

Of(kind, pin) == [kind |-> kind, pin |-> pin]

ThreeTasks == {t1, t2, t3}
FourTasks  == {t1, t2, t3, t4}

(* A video, an image, and a resumption and a retry pinned to account 1. *)
Mixed ==
  (t1 :> Of("video", NoAccount)) @@ (t2 :> Of("image", NoAccount))
    @@ (t3 :> Of("resume", 1)) @@ (t4 :> Of("image", 1))

(* New generations only. *)
Fresh ==
  (t1 :> Of("video", NoAccount)) @@ (t2 :> Of("video", NoAccount))
    @@ (t3 :> Of("image", NoAccount))
=============================================================================
