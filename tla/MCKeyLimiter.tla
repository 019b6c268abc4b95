--------------------------- MODULE MCKeyLimiter ---------------------------
(***************************************************************************)
(* Instances of KeyLimiter for TLC.  Four workers and two keys: enough for *)
(* one key to fill its limit of two with one worker asleep, and for a      *)
(* worker of the other key to be asleep at the same time.                  *)
(***************************************************************************)
EXTENDS KeyLimiter, TLC

CONSTANTS t1, t2, t3, t4, k1, k2

FourTasks  == {t1, t2, t3, t4}
ThreeTasks == {t1, t2, t3}
TwoKeys    == {k1, k2}
OneKey     == {k1}

(* The second key is unlimited from time to time. *)
TwoLimits == k1 :> {1, 2} @@ k2 :> {0, 1}
OneLimit  == k1 :> {0, 1}
=============================================================================
