----------------------------- MODULE MCLoginJobs -----------------------------
(***************************************************************************)
(* Instances of LoginJobs for TLC: what the administrator does, in every   *)
(* order.  One login task per "add" is enough.                             *)
(***************************************************************************)
EXTENDS LoginJobs, TLC

CONSTANTS l1, l2, l3, a1, a2, a3, c1, c2, d1, d2

ThreeLogins == {l1, l2, l3}

(* Three additions, two cancellations and two removals. *)
AllRequests == {a1, a2, a3, c1, c2, d1, d2}
AllOps ==
  [r \in AllRequests |-> IF r \in {a1, a2, a3} THEN "add"
                         ELSE IF r \in {c1, c2} THEN "cancel" ELSE "remove"]

(* Fewer of them: three additions, two cancellations and a removal, with   *)
(* which a login can outlive its job while a handler awaits it.            *)
FewRequests == {a1, a2, a3, c1, c2, d1}
FewOps      == [r \in FewRequests |-> AllOps[r]]

LoginSymmetry ==
  Permutations(ThreeLogins) \union Permutations({a1, a2, a3})
    \union Permutations({c1, c2}) \union Permutations({d1, d2})
=============================================================================
