---------------------------- MODULE MCSharingTx ----------------------------
(***************************************************************************)
(* Instances of SharingTx: three objects in a chain, or four of which one  *)
(* has two parents, and two groups.                                        *)
(***************************************************************************)
EXTENDS SharingTx

CONSTANTS g1, g2

AnyTwo == [Workers -> Requests]

(* Requests that do not cross. Shares with different groups insert         *)
(* different rows, so all share with g1; the workers are alike, so that    *)
(* one order of their requests is enough.                                  *)
Rank(r) == 4 * r.parent + r.child + (IF r.kind = "link" THEN 40 ELSE 0)
ApartJobs ==
    {j \in [Workers -> Requests] :
        /\ Apart(j)
        /\ \A w \in Workers : j[w].groups \subseteq {g1}
        /\ \A v, w \in Workers : v < w => Rank(j[v]) =< Rank(j[w])}

(* Object 2 is below 1 and below 4, which is below 1 too.                  *)
Diamond == {<<1, 2>>, <<1, 3>>, <<1, 4>>, <<4, 2>>}
Chain == {<<1, 2>>, <<2, 3>>}
NoPerms == {}
OneOnTwo == {<<2, g2>>}
=============================================================================
