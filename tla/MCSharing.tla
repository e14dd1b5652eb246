----------------------------- MODULE MCSharing -----------------------------
(***************************************************************************)
(* Instances of Sharing for TLC. Ann may do everything and belongs to the  *)
(* workspace; Bob, in the runs that have him, is in a group with           *)
(* share_queried_objects and may add relations.                            *)
(***************************************************************************)
EXTENDS Sharing, TLC

CONSTANTS ann, bob, pAnn, pBob, ws

MCPrivate == [u \in Users |-> IF u = ann THEN pAnn ELSE pBob]
MCMembers == [u \in Users |-> {MCPrivate[u]} \cup ({ws} \cap Groups)]
MCFixed == {pAnn, pBob} \cap Groups
MCCapGroups ==
    [c \in Capability |->
        CASE c = "share_queried_objects" -> {pBob} \cap Groups
          [] c = "adding_parents" -> {pAnn, pBob} \cap Groups
          [] c = "sharing_with_all" -> {pAnn}
          [] OTHER -> {pAnn}]

(* The same system when no object is made an ancestor of itself: Objects   *)
(* are numbers and a relation goes from a lower to a higher one.           *)
StaysAcyclic == \A e \in rels' : e[1] < e[2]

MCSymmetry == Permutations(Objects)
=============================================================================
