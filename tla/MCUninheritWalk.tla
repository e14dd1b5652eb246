-------------------------- MODULE MCUninheritWalk --------------------------
(***************************************************************************)
(* UninheritWalk on every graph of three objects with up to four           *)
(* relations, and on the acyclic ones of four objects as well; the        *)
(* permissions differ in what they are related to.                         *)
(***************************************************************************)
EXTENDS UninheritWalk

MCKeys == {[reason |-> "shared", rel |-> o, by |-> NoUser] : o \in {1, 2}}
Empty == <<>>
MCCapGroups == [c \in Capability |-> {}]
Small(e) == e[1] <= 3 /\ e[2] <= 3
Upwards(e) == e[1] < e[2]
SmallOrAcyclic ==
    \/ \A e \in graph' : Small(e)
    \/ \A e \in graph' : Upwards(e)
=============================================================================
