------------------------------ MODULE Sharing ------------------------------
(***************************************************************************)
(* The sharing model of MWDB, one request at a time: objects, the          *)
(* parent-child relations between them, and the permissions that give a    *)
(* group access to an object and are inherited along the relations         *)
(* (mwdb/model/object.py, mwdb/model/object_permission.py and the handlers *)
(* of mwdb/resources that call them).                                      *)
(*                                                                         *)
(* Each action is a whole request that runs alone; SharingTx drops that    *)
(* assumption and interleaves the statements of concurrent transactions.   *)
(*                                                                         *)
(* Abstractions: an object is its dhash; creation times are left out, so   *)
(* the order in which SQLAlchemy lists parents and children is arbitrary.  *)
(***************************************************************************)
EXTENDS Integers, FiniteSets

CONSTANTS
    Objects,       \* dhashes of the objects that may be uploaded
    Groups,        \* every group, the private ones included
    Users,
    Private,       \* Private[u]: the private group of user u
    Members,       \* Members[u]: the groups user u is a member of
    Workspaces,    \* the groups with the workspace flag
    FixedGroups,   \* the groups with the immutable flag
    CapGroups,     \* CapGroups[c]: the groups that hold capability c
    MaxRelations,  \* bound on the number of relations
    NoObject,      \* NULL in permission.related_object_id
    NoUser         \* NULL in permission.related_user_id

Capability == {"access_all_objects", "share_queried_objects", "sharing_with_all",
               "adding_parents", "removing_parents", "removing_objects",
               "manage_users"}

ASSUME UsersAssumption ==
    /\ Private \in [Users -> Groups]
    /\ Members \in [Users -> SUBSET Groups]
    /\ \A u \in Users : Private[u] \in Members[u] \cap FixedGroups
    /\ \A u, v \in Users : Private[u] = Private[v] => u = v
    /\ CapGroups \in [Capability -> SUBSET Groups]

ASSUME NullAssumption == NoObject \notin Objects /\ NoUser \notin Users

VARIABLES
    objects,    \* the rows of table object
    groups,     \* the rows of table group
    users,      \* the rows of table user
    rels,       \* the rows of table relation, as pairs <<parent, child>>
    perm        \* perm[g][o]: the row of table permission, or NoPerm

vars == <<objects, groups, users, rels, perm>>

Reason == {"added", "shared", "queried"}
NoPerm == [reason |-> "none", rel |-> NoObject, by |-> NoUser]
Perm == [reason : Reason, rel : Objects \cup {NoObject}, by : Users \cup {NoUser}]
Column == [Objects -> Perm \cup {NoPerm}]

TypeOK ==
    /\ objects \subseteq Objects
    /\ groups \subseteq Groups
    /\ users \subseteq Users
    /\ rels \subseteq Objects \X Objects
    /\ perm \in [Groups -> Column]

Init ==
    /\ objects = {}
    /\ groups = Groups
    /\ users = Users
    /\ rels = {}
    /\ perm = [g \in Groups |-> [o \in Objects |-> NoPerm]]

-----------------------------------------------------------------------------
(* Reachability along relations, the loop of give_access and of            *)
(* uninherit_share: the objects of "within" that can be reached from start  *)
(* through objects of "within" only.                                       *)
Reach(E, start, within) ==
    {o \in within :
        /\ start \in within
        /\ \A S \in SUBSET within :
              start \in S /\ (\A a \in S, b \in within : <<a, b>> \in E => b \in S)
              => o \in S}

Parents(E, o) == {p \in Objects : <<p, o>> \in E}

(* Two ways to get it wrong, for the mutants of the checks: no propagation, *)
(* and an existing permission replaced by the new one.                     *)
GiveAccessShallow(E, col, o, p) ==
    [x \in Objects |-> IF x = o /\ col[x] = NoPerm THEN p ELSE col[x]]
GiveAccessUpsert(E, col, o, p) ==
    LET missing == {x \in Objects : col[x] = NoPerm \/ x = o}
    IN  [x \in Objects |-> IF x \in Reach(E, o, missing) THEN p ELSE col[x]]

(* Object.give_access: the permission is created on every object the walk  *)
(* reaches; the walk goes on to the children of an object only where the   *)
(* permission was just created.                                            *)
GiveAccess(E, col, o, p) ==
    LET missing == {x \in Objects : col[x] = NoPerm}
    IN  [x \in Objects |-> IF x \in Reach(E, o, missing) THEN p ELSE col[x]]

(* give_access for each group of G, with the permission P[g].              *)
GiveAll(E, pm, o, G, P) ==
    [g \in Groups |-> IF g \in G THEN GiveAccess(E, pm[g], o, P[g]) ELSE pm[g]]

-----------------------------------------------------------------------------
(* Object.access: who may open an object.                                  *)

MyGroups(u) == Members[u] \cap groups

HasRight(u, cap) == MyGroups(u) \cap CapGroups[cap] # {}

HasExplicitAccess(pm, u, o) ==
    \/ HasRight(u, "access_all_objects")
    \/ \E g \in MyGroups(u) : pm[g][o] # NoPerm

MayOpen(pm, u, o) ==
    /\ o \in objects
    /\ HasExplicitAccess(pm, u, o) \/ HasRight(u, "share_queried_objects")

(* The permissions after u opened o: a user without explicit access who    *)
(* holds share_queried_objects shares it with the groups that grant it.    *)
Opened(pm, u, o) ==
    IF HasExplicitAccess(pm, u, o) THEN pm
    ELSE GiveAll(rels, pm, o, MyGroups(u) \cap CapGroups["share_queried_objects"],
                 [g \in Groups |-> [reason |-> "queried", rel |-> o, by |-> u]])

-----------------------------------------------------------------------------
(* Object.remove_parent and Object.uninherit_share, for the permissions of  *)
(* one group: the set of the columns the walk can end with.                *)

Inherits(a, b) == a.rel = b.rel /\ a.reason = b.reason

(* ObjectPermission.make_inherited: the related user is not taken over.    *)
MakeInherited(our, devisor) == [our EXCEPT !.rel = devisor.rel, !.reason = devisor.reason]

Sharing(E, col, o) == {q \in Parents(E, o) : col[q] # NoPerm}

(* The objects whose permission inherits the one of p.                     *)
Kin(col, p) == {o \in Objects : col[o] # NoPerm /\ Inherits(col[o], col[p])}

(* Mutant: no search for another devisor.                                  *)
DeletedUnsearched(E, col, p, c) == Reach(E, c, Kin(col, p))

(* Those that the walk from p -> c deletes: on its way to them, no object   *)
(* has a parent that shares with the group but the one it came from.       *)
Deleted(E, col, p, c) ==
    Reach(E, c, {o \in Kin(col, p) : \E q \in Kin(col, p) : Sharing(E, col, o) = {q}})

(* The other objects the walk meets, and those among them with another     *)
(* parent that gives the permission for another reason: such a parent      *)
(* becomes the "devisor" of everything below. A met object that another    *)
(* parent gives the same permission is left alone, if the walk is there    *)
(* before it is below one of the heads.                                    *)
Met(E, col, p, c) ==
    {o \in Kin(col, p) \ Deleted(E, col, p, c) :
        o = c \/ \E a \in Deleted(E, col, p, c) : <<a, o>> \in E}

Heads(E, col, p, c) ==
    {h \in Met(E, col, p, c) : \E a \in Kin(col, p) : Parents(E, h) \cap Kin(col, p) = {a}}

Moved(E, col, p, c, left) ==
    UNION {Reach(E, h, Kin(col, p) \ left) : h \in Heads(E, col, p, c)}

(* Which other parent becomes the devisor of each head: the oldest relation *)
(* wins, so it may be any.                                                 *)
Devisors(E, col, p, c) ==
    {d \in [Heads(E, col, p, c) -> Objects] :
        \A h \in Heads(E, col, p, c) : d[h] \in Sharing(E, col, h) \ Kin(col, p)}

(* Below which head each moved object is when the walk gets there.         *)
HeadOf(E, col, p, c, left) ==
    {f \in [Moved(E, col, p, c, left) -> Heads(E, col, p, c)] :
        \A o \in Moved(E, col, p, c, left) : o \in Reach(E, f[o], Kin(col, p) \ left)}

(* The permissions the moved objects inherit from instead, one function    *)
(* for each choice the order of the relations leaves.                      *)
HeirsLeaving(E, col, p, c, left) ==
    {[o \in Moved(E, col, p, c, left) |-> col[dev[head[o]]]] :
        dev \in Devisors(E, col, p, c), head \in HeadOf(E, col, p, c, left)}

Heirs(E, col, p, c) ==
    UNION {HeirsLeaving(E, col, p, c, left) :
             left \in SUBSET (Met(E, col, p, c) \ Heads(E, col, p, c))}

Uninherited(E, col, p, c, heir) ==
    [o \in Objects |->
        IF o \in Deleted(E, col, p, c) THEN NoPerm
        ELSE IF o \in DOMAIN heir THEN MakeInherited(col[o], heir[o])
        ELSE col[o]]

Uninherit(E, col, p, c) ==
    IF p = c \/ col[p] = NoPerm \/ c \notin Kin(col, p) THEN {col}
    ELSE {Uninherited(E, col, p, c, heir) : heir \in Heirs(E, col, p, c)}

-----------------------------------------------------------------------------
(* The requests.                                                           *)

(* GET of an object, or any request that stops after Object.access.        *)
Open(u, o) ==
    /\ u \in users
    /\ MayOpen(perm, u, o)
    /\ perm' = Opened(perm, u, o)
    /\ UNCHANGED <<objects, groups, users, rels>>

(* get_shares_for_upload: the groups for the three forms of upload_as.     *)
SharesForUpload(u) ==
    {MyGroups(u) \cap Workspaces, {Private[u]}} \cup
    {{g, Private[u]} : g \in IF HasRight(u, "sharing_with_all") THEN groups ELSE MyGroups(u)}

(* Object.add_parent, without the commit. *)
Linked(pm, p, c) ==
    IF <<p, c>> \in rels THEN pm
    ELSE GiveAll(rels \cup {<<p, c>>}, pm, c, {g \in Groups : pm[g][p] # NoPerm},
                 [g \in Groups |-> pm[g][p]])

UploadKey(u, o) ==
    [g \in Groups |-> [reason |-> IF g = Private[u] THEN "added" ELSE "shared",
                       rel |-> o, by |-> u]]

(* ObjectUploader.create_object and Object._get_or_create, no parent given. *)
Upload(u, o) ==
    /\ u \in users
    /\ objects' = objects \cup {o}
    /\ \E share_with \in SharesForUpload(u) :
          perm' = GiveAll(rels, perm, o, share_with, UploadKey(u, o))
    /\ UNCHANGED <<groups, users, rels>>

(* The same with a parent: it is opened first, and the permissions it      *)
(* passes on come after the ones of the upload itself.                     *)
UploadUnder(u, o, p) ==
    /\ u \in users
    /\ HasRight(u, "adding_parents")
    /\ MayOpen(perm, u, p)
    /\ Cardinality(rels \cup {<<p, o>>}) <= MaxRelations
    /\ objects' = objects \cup {o}
    /\ rels' = rels \cup {<<p, o>>}
    /\ \E share_with \in SharesForUpload(u) :
          LET opened == Opened(perm, u, p)
              given == GiveAll(rels, opened, o, share_with, UploadKey(u, o))
          IN  perm' = Linked(given, p, o)
    /\ UNCHANGED <<groups, users>>

(* ShareResource.put *)
Share(u, o, g) ==
    /\ u \in users
    /\ MayOpen(perm, u, o)
    /\ g \in (IF HasRight(u, "sharing_with_all") THEN groups ELSE MyGroups(u)) \ {Private[u]}
    /\ perm' = GiveAll(rels, Opened(perm, u, o), o, {g},
                       [x \in Groups |-> [reason |-> "shared", rel |-> o, by |-> u]])
    /\ UNCHANGED <<objects, groups, users, rels>>

(* ObjectChildResource.put *)
AddParent(u, p, c) ==
    /\ u \in users
    /\ HasRight(u, "adding_parents")
    /\ MayOpen(perm, u, p)
    /\ MayOpen(Opened(perm, u, p), u, c)
    /\ Cardinality(rels \cup {<<p, c>>}) <= MaxRelations
    /\ rels' = rels \cup {<<p, c>>}
    /\ perm' = Linked(Opened(Opened(perm, u, p), u, c), p, c)
    /\ UNCHANGED <<objects, groups, users>>

(* ObjectChildResource.delete *)
RemoveParent(u, p, c) ==
    /\ u \in users
    /\ HasRight(u, "removing_parents")
    /\ MayOpen(perm, u, p)
    /\ MayOpen(Opened(perm, u, p), u, c)
    /\ <<p, c>> \in rels
    /\ LET opened == Opened(Opened(perm, u, p), u, c)
           Outcomes(g) == Uninherit(rels, opened[g], p, c)
       IN  \E out \in [Groups -> UNION {Outcomes(g) : g \in Groups}] :
              /\ \A g \in Groups : out[g] \in Outcomes(g)
              /\ perm' = out
    /\ rels' = rels \ {<<p, c>>}
    /\ UNCHANGED <<objects, groups, users>>

(* Mutant: related_object_id keeps pointing at the deleted row.            *)
DeleteObjectDangling(u, o) ==
    /\ u \in users
    /\ HasRight(u, "removing_objects")
    /\ MayOpen(perm, u, o)
    /\ objects' = objects \ {o}
    /\ rels' = {e \in rels : o \notin {e[1], e[2]}}
    /\ perm' = [g \in Groups |-> [Opened(perm, u, o)[g] EXCEPT ![o] = NoPerm]]
    /\ UNCHANGED <<groups, users>>

(* ObjectItemResource.delete: the relations and the permissions of the     *)
(* object go with it, permissions related to it keep a NULL.               *)
DeleteObject(u, o) ==
    /\ u \in users
    /\ HasRight(u, "removing_objects")
    /\ MayOpen(perm, u, o)
    /\ objects' = objects \ {o}
    /\ rels' = {e \in rels : o \notin {e[1], e[2]}}
    /\ LET opened == Opened(perm, u, o)
       IN  perm' = [g \in Groups |-> [x \in Objects |->
                      IF x = o THEN NoPerm
                      ELSE IF opened[g][x].rel = o
                      THEN [opened[g][x] EXCEPT !.rel = NoObject]
                      ELSE opened[g][x]]]
    /\ UNCHANGED <<groups, users>>

(* GroupResource.delete *)
DeleteGroup(u, g) ==
    /\ u \in users
    /\ HasRight(u, "manage_users")
    /\ g \in groups \ FixedGroups
    /\ groups' = groups \ {g}
    /\ perm' = [perm EXCEPT ![g] = [o \in Objects |-> NoPerm]]
    /\ UNCHANGED <<objects, users, rels>>

(* UserResource.delete: the user and the private group. *)
DeleteUser(u, v) ==
    /\ u \in users
    /\ HasRight(u, "manage_users")
    /\ v \in users \ {u}
    /\ users' = users \ {v}
    /\ groups' = groups \ {Private[v]}
    /\ perm' = [g \in Groups |-> [o \in Objects |->
                  IF g = Private[v] THEN NoPerm
                  ELSE IF perm[g][o].by = v THEN [perm[g][o] EXCEPT !.by = NoUser]
                  ELSE perm[g][o]]]
    /\ UNCHANGED <<objects, rels>>

Next ==
    \E u \in Users :
        \/ \E o \in Objects : Upload(u, o)
        \/ \E o, p \in Objects : UploadUnder(u, o, p)
        \/ \E o \in Objects : Open(u, o)
        \/ \E o \in Objects, g \in Groups : Share(u, o, g)
        \/ \E p, c \in Objects : AddParent(u, p, c)
        \/ \E p, c \in Objects : RemoveParent(u, p, c)
        \/ \E o \in Objects : DeleteObject(u, o)
        \/ \E g \in Groups : DeleteGroup(u, g)
        \/ \E v \in Users : DeleteUser(u, v)

Spec == Init /\ [][Next]_vars

-----------------------------------------------------------------------------
(* Properties. *)

(* The permissions of one group are closed under the relations. *)
Closed(E, col) == \A p, c \in Objects :
    <<p, c>> \in E /\ col[p] # NoPerm => col[c] # NoPerm

(* Access to a parent implies access to its children: give_access stops at *)
(* every object the group already sees, so this must hold at all times or  *)
(* whole subtrees are missed.                                              *)
InheritanceClosure == \A g \in Groups : Closed(rels, perm[g])

(* Relations and permissions speak of existing rows only: what the foreign *)
(* keys cascade or set to NULL when an object, a group or a user goes.     *)
NoDanglingRow ==
    /\ rels \subseteq objects \X objects
    /\ \A g \in Groups, o \in Objects : perm[g][o] # NoPerm =>
          /\ g \in groups /\ o \in objects
          /\ perm[g][o].rel \in objects \cup {NoObject}
          /\ perm[g][o].by \in users \cup {NoUser}

(* A group loses an object only with the object or the group itself, or    *)
(* because a relation was removed, the permission was the one the removed  *)
(* parent gave, and no remaining parent of the object shares with the      *)
(* group.                                                                  *)
LostOnlyByRemoval ==
    [][\A g \in groups', o \in objects' :
          perm[g][o] # NoPerm /\ perm'[g][o] = NoPerm =>
             \E e \in rels \ rels' :
                /\ perm[g][o].rel = perm[g][e[1]].rel
                /\ perm[g][o].reason = perm[g][e[1]].reason
                /\ Sharing(rels', perm'[g], o) = {}]_vars

(* Only the removal of a relation, an object or a user rewrites a          *)
(* permission: an upload, a share or a new relation leaves what a group    *)
(* already has as it was, whatever is given to it again.                   *)
GrantsAreFinal ==
    [][rels \subseteq rels' /\ objects \subseteq objects' /\ users = users' =>
          \A g \in groups', o \in Objects :
             perm[g][o] # NoPerm => perm'[g][o] = perm[g][o]]_vars

(* Removing a relation removes the permissions inherited from it: it       *)
(* leaves no group with an object that no parent of the object shares with *)
(* it and that was never uploaded by or shared with the group.             *)
Unbacked(g, o) ==
    /\ perm[g][o].rel \notin {o, NoObject}
    /\ Sharing(rels, perm[g], o) \ {o} = {}
NoOrphanPermission ==
    [][objects = objects' /\ rels' # rels /\ rels' \subseteq rels =>
          \A g \in Groups, o \in Objects : Unbacked(g, o)' => Unbacked(g, o)]_vars

(* Removing a relation leaves the permissions alone that an object has by  *)
(* its own upload or share.                                                *)
ExplicitPermissionStays ==
    [][\A g \in groups', o \in objects' :
          perm[g][o].rel = o => perm'[g][o] # NoPerm]_vars

(* The tables are well formed: values of their columns, and references to  *)
(* rows that are there.                                                    *)
TablesSound == TypeOK /\ NoDanglingRow

(* A removed relation takes what was inherited along it, when nothing else *)
(* gives it, and never what an object has by itself.                       *)
RemovalsTakeTheirs == LostOnlyByRemoval /\ ExplicitPermissionStays
=============================================================================
