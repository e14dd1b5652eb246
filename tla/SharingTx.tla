----------------------------- MODULE SharingTx -----------------------------
(***************************************************************************)
(* Sharing an object and linking a child, statement by statement: the      *)
(* requests of several workers run in database transactions of their own   *)
(* at READ COMMITTED, so a statement sees the committed rows and the rows  *)
(* of its own transaction, an insert waits for another transaction that    *)
(* inserted the same key, and it fails if that one commits.                *)
(*                                                                         *)
(* ObjectPermission.create answers the failed insert with                  *)
(* db.session.rollback(): under SQLAlchemy 1.4 that rolls back everything  *)
(* the request did so far, and the request goes on in a new transaction.   *)
(*                                                                         *)
(* Every request may open its objects. Why a permission was given plays no *)
(* part in what is created, so a permission is a pair of object and group. *)
(* The code keeps no record of what a rollback took: lost is a history     *)
(* variable, which no guard reads.                                         *)
(***************************************************************************)
EXTENDS Integers, Sequences, FiniteSets

CONSTANTS
    Objects, Groups, Workers,
    Jobs,        \* what the workers may be asked for at once
    InitRels,    \* the relations that exist in the beginning
    InitPerms,   \* the permissions that exist in the beginning
    NoGroup      \* no group is being given access

Share(o, g) == [kind |-> "share", parent |-> o, child |-> o, groups |-> {g}]
Link(p, c) == [kind |-> "link", parent |-> p, child |-> c, groups |-> {}]
Requests == {Share(o, g) : o \in Objects, g \in Groups} \cup {Link(p, c) : p, c \in Objects}

(* A request that adds no relation. *)
Old(r) == r.kind = "share" \/ <<r.parent, r.child>> \in InitRels

(* Requests that do not cross: they all share or link what is linked       *)
(* already, or they all link, and at most one relation is new. A share     *)
(* and a new relation at once do not see each other's rows.                *)
Apart(j) ==
    \/ \A w \in Workers : Old(j[w])
    \/ \E p, c \in Objects : \A w \in Workers :
          j[w].kind = "link" /\ (j[w] = Link(p, c) \/ Old(j[w]))

Closed(E, P) == \A p, c \in Objects, g \in Groups :
    <<p, c>> \in E /\ <<p, g>> \in P => <<c, g>> \in P

ASSUME RequestsAssumption ==
    /\ IsFiniteSet(Objects)
    /\ Jobs \subseteq [Workers -> Requests]
    /\ InitRels \subseteq Objects \X Objects
    /\ InitPerms \subseteq Objects \X Groups
    /\ Closed(InitRels, InitPerms)
    /\ NoGroup \notin Groups

VARIABLES
    rels, perms,   \* the committed rows
    job,           \* the request of each worker
    pc,            \* the statement it is at
    newRels, newPerms,   \* the rows it inserted and did not commit yet
    todo,          \* the groups add_parent has still to give access to
    group,         \* the group give_access is at
    queue, visited,      \* the walk of give_access
    kids,          \* the children collections loaded in this transaction
    answer,        \* what the client was told
    lost           \* the permissions that rollbacks after a conflict took

db == <<rels, perms>>
walk == <<group, queue, visited, kids>>
vars == <<rels, perms, job, pc, newRels, newPerms, todo, group, queue, visited, kids, answer, lost>>

Labels == {"start", "link", "read", "next", "check", "insert", "children", "commit", "done"}
Unread == [o \in {} |-> {}]

TypeOK ==
    /\ rels \subseteq Objects \X Objects
    /\ perms \subseteq Objects \X Groups
    /\ job \in [Workers -> Requests]
    /\ pc \in [Workers -> Labels]
    /\ newRels \in [Workers -> SUBSET (Objects \X Objects)]
    /\ newPerms \in [Workers -> SUBSET (Objects \X Groups)]
    /\ todo \in [Workers -> SUBSET Groups]
    /\ group \in [Workers -> Groups \cup {NoGroup}]
    /\ queue \in [Workers -> Seq(Objects)]
    /\ visited \in [Workers -> SUBSET Objects]
    /\ DOMAIN kids = Workers
    /\ \A w \in Workers : DOMAIN kids[w] \subseteq Objects
    /\ \A w \in Workers : kids[w] \in [DOMAIN kids[w] -> SUBSET Objects]
    /\ answer \in [Workers -> {"none", "ok", "error"}]
    /\ lost \subseteq Objects \X Groups

Init ==
    /\ rels = InitRels /\ perms = InitPerms
    /\ job \in Jobs
    /\ pc = [w \in Workers |-> "start"]
    /\ newRels = [w \in Workers |-> {}]
    /\ newPerms = [w \in Workers |-> {}]
    /\ todo = [w \in Workers |-> {}]
    /\ group = [w \in Workers |-> NoGroup]
    /\ queue = [w \in Workers |-> <<>>]
    /\ visited = [w \in Workers |-> {}]
    /\ kids = [w \in Workers |-> Unread]
    /\ answer = [w \in Workers |-> "none"]
    /\ lost = {}

RelsSeen(w) == rels \cup newRels[w]
(* Mutant: uncommitted rows of other transactions are seen. *)
PermsSeenDirty(w) == perms \cup UNION {newPerms[v] : v \in Workers}

PermsSeen(w) == perms \cup newPerms[w]

At(w, label) == pc[w] = label
GoTo(w, label) == pc' = [pc EXCEPT ![w] = label]

-----------------------------------------------------------------------------
(* ShareResource.put calls give_access; ObjectChildResource.put calls      *)
(* add_parent, which first looks whether the relation is there.            *)
Start(w) ==
    /\ At(w, "start")
    /\ IF job[w].kind = "share"
       THEN GoTo(w, "next") /\ todo' = [todo EXCEPT ![w] = job[w].groups]
       ELSE /\ GoTo(w, IF <<job[w].parent, job[w].child>> \in RelsSeen(w) THEN "commit" ELSE "link")
            /\ UNCHANGED todo
    /\ UNCHANGED <<rels, perms, job, newRels, newPerms, walk, answer, lost>>

(* The insert into relation, in a savepoint: if the same relation was      *)
(* committed since, only the savepoint is lost, and nothing more is done.  *)
LinkParent(w) ==
    LET e == <<job[w].parent, job[w].child>>
    IN  /\ At(w, "link")
        /\ \A v \in Workers \ {w} : e \notin newRels[v]
        /\ IF e \in rels
           THEN GoTo(w, "commit") /\ UNCHANGED newRels
           ELSE GoTo(w, "read") /\ newRels' = [newRels EXCEPT ![w] = @ \cup {e}]
        /\ UNCHANGED <<db, job, newPerms, todo, walk, answer, lost>>

(* add_parent reads the permissions of the parent. *)
ReadParent(w) ==
    /\ At(w, "read")
    /\ todo' = [todo EXCEPT ![w] = {g \in Groups : <<job[w].parent, g>> \in PermsSeen(w)}]
    /\ GoTo(w, "next")
    /\ UNCHANGED <<db, job, newRels, newPerms, walk, answer, lost>>

(* give_access starts its walk for the next group. *)
NextGroup(w) ==
    /\ At(w, "next")
    /\ IF todo[w] = {}
       THEN GoTo(w, "commit") /\ UNCHANGED <<todo, group, queue, visited>>
       ELSE \E g \in todo[w] :
              /\ todo' = [todo EXCEPT ![w] = @ \ {g}]
              /\ group' = [group EXCEPT ![w] = g]
              /\ queue' = [queue EXCEPT ![w] = <<job[w].child>>]
              /\ visited' = [visited EXCEPT ![w] = {}]
              /\ GoTo(w, "check")
    /\ UNCHANGED <<db, job, newRels, newPerms, kids, answer, lost>>

(* The head of the queue: skipped if visited; ObjectPermission.create      *)
(* looks whether the permission exists.                                    *)
CheckPermission(w) ==
    /\ At(w, "check")
    /\ IF queue[w] = <<>>
       THEN GoTo(w, "next") /\ UNCHANGED <<queue, visited>>
       ELSE LET o == Head(queue[w])
            IN  IF o \notin visited[w] /\ <<o, group[w]>> \notin PermsSeen(w)
                THEN /\ GoTo(w, "insert")
                     /\ visited' = [visited EXCEPT ![w] = @ \cup {o}]
                     /\ UNCHANGED queue
                ELSE /\ GoTo(w, "check")
                     /\ visited' = [visited EXCEPT ![w] = @ \cup {o}]
                     /\ queue' = [queue EXCEPT ![w] = Tail(@)]
    /\ UNCHANGED <<db, job, newRels, newPerms, todo, group, kids, answer, lost>>

(* An insert waits while another transaction holds a row of the same key.  *)
Free(w) == \A v \in Workers \ {w} : <<Head(queue[w]), group[w]>> \notin newPerms[v]

(* The insert succeeds, ... *)
InsertPermission(w) ==
    LET row == <<Head(queue[w]), group[w]>>
    IN  /\ At(w, "insert")
        /\ Free(w)
        /\ row \notin perms
        /\ newPerms' = [newPerms EXCEPT ![w] = @ \cup {row}]
        /\ GoTo(w, "children")
        /\ UNCHANGED <<db, job, newRels, todo, walk, answer, lost>>

(* ... or another transaction committed the same permission since it was   *)
(* looked for: the whole transaction is rolled back, and the walk goes on  *)
(* as if the object had had the permission all along.                      *)
PermissionConflict(w) ==
    /\ At(w, "insert")
    /\ Free(w)
    /\ <<Head(queue[w]), group[w]>> \in perms
    /\ lost' = lost \cup newPerms[w]
    /\ newPerms' = [newPerms EXCEPT ![w] = {}]
    /\ newRels' = [newRels EXCEPT ![w] = {}]
    /\ kids' = [kids EXCEPT ![w] = Unread]
    /\ queue' = [queue EXCEPT ![w] = Tail(@)]
    /\ GoTo(w, "check")
    /\ UNCHANGED <<db, job, todo, group, visited, answer>>

(* The children of an object are loaded once in a transaction. *)
QueueChildren(w) ==
    LET o == Head(queue[w])
        loaded == IF o \in DOMAIN kids[w] THEN kids[w][o]
                  ELSE {c \in Objects : <<o, c>> \in RelsSeen(w)}
    IN  /\ At(w, "children")
        /\ kids' = [kids EXCEPT ![w] = [x \in DOMAIN kids[w] \cup {o} |->
                                          IF x = o THEN loaded ELSE kids[w][x]]]
        /\ \E order \in [1..Cardinality(loaded) -> loaded] :
              /\ {order[i] : i \in DOMAIN order} = loaded
              /\ queue' = [queue EXCEPT ![w] = Tail(@) \o order]
        /\ GoTo(w, "check")
        /\ UNCHANGED <<db, job, newRels, newPerms, todo, group, visited, answer, lost>>

Commit(w) ==
    /\ At(w, "commit")
    /\ rels' = rels \cup newRels[w]
    /\ perms' = perms \cup newPerms[w]
    /\ newRels' = [newRels EXCEPT ![w] = {}]
    /\ newPerms' = [newPerms EXCEPT ![w] = {}]
    /\ answer' = [answer EXCEPT ![w] = "ok"]
    /\ GoTo(w, "done")
    /\ UNCHANGED <<job, todo, walk, lost>>

WaitsFor(w) ==
    {v \in Workers \ {w} :
        \/ At(w, "insert") /\ <<Head(queue[w]), group[w]>> \in newPerms[v]
        \/ At(w, "link") /\ <<job[w].parent, job[w].child>> \in newRels[v]}

Deadlocked(w) ==
    \A S \in SUBSET Workers :
        WaitsFor(w) \subseteq S /\ (\A v \in S : WaitsFor(v) \subseteq S) => w \in S

(* Mutant: the transactions wait for ever. *)
NoDeadlockCheck(w) == FALSE

(* The database ends a cycle of waiting transactions by failing one of them. *)
BreakDeadlock(w) ==
    /\ Deadlocked(w)
    /\ newRels' = [newRels EXCEPT ![w] = {}]
    /\ newPerms' = [newPerms EXCEPT ![w] = {}]
    /\ answer' = [answer EXCEPT ![w] = "error"]
    /\ GoTo(w, "done")
    /\ UNCHANGED <<db, job, todo, walk, lost>>

Step(w) ==
    \/ Start(w) \/ LinkParent(w) \/ ReadParent(w) \/ NextGroup(w)
    \/ CheckPermission(w) \/ InsertPermission(w) \/ PermissionConflict(w)
    \/ QueueChildren(w) \/ Commit(w) \/ BreakDeadlock(w)

Next == \E w \in Workers : Step(w)

Spec == Init /\ [][Next]_vars /\ \A w \in Workers : WF_vars(Step(w))

-----------------------------------------------------------------------------
Rest == \A w \in Workers : At(w, "done")

(* When no request is under way, access to a parent implies access to its  *)
(* children, but for what the rollback after a conflict took: give_access  *)
(* skips an object it visited, though the rollback took its permission     *)
(* and the walk comes to it again over another parent.                     *)
ClosedAtRest ==
    Rest => \A p, c \in Objects, g \in Groups :
        <<p, c>> \in rels /\ <<p, g>> \in perms => <<c, g>> \in perms \cup lost

(* The docstring's promise, which those rollbacks break.                   *)
StrictlyClosedAtRest == Rest => Closed(rels, perms)

(* What was asked for and answered with success is there, but for what     *)
(* such a rollback took.                                                   *)
SuccessKept ==
    \A w \in Workers : answer[w] = "ok" =>
        IF job[w].kind = "link" THEN <<job[w].parent, job[w].child>> \in rels
        ELSE \A g \in job[w].groups : <<job[w].child, g>> \in perms \cup lost

(* Every request comes to its end, whatever the others hold.               *)
AllFinish == <>Rest

(* A request that was answered with success has had its effect: the        *)
(* relation is there, the group sees the shared object.                    *)
AnsweredIsDone ==
    \A w \in Workers : answer[w] = "ok" =>
        IF job[w].kind = "link" THEN <<job[w].parent, job[w].child>> \in rels
        ELSE \A g \in job[w].groups : <<job[w].child, g>> \in perms

(* A group sees what was shared with it and the descendants of that,       *)
(* nothing else: the permissions are in every set that holds the initial   *)
(* and the asked ones and is closed under the relations.                   *)
NothingExtra ==
    \A S \in SUBSET (Objects \X Groups) :
        /\ InitPerms \subseteq S
        /\ \A w \in Workers : \A g \in job[w].groups : <<job[w].child, g>> \in S
        /\ Closed(rels, S)
        => perms \subseteq S

(* What concurrent requests leave is what was asked for and what follows   *)
(* from it: no more at any time, and no less at rest.                      *)
SharedExactly == TypeOK /\ NothingExtra /\ ClosedAtRest /\ SuccessKept
=============================================================================
