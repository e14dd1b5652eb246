-------------------------- MODULE SharingTxProofs --------------------------
(***************************************************************************)
(* Proof that concurrent shares, and a new relation among requests that    *)
(* change no relation, leave what was asked for and what follows from it.  *)
(***************************************************************************)
EXTENDS SharingTx, FiniteSetTheorems, TLAPS

(* The requests that come at once do not cross. *)
Separate == \A j \in Jobs : Apart(j)

-----------------------------------------------------------------------------
(* Where a request is. *)
Edge(w) == <<job[w].parent, job[w].child>>
Busy(w) == pc[w] \in {"read", "next", "check", "insert", "children"}
Walking(w) == pc[w] \in {"check", "insert", "children"}
Elements(s) == {s[i] : i \in DOMAIN s}
Waiting(w) == Elements(queue[w])
HeadRow(w) == <<Head(queue[w]), group[w]>>
Sharing == \A w \in Workers : Old(job[w])
Quiet(w) == newRels[w] = {} /\ newPerms[w] = {} /\ ~Busy(w)

(* What a statement finds when the request comes to it.                    *)
Placed(w) ==
    /\ pc[w] \in {"start", "link", "done"} => newRels[w] = {} /\ newPerms[w] = {}
    /\ pc[w] \in {"start", "link", "read"} => kids[w] = Unread /\ todo[w] = {}
    /\ pc[w] \in {"link", "read"} => job[w].kind = "link"
    /\ pc[w] = "link" => Edge(w) \notin InitRels
    /\ answer[w] # "none" <=> pc[w] = "done"
    /\ Walking(w) => group[w] \in Groups
    /\ pc[w] \in {"insert", "children"} => queue[w] # <<>>
    /\ pc[w] = "children" => HeadRow(w) \in newPerms[w]
    /\ job[w].kind = "link" /\ pc[w] \notin {"start", "link"} /\ answer[w] # "error"
         => Edge(w) \in RelsSeen(w)

(* The children a busy request has loaded are still the children.          *)
KidsKnown(w) ==
    Busy(w) => \A o \in DOMAIN kids[w] :
        kids[w][o] = {c \in Objects : <<o, c>> \in RelsSeen(w)}

(* Either no relation is new, or one request at a time does anything, for  *)
(* the one relation that is new, and meets no conflict.                    *)
Kept ==
    /\ job \in Jobs
    /\ InitRels \subseteq rels
    /\ Sharing => rels = InitRels /\ \A w \in Workers : newRels[w] = {}
Alone(w) ==
    /\ ~Quiet(w) => newRels[w] = {Edge(w)} /\ Edge(w) \notin InitRels
    /\ pc[w] = "insert" => HeadRow(w) \notin perms
    /\ \A v \in Workers : v # w => Quiet(v) \/ Quiet(w)
OneAtATime == ~Sharing => \A w \in Workers : Alone(w)

(* The group of a walk sees the objects visited, but for what was lost.    *)
VisitedKnown(w) ==
    Walking(w) => \A o \in visited[w] :
        \/ <<o, group[w]>> \in PermsSeen(w) \cup lost
        \/ pc[w] = "insert" /\ o = Head(queue[w])

Coming(w, o, g) == Walking(w) /\ g = group[w] /\ o \in Waiting(w)

(* Below a row the request inserted, the children have theirs or the walk  *)
(* comes to them.                                                          *)
Owed(w) ==
    \A p, c \in Objects, g \in Groups :
        <<p, c>> \in RelsSeen(w) /\ <<p, g>> \in newPerms[w] =>
            \/ <<c, g>> \in PermsSeen(w) \cup lost
            \/ Coming(w, c, g)
            \/ pc[w] = "children" /\ <<p, g>> = HeadRow(w)

(* The groups a request is to give its object to: they have it, or they    *)
(* are still to do, or the request failed.                                 *)
Due(w, g) ==
    \/ g \in job[w].groups
    \/ Edge(w) \in newRels[w] /\ <<job[w].parent, g>> \in perms
DueKept(w) ==
    \A g \in Groups : Due(w, g) =>
        \/ <<job[w].child, g>> \in PermsSeen(w) \cup lost
        \/ pc[w] \in {"start", "read"}
        \/ Busy(w) /\ g \in todo[w]
        \/ Coming(w, job[w].child, g)
        \/ answer[w] = "error"

CommittedClosed ==
    \A p, c \in Objects, g \in Groups :
        <<p, c>> \in rels /\ <<p, g>> \in perms => <<c, g>> \in perms \cup lost

(* Rows asked for, or about to be inserted, are in every set that holds    *)
(* the initial and the asked ones and is closed under the relations.       *)
Asked(S) ==
    /\ InitPerms \subseteq S
    /\ \A w \in Workers : \A g \in job[w].groups : <<job[w].child, g>> \in S
Within(w, S) ==
    Closed(RelsSeen(w), S) =>
        /\ newPerms[w] \subseteq S
        /\ Busy(w) => \A g \in todo[w] : <<job[w].child, g>> \in S
        /\ Walking(w) => \A o \in Waiting(w) : <<o, group[w]>> \in S
AllWithin ==
    \A S \in SUBSET (Objects \X Groups) : Asked(S) =>
        /\ Closed(rels, S) => perms \subseteq S
        /\ \A w \in Workers : Within(w, S)

Own(w) == Placed(w) /\ KidsKnown(w) /\ VisitedKnown(w) /\ Owed(w) /\ DueKept(w)

IInv ==
    /\ TypeOK /\ Kept /\ OneAtATime /\ CommittedClosed /\ AllWithin
    /\ \A w \in Workers : Own(w)

-----------------------------------------------------------------------------
(* Queues. *)
LEMMA TailElements ==
    ASSUME NEW S, NEW s \in Seq(S), s # <<>>
    PROVE  /\ Head(s) \in S /\ Tail(s) \in Seq(S)
           /\ Elements(s) = {Head(s)} \cup Elements(Tail(s))
<1>1. /\ Head(s) \in S /\ Tail(s) \in Seq(S) /\ Head(s) = s[1]
      /\ Len(s) \in Nat /\ Len(s) >= 1 /\ Len(Tail(s)) = Len(s) - 1
      /\ DOMAIN s = 1..Len(s) /\ DOMAIN Tail(s) = 1..(Len(s) - 1)
      /\ \A i \in 1..(Len(s) - 1) : Tail(s)[i] = s[i + 1]
  OBVIOUS
<1>2. ASSUME NEW i \in DOMAIN s PROVE s[i] \in {Head(s)} \cup Elements(Tail(s))
  <2>1. CASE i = 1
    BY <1>1, <2>1
  <2>2. CASE i # 1
    <3>1. i - 1 \in DOMAIN Tail(s) /\ Tail(s)[i - 1] = s[i]
      BY <1>1, <2>2
    <3> QED
      BY <3>1 DEF Elements
  <2> QED
    BY <2>1, <2>2
<1>3. ASSUME NEW i \in DOMAIN Tail(s) PROVE Tail(s)[i] \in Elements(s)
  <2>1. i + 1 \in DOMAIN s /\ Tail(s)[i] = s[i + 1]
    BY <1>1
  <2> QED
    BY <2>1 DEF Elements
<1>4. Head(s) \in Elements(s)
  BY <1>1 DEF Elements
<1> QED
  BY <1>1, <1>2, <1>3, <1>4 DEF Elements

LEMMA ConcatElements ==
    ASSUME NEW S, NEW s \in Seq(S), NEW t \in Seq(S)
    PROVE  s \o t \in Seq(S) /\ Elements(s \o t) = Elements(s) \cup Elements(t)
<1>1. /\ s \o t \in Seq(S)
      /\ DOMAIN s = 1..Len(s) /\ DOMAIN t = 1..Len(t) /\ Len(s) \in Nat /\ Len(t) \in Nat
      /\ DOMAIN (s \o t) = 1..(Len(s) + Len(t))
      /\ \A i \in 1..(Len(s) + Len(t)) : (s \o t)[i] = IF i =< Len(s) THEN s[i] ELSE t[i - Len(s)]
  OBVIOUS
<1>2. ASSUME NEW i \in DOMAIN (s \o t) PROVE (s \o t)[i] \in Elements(s) \cup Elements(t)
  <2>1. CASE i =< Len(s)
    BY <1>1, <2>1 DEF Elements
  <2>2. CASE i > Len(s)
    <3>1. i - Len(s) \in DOMAIN t /\ (s \o t)[i] = t[i - Len(s)]
      BY <1>1, <2>2
    <3> QED
      BY <3>1 DEF Elements
  <2> QED
    BY <1>1, <2>1, <2>2
<1>3. ASSUME NEW i \in DOMAIN s PROVE s[i] \in Elements(s \o t)
  <2>1. i \in DOMAIN (s \o t) /\ (s \o t)[i] = s[i]
    BY <1>1
  <2> QED
    BY <2>1 DEF Elements
<1>4. ASSUME NEW i \in DOMAIN t PROVE t[i] \in Elements(s \o t)
  <2>1. Len(s) + i \in DOMAIN (s \o t) /\ (s \o t)[Len(s) + i] = t[i]
    BY <1>1
  <2> QED
    BY <2>1 DEF Elements
<1> QED
  BY <1>1, <1>2, <1>3, <1>4 DEF Elements

LEMMA OneElement ==
    ASSUME NEW S, NEW o \in S
    PROVE  <<o>> \in Seq(S) /\ Elements(<<o>>) = {o}
  BY DEF Elements

(* The children of an object in some order are a queue.                    *)
LEMMA OrderOfAll ==
    ASSUME NEW D \in SUBSET Objects, NEW order \in [1..Cardinality(D) -> D],
           {order[i] : i \in DOMAIN order} = D
    PROVE  order \in Seq(Objects) /\ Elements(order) = D
<1>1. IsFiniteSet(D)
  BY RequestsAssumption, FS_Subset
<1>2. Cardinality(D) \in Nat
  BY <1>1, FS_CardinalityType
<1>3. order \in Seq(Objects)
  BY <1>2
<1> QED
  BY <1>3 DEF Elements
-----------------------------------------------------------------------------
(* Types. *)
LEMMA RequestTypes ==
    ASSUME TypeOK, NEW w \in Workers
    PROVE  /\ job[w].parent \in Objects /\ job[w].child \in Objects
           /\ job[w].groups \in SUBSET Groups
           /\ job[w].kind \in {"share", "link"}
           /\ job[w].kind = "share" => job[w].parent = job[w].child
           /\ job[w].kind = "link" => job[w].groups = {}
<1>1. job[w] \in Requests
  BY DEF TypeOK
<1> QED
  BY <1>1 DEF Requests, Share, Link

LEMMA TypeInitially == Init => TypeOK
<1> SUFFICES ASSUME Init PROVE TypeOK
  OBVIOUS
<1>1. job \in [Workers -> Requests]
  BY RequestsAssumption DEF Init
<1>2. Unread \in [{} -> SUBSET Objects] /\ DOMAIN Unread = {}
  BY DEF Unread
<1> QED
  BY <1>1, <1>2, RequestsAssumption DEF Init, TypeOK, Labels

LEMMA TypeStep ==
    ASSUME TypeOK, NEW w \in Workers, Placed(w), Step(w)
    PROVE  TypeOK'
<1> USE DEF TypeOK, Labels, GoTo, At, db, walk
<1>r. /\ job[w].parent \in Objects /\ job[w].child \in Objects /\ job[w].groups \in SUBSET Groups
  BY RequestTypes
<1>u. Unread \in [{} -> SUBSET Objects] /\ DOMAIN Unread = {}
  BY DEF Unread
<1>p. /\ Walking(w) => group[w] \in Groups
      /\ pc[w] \in {"insert", "children"} => queue[w] # <<>>
  BY DEF Placed
<1>q. /\ queue[w] \in Seq(Objects)
      /\ queue[w] # <<>> => Head(queue[w]) \in Objects /\ Tail(queue[w]) \in Seq(Objects)
  BY TailElements
<1>1. CASE Start(w)
  BY <1>1, <1>r DEF Start
<1>2. CASE LinkParent(w)
  <2>0. UNCHANGED <<db, job, newPerms, todo, walk, answer, lost>>
    BY <1>2 DEF LinkParent
  <2>1. /\ pc' \in [Workers -> Labels]
        /\ newRels' = newRels \/ newRels' = [newRels EXCEPT ![w] = @ \cup {Edge(w)}]
    BY <1>2 DEF LinkParent, Edge
  <2>2. Edge(w) \in Objects \X Objects
    BY <1>r DEF Edge
  <2>3. newRels[w] \cup {Edge(w)} \in SUBSET (Objects \X Objects)
    BY <2>2
  <2> DEFINE N == newRels[w] \cup {Edge(w)}
  <2>4. newRels' = newRels \/ newRels' = [newRels EXCEPT ![w] = N]
    BY <2>1
  <2>5. N \in SUBSET (Objects \X Objects)
    BY <2>3
  <2> HIDE DEF N
  <2>6. newRels' \in [Workers -> SUBSET (Objects \X Objects)]
    BY <2>4, <2>5
  <2> QED
    BY <2>0, <2>1, <2>6
<1>3. CASE ReadParent(w)
  <2> DEFINE T == {g \in Groups : <<job[w].parent, g>> \in PermsSeen(w)}
  <2>1. T \in SUBSET Groups
    OBVIOUS
  <2>2. todo' = [todo EXCEPT ![w] = T]
    BY <1>3 DEF ReadParent
  <2> HIDE DEF T
  <2>3. todo' \in [Workers -> SUBSET Groups]
    BY <2>1, <2>2
  <2> QED
    BY <1>3, <2>3 DEF ReadParent
<1>4. CASE NextGroup(w)
  <2>0. UNCHANGED <<db, job, newRels, newPerms, kids, answer, lost>>
    BY <1>4 DEF NextGroup
  <2>1. <<job[w].child>> \in Seq(Objects)
    BY <1>r
  <2>2. CASE todo[w] = {}
    <3>1. UNCHANGED <<todo, group, queue, visited>> /\ pc' = [pc EXCEPT ![w] = "commit"]
      BY <1>4, <2>2 DEF NextGroup
    <3> QED
      BY <2>0, <3>1
  <2>3. CASE todo[w] # {}
    <3>1. PICK g \in todo[w] :
              /\ todo' = [todo EXCEPT ![w] = @ \ {g}]
              /\ group' = [group EXCEPT ![w] = g]
              /\ queue' = [queue EXCEPT ![w] = <<job[w].child>>]
              /\ visited' = [visited EXCEPT ![w] = {}]
              /\ pc' = [pc EXCEPT ![w] = "check"]
      BY <1>4, <2>3 DEF NextGroup
    <3>2. g \in Groups
      OBVIOUS
    <3>3. queue' \in [Workers -> Seq(Objects)]
      BY <2>1, <3>1
    <3>4. /\ todo' \in [Workers -> SUBSET Groups] /\ group' \in [Workers -> Groups \cup {NoGroup}]
          /\ visited' \in [Workers -> SUBSET Objects] /\ pc' \in [Workers -> Labels]
      BY <3>1, <3>2
    <3> QED
      BY <2>0, <3>3, <3>4
  <2> QED
    BY <2>2, <2>3
<1>5. CASE CheckPermission(w)
  <2>0. UNCHANGED <<db, job, newRels, newPerms, todo, group, kids, answer, lost>>
    BY <1>5 DEF CheckPermission
  <2>1. CASE queue[w] = <<>>
    <3>1. UNCHANGED <<queue, visited>> /\ pc' = [pc EXCEPT ![w] = "next"]
      BY <1>5, <2>1 DEF CheckPermission
    <3> QED
      BY <2>0, <3>1
  <2>2. CASE queue[w] # <<>>
    <3>1. /\ visited' = [visited EXCEPT ![w] = @ \cup {Head(queue[w])}]
          /\ pc' = [pc EXCEPT ![w] = "insert"] \/ pc' = [pc EXCEPT ![w] = "check"]
          /\ queue' = queue \/ queue' = [queue EXCEPT ![w] = Tail(@)]
      BY <1>5, <2>2 DEF CheckPermission
    <3>2. queue' \in [Workers -> Seq(Objects)]
      BY <3>1, <2>2, <1>q
    <3>3. visited' \in [Workers -> SUBSET Objects] /\ pc' \in [Workers -> Labels]
      BY <3>1, <2>2, <1>q
    <3> QED
      BY <2>0, <3>2, <3>3
  <2> QED
    BY <2>1, <2>2
<1>6. CASE InsertPermission(w)
  <2>1. HeadRow(w) \in Objects \X Groups
    BY <1>6, <1>p, <1>q DEF InsertPermission, HeadRow, Walking
  <2>2. newPerms' \in [Workers -> SUBSET (Objects \X Groups)]
    BY <1>6, <2>1 DEF InsertPermission, HeadRow
  <2> QED
    BY <1>6, <2>2 DEF InsertPermission
<1>7. CASE PermissionConflict(w)
  <2>1. queue' \in [Workers -> Seq(Objects)]
    BY <1>7, <1>p, <1>q DEF PermissionConflict
  <2>2. /\ lost' \subseteq Objects \X Groups /\ newPerms' \in [Workers -> SUBSET (Objects \X Groups)]
        /\ newRels' \in [Workers -> SUBSET (Objects \X Objects)] /\ pc' \in [Workers -> Labels]
    BY <1>7 DEF PermissionConflict
  <2>3. /\ DOMAIN kids' = Workers
        /\ \A v \in Workers : kids'[v] \in [DOMAIN kids'[v] -> SUBSET Objects] /\ DOMAIN kids'[v] \subseteq Objects
    BY <1>7, <1>u DEF PermissionConflict
  <2>4. UNCHANGED <<db, job, todo, group, visited, answer>>
    BY <1>7 DEF PermissionConflict
  <2> QED
    BY <2>1, <2>2, <2>3, <2>4
<1>8. CASE QueueChildren(w)
  <2> DEFINE o == Head(queue[w])
             loaded == IF o \in DOMAIN kids[w] THEN kids[w][o]
                       ELSE {c \in Objects : <<o, c>> \in RelsSeen(w)}
             K == [x \in DOMAIN kids[w] \cup {o} |-> IF x = o THEN loaded ELSE kids[w][x]]
  <2>1. o \in Objects /\ loaded \in SUBSET Objects
    BY <1>8, <1>p, <1>q DEF QueueChildren
  <2>2. PICK order \in [1..Cardinality(loaded) -> loaded] :
            /\ {order[i] : i \in DOMAIN order} = loaded
            /\ queue' = [queue EXCEPT ![w] = Tail(@) \o order]
    BY <1>8 DEF QueueChildren
  <2>3. kids' = [kids EXCEPT ![w] = K]
    BY <1>8 DEF QueueChildren
  <2>4. /\ pc' = [pc EXCEPT ![w] = "check"]
        /\ UNCHANGED <<db, job, newRels, newPerms, todo, group, visited, answer, lost>>
    BY <1>8 DEF QueueChildren
  <2>5. K \in [DOMAIN K -> SUBSET Objects] /\ DOMAIN K \subseteq Objects
    BY <2>1
  <2>o. order \in Seq(Objects)
    BY <2>1, <2>2, OrderOfAll
  <2> HIDE DEF K, o, loaded
  <2>6. /\ DOMAIN kids' = Workers
        /\ \A v \in Workers : kids'[v] \in [DOMAIN kids'[v] -> SUBSET Objects] /\ DOMAIN kids'[v] \subseteq Objects
    BY <2>3, <2>5
  <2>7. Tail(queue[w]) \o order \in Seq(Objects)
    BY <1>8, <1>p, <1>q, <2>o DEF QueueChildren
  <2>8. queue' \in [Workers -> Seq(Objects)]
    BY <2>2, <2>7
  <2> QED
    BY <2>4, <2>6, <2>8
<1>9. CASE Commit(w)
  BY <1>9 DEF Commit
<1>10. CASE BreakDeadlock(w)
  BY <1>10 DEF BreakDeadlock
<1> QED
  BY <1>1, <1>2, <1>3, <1>4, <1>5, <1>6, <1>7, <1>8, <1>9, <1>10 DEF Step
(* What a step of one request leaves alone. *)
Frame(w) ==
    /\ job' = job
    /\ \A v \in Workers \ {w} :
         /\ pc'[v] = pc[v] /\ newRels'[v] = newRels[v] /\ newPerms'[v] = newPerms[v]
         /\ todo'[v] = todo[v] /\ group'[v] = group[v] /\ queue'[v] = queue[v]
         /\ visited'[v] = visited[v] /\ kids'[v] = kids[v] /\ answer'[v] = answer[v]

LEMMA FrameStep ==
    ASSUME TypeOK, NEW w \in Workers, Step(w)
    PROVE  Frame(w)
<1> USE DEF Frame, TypeOK, GoTo, db, walk
<1>1. CASE Start(w)
  BY <1>1 DEF Start
<1>2. CASE LinkParent(w)
  BY <1>2 DEF LinkParent
<1>3. CASE ReadParent(w)
  BY <1>3 DEF ReadParent
<1>4. CASE NextGroup(w)
  BY <1>4 DEF NextGroup
<1>5. CASE CheckPermission(w)
  BY <1>5 DEF CheckPermission
<1>6. CASE InsertPermission(w)
  BY <1>6 DEF InsertPermission
<1>7. CASE PermissionConflict(w)
  BY <1>7 DEF PermissionConflict
<1>8. CASE QueueChildren(w)
  BY <1>8 DEF QueueChildren
<1>9. CASE Commit(w)
  BY <1>9 DEF Commit
<1>10. CASE BreakDeadlock(w)
  BY <1>10 DEF BreakDeadlock
<1> QED
  BY <1>1, <1>2, <1>3, <1>4, <1>5, <1>6, <1>7, <1>8, <1>9, <1>10 DEF Step

(* What a request that goes on leaves of its own. *)
SameRows(w) == db' = db /\ lost' = lost /\ newRels'[w] = newRels[w] /\ newPerms'[w] = newPerms[w]
SameWalk(w) ==
    group'[w] = group[w] /\ queue'[w] = queue[w] /\ visited'[w] = visited[w] /\ kids'[w] = kids[w]

LEMMA StartEffect ==
    ASSUME TypeOK, NEW w \in Workers, Start(w)
    PROVE  /\ pc[w] = "start" /\ SameRows(w) /\ SameWalk(w) /\ answer'[w] = answer[w]
           /\ \/ job[w].kind = "share" /\ pc'[w] = "next" /\ todo'[w] = job[w].groups
              \/ job[w].kind = "link" /\ todo'[w] = todo[w] /\ pc'[w] = "commit" /\ Edge(w) \in RelsSeen(w)
              \/ job[w].kind = "link" /\ todo'[w] = todo[w] /\ pc'[w] = "link" /\ Edge(w) \notin RelsSeen(w)
  BY RequestTypes DEF TypeOK, Start, At, GoTo, walk, db, SameRows, SameWalk, Edge

LEMMA LinkEffect ==
    ASSUME TypeOK, NEW w \in Workers, LinkParent(w)
    PROVE  /\ pc[w] = "link" /\ db' = db /\ lost' = lost /\ newPerms'[w] = newPerms[w]
           /\ SameWalk(w) /\ answer'[w] = answer[w] /\ todo'[w] = todo[w]
           /\ \A v \in Workers \ {w} : Edge(w) \notin newRels[v]
           /\ \/ Edge(w) \in rels /\ pc'[w] = "commit" /\ newRels'[w] = newRels[w]
              \/ Edge(w) \notin rels /\ pc'[w] = "read" /\ newRels'[w] = newRels[w] \cup {Edge(w)}
  BY DEF TypeOK, LinkParent, At, GoTo, walk, db, SameWalk, Edge

LEMMA ReadEffect ==
    ASSUME TypeOK, NEW w \in Workers, ReadParent(w)
    PROVE  /\ pc[w] = "read" /\ pc'[w] = "next" /\ SameRows(w) /\ SameWalk(w) /\ answer'[w] = answer[w]
           /\ todo'[w] = {g \in Groups : <<job[w].parent, g>> \in PermsSeen(w)}
  BY DEF TypeOK, ReadParent, At, GoTo, walk, db, SameRows, SameWalk

LEMMA NextEffect ==
    ASSUME TypeOK, NEW w \in Workers, NextGroup(w)
    PROVE  /\ pc[w] = "next" /\ SameRows(w) /\ kids'[w] = kids[w] /\ answer'[w] = answer[w]
           /\ \/ todo[w] = {} /\ pc'[w] = "commit" /\ todo'[w] = todo[w] /\ SameWalk(w)
              \/ \E g \in todo[w] :
                   /\ pc'[w] = "check" /\ todo'[w] = todo[w] \ {g} /\ group'[w] = g
                   /\ queue'[w] = <<job[w].child>> /\ visited'[w] = {}
  BY DEF TypeOK, NextGroup, At, GoTo, db, SameRows, SameWalk

LEMMA CheckEffect ==
    ASSUME TypeOK, NEW w \in Workers, CheckPermission(w)
    PROVE  /\ pc[w] = "check" /\ SameRows(w) /\ kids'[w] = kids[w] /\ answer'[w] = answer[w]
           /\ todo'[w] = todo[w] /\ group'[w] = group[w]
           /\ \/ queue[w] = <<>> /\ pc'[w] = "next" /\ SameWalk(w)
              \/ /\ queue[w] # <<>> /\ Head(queue[w]) \notin visited[w] /\ HeadRow(w) \notin PermsSeen(w)
                 /\ pc'[w] = "insert" /\ queue'[w] = queue[w]
                 /\ visited'[w] = visited[w] \cup {Head(queue[w])}
              \/ /\ queue[w] # <<>>
                 /\ Head(queue[w]) \in visited[w] \/ HeadRow(w) \in PermsSeen(w)
                 /\ pc'[w] = "check" /\ queue'[w] = Tail(queue[w])
                 /\ visited'[w] = visited[w] \cup {Head(queue[w])}
  BY DEF TypeOK, CheckPermission, At, GoTo, db, SameRows, SameWalk, HeadRow

LEMMA InsertEffect ==
    ASSUME TypeOK, NEW w \in Workers, InsertPermission(w)
    PROVE  /\ pc[w] = "insert" /\ pc'[w] = "children" /\ db' = db /\ lost' = lost
           /\ newRels'[w] = newRels[w] /\ SameWalk(w) /\ answer'[w] = answer[w] /\ todo'[w] = todo[w]
           /\ newPerms'[w] = newPerms[w] \cup {HeadRow(w)}
  BY DEF TypeOK, InsertPermission, At, GoTo, db, walk, SameWalk, HeadRow

LEMMA ConflictEffect ==
    ASSUME TypeOK, NEW w \in Workers, PermissionConflict(w)
    PROVE  /\ pc[w] = "insert" /\ pc'[w] = "check" /\ db' = db /\ lost' = lost \cup newPerms[w]
           /\ newRels'[w] = {} /\ newPerms'[w] = {} /\ kids'[w] = Unread
           /\ answer'[w] = answer[w] /\ todo'[w] = todo[w] /\ group'[w] = group[w]
           /\ visited'[w] = visited[w] /\ queue'[w] = Tail(queue[w]) /\ HeadRow(w) \in perms
  BY DEF TypeOK, PermissionConflict, At, GoTo, db, HeadRow

LEMMA CommitEffect ==
    ASSUME TypeOK, NEW w \in Workers, Commit(w)
    PROVE  /\ pc[w] = "commit" /\ pc'[w] = "done" /\ rels' = RelsSeen(w) /\ perms' = PermsSeen(w)
           /\ lost' = lost /\ newRels'[w] = {} /\ newPerms'[w] = {} /\ answer'[w] = "ok"
           /\ SameWalk(w) /\ todo'[w] = todo[w]
  BY DEF TypeOK, Commit, At, GoTo, db, walk, SameWalk, RelsSeen, PermsSeen

LEMMA BreakEffect ==
    ASSUME TypeOK, NEW w \in Workers, BreakDeadlock(w)
    PROVE  /\ pc'[w] = "done" /\ db' = db
           /\ lost' = lost /\ newRels'[w] = {} /\ newPerms'[w] = {} /\ answer'[w] = "error"
           /\ SameWalk(w) /\ todo'[w] = todo[w]
  BY DEF TypeOK, BreakDeadlock, At, GoTo, db, walk, SameWalk

LEMMA ChildrenEffect ==
    ASSUME TypeOK, NEW w \in Workers, Placed(w), KidsKnown(w), QueueChildren(w)
    PROVE  /\ pc[w] = "children" /\ pc'[w] = "check" /\ SameRows(w) /\ answer'[w] = answer[w]
           /\ todo'[w] = todo[w] /\ group'[w] = group[w] /\ visited'[w] = visited[w]
           /\ Head(queue[w]) \in Objects
           /\ Waiting(w) = {Head(queue[w])} \cup Elements(Tail(queue[w]))
           /\ Waiting(w)' = Elements(Tail(queue[w]))
                               \cup {c \in Objects : <<Head(queue[w]), c>> \in RelsSeen(w)}
           /\ \A o \in DOMAIN kids'[w] : kids'[w][o] = {c \in Objects : <<o, c>> \in RelsSeen(w)}
<1> DEFINE o == Head(queue[w])
           C(x) == {c \in Objects : <<x, c>> \in RelsSeen(w)}
           loaded == IF o \in DOMAIN kids[w] THEN kids[w][o] ELSE C(o)
           K == [x \in DOMAIN kids[w] \cup {o} |-> IF x = o THEN loaded ELSE kids[w][x]]
<1>1. pc[w] = "children" /\ queue[w] # <<>> /\ queue[w] \in Seq(Objects)
  BY DEF QueueChildren, At, Placed, TypeOK
<1>2. /\ o \in Objects /\ Tail(queue[w]) \in Seq(Objects)
      /\ Waiting(w) = {o} \cup Elements(Tail(queue[w]))
  BY <1>1, TailElements DEF Waiting
<1>3. \A x \in DOMAIN kids[w] : kids[w][x] = C(x)
  BY <1>1 DEF KidsKnown, Busy
<1>4. loaded = C(o)
  BY <1>3
<1>5. PICK order \in [1..Cardinality(loaded) -> loaded] :
          /\ {order[i] : i \in DOMAIN order} = loaded
          /\ queue' = [queue EXCEPT ![w] = Tail(@) \o order]
  BY DEF QueueChildren
<1>6. kids' = [kids EXCEPT ![w] = K]
  BY DEF QueueChildren
<1>7. /\ pc' = [pc EXCEPT ![w] = "check"]
      /\ UNCHANGED <<db, job, newRels, newPerms, todo, group, visited, answer, lost>>
  BY DEF QueueChildren, GoTo
<1>8. DOMAIN K = DOMAIN kids[w] \cup {o} /\ \A x \in DOMAIN K : K[x] = C(x)
  BY <1>3, <1>4
<1>9. loaded \in SUBSET Objects
  BY <1>4
<1> HIDE DEF K, loaded, C, o
<1>10. order \in Seq(Objects) /\ Elements(order) = loaded
  BY <1>5, <1>9, OrderOfAll
<1>11. queue'[w] = Tail(queue[w]) \o order /\ kids'[w] = K
  BY <1>5, <1>6 DEF TypeOK
<1>12. Waiting(w)' = Elements(Tail(queue[w])) \cup C(o)
  <2>1. Elements(Tail(queue[w]) \o order) = Elements(Tail(queue[w])) \cup Elements(order)
    <3>1. \A s, t \in Seq(Objects) : Elements(s \o t) = Elements(s) \cup Elements(t)
      BY ConcatElements
    <3> QED
      BY <1>2, <1>10, <3>1
  <2>2. Waiting(w)' = Elements(queue'[w])
    BY DEF Waiting, Elements
  <2> QED
    BY <2>1, <2>2, <1>4, <1>10, <1>11
<1>13. \A x \in DOMAIN kids'[w] : kids'[w][x] = C(x)
  BY <1>8, <1>11
<1>14. /\ pc'[w] = "check" /\ SameRows(w) /\ answer'[w] = answer[w]
       /\ todo'[w] = todo[w] /\ group'[w] = group[w] /\ visited'[w] = visited[w]
  BY <1>7 DEF SameRows, TypeOK, db
<1> QED
  BY <1>1, <1>2, <1>12, <1>13, <1>14 DEF C, o

-----------------------------------------------------------------------------
(* The requests that come at once. *)
LEMMA Modes ==
    ASSUME Separate, TypeOK, Kept
    PROVE  /\ Sharing => \A w \in Workers : job[w].kind = "link" => Edge(w) \in InitRels
           /\ ~Sharing =>
                /\ \A w \in Workers : job[w].kind = "link"
                /\ \A v, w \in Workers : Edge(v) \in InitRels \/ Edge(w) \in InitRels \/ Edge(v) = Edge(w)
<1>1. Apart(job)
  BY DEF Separate, Kept
<1>2. ASSUME Sharing, NEW w \in Workers, job[w].kind = "link" PROVE Edge(w) \in InitRels
  BY <1>2 DEF Sharing, Old, Edge
<1>3. ASSUME ~Sharing
      PROVE  /\ \A w \in Workers : job[w].kind = "link"
             /\ \A v, w \in Workers : Edge(v) \in InitRels \/ Edge(w) \in InitRels \/ Edge(v) = Edge(w)
  <2>1. PICK p, c \in Objects : \A w \in Workers :
            job[w].kind = "link" /\ (job[w] = Link(p, c) \/ Old(job[w]))
    BY <1>1, <1>3 DEF Apart, Sharing
  <2>2. ASSUME NEW w \in Workers PROVE Edge(w) = <<p, c>> \/ Edge(w) \in InitRels
    BY <2>1 DEF Link, Old, Edge
  <2> QED
    BY <2>1, <2>2
<1> QED
  BY <1>2, <1>3

(* Only a commit changes the database, and it only adds to it.             *)
LEMMA DatabaseStep ==
    ASSUME TypeOK, NEW w \in Workers, Step(w)
    PROVE  /\ rels \subseteq rels' /\ perms \subseteq perms' /\ lost \subseteq lost'
           /\ ~Commit(w) => db' = db
           /\ rels' \in {rels, RelsSeen(w)} /\ perms' \in {perms, PermsSeen(w)}
<1>1. Commit(w) => rels' = RelsSeen(w) /\ perms' = PermsSeen(w) /\ lost' = lost
  BY CommitEffect
<1>2. ~Commit(w) => db' = db /\ lost \subseteq lost'
  BY DEF Step, Start, LinkParent, ReadParent, NextGroup, CheckPermission, InsertPermission,
         PermissionConflict, QueueChildren, BreakDeadlock, db
<1> QED
  BY <1>1, <1>2 DEF db, RelsSeen, PermsSeen

(* While a request is under way, no other changes the relations it sees,   *)
(* nor, if it made a relation, the permissions.                            *)
LEMMA Steady ==
    ASSUME IInv, NEW w \in Workers, NEW v \in Workers, v # w, Step(w)
    PROVE  /\ ~Quiet(v) => rels' = rels
           /\ newRels[v] # {} => perms' = perms
<1>1. /\ rels' \in {rels, rels \cup newRels[w]} /\ perms' \in {perms, perms \cup newPerms[w]}
  BY DatabaseStep DEF IInv, RelsSeen, PermsSeen
<1>2. CASE Sharing
  BY <1>1, <1>2 DEF IInv, Kept
<1>3. CASE ~Sharing
  <2>1. Quiet(v) \/ Quiet(w)
    BY <1>3 DEF IInv, OneAtATime, Alone
  <2> QED
    BY <1>1, <2>1 DEF Quiet
<1> QED
  BY <1>2, <1>3

LEMMA OthersKeep ==
    ASSUME IInv, NEW w \in Workers, NEW v \in Workers, v # w, Step(w)
    PROVE  Own(v)'
<1>1. /\ job' = job /\ pc'[v] = pc[v] /\ newRels'[v] = newRels[v] /\ newPerms'[v] = newPerms[v]
      /\ todo'[v] = todo[v] /\ group'[v] = group[v] /\ queue'[v] = queue[v]
      /\ visited'[v] = visited[v] /\ kids'[v] = kids[v] /\ answer'[v] = answer[v]
  BY FrameStep DEF IInv, Frame
<1>2. rels \subseteq rels' /\ perms \subseteq perms' /\ lost \subseteq lost'
  BY DatabaseStep DEF IInv
<1>3. (~Quiet(v) => rels' = rels) /\ (newRels[v] # {} => perms' = perms)
  BY Steady
<1>4. Placed(v) /\ KidsKnown(v) /\ VisitedKnown(v) /\ Owed(v) /\ DueKept(v)
  BY DEF IInv, Own
<1>5. Placed(v)'
  BY <1>1, <1>2, <1>4 DEF Placed, Walking, HeadRow, Edge, RelsSeen
<1>6. KidsKnown(v)'
  BY <1>1, <1>3, <1>4 DEF KidsKnown, Busy, RelsSeen, Quiet
<1>7. VisitedKnown(v)'
  BY <1>1, <1>2, <1>4 DEF VisitedKnown, Walking, PermsSeen
<1>8. \A o, g : Coming(v, o, g) => Coming(v, o, g)'
  BY <1>1 DEF Coming, Walking, Waiting, Elements
<1>9. Owed(v)'
  <2> SUFFICES ASSUME NEW p \in Objects, NEW c \in Objects, NEW g \in Groups,
                      <<p, c>> \in RelsSeen(v)', <<p, g>> \in newPerms'[v]
               PROVE  \/ <<c, g>> \in (PermsSeen(v) \cup lost)'
                      \/ Coming(v, c, g)'
                      \/ pc'[v] = "children" /\ <<p, g>> = HeadRow(v)'
    BY DEF Owed
  <2>1. <<p, c>> \in RelsSeen(v) /\ <<p, g>> \in newPerms[v]
    BY <1>1, <1>3 DEF RelsSeen, Quiet
  <2>2. \/ <<c, g>> \in PermsSeen(v) \cup lost
        \/ Coming(v, c, g)
        \/ pc[v] = "children" /\ <<p, g>> = HeadRow(v)
    BY <1>4, <2>1 DEF Owed
  <2> QED
    BY <1>1, <1>2, <1>8, <2>2 DEF PermsSeen, HeadRow
<1>10. DueKept(v)'
  <2> SUFFICES ASSUME NEW g \in Groups, Due(v, g)'
               PROVE  \/ <<job'[v].child, g>> \in (PermsSeen(v) \cup lost)'
                      \/ pc'[v] \in {"start", "read"}
                      \/ Busy(v)' /\ g \in todo'[v]
                      \/ Coming(v, job[v].child, g)'
                      \/ answer'[v] = "error"
    BY DEF DueKept
  <2>1. Due(v, g)
    BY <1>1, <1>3 DEF Due, Edge
  <2>2. \/ <<job[v].child, g>> \in PermsSeen(v) \cup lost
        \/ pc[v] \in {"start", "read"}
        \/ Busy(v) /\ g \in todo[v]
        \/ Coming(v, job[v].child, g)
        \/ answer[v] = "error"
    BY <1>4, <2>1 DEF DueKept
  <2> QED
    BY <1>1, <1>2, <2>2 DEF PermsSeen, Busy, Coming, Walking, Waiting, Elements
<1> QED
  BY <1>5, <1>6, <1>7, <1>9, <1>10 DEF Own

LEMMA OthersWithin ==
    ASSUME IInv, NEW w \in Workers, NEW v \in Workers, v # w, Step(w),
           NEW S, Within(v, S)
    PROVE  Within(v, S)'
<1>1. /\ job' = job /\ pc'[v] = pc[v] /\ newRels'[v] = newRels[v] /\ newPerms'[v] = newPerms[v]
      /\ todo'[v] = todo[v] /\ group'[v] = group[v] /\ queue'[v] = queue[v]
  BY FrameStep DEF IInv, Frame
<1>2. rels \subseteq rels'
  BY DatabaseStep DEF IInv
<1>3. Closed(RelsSeen(v)', S) => Closed(RelsSeen(v), S)
  BY <1>1, <1>2 DEF Closed, RelsSeen
<1> QED
  BY <1>1, <1>3 DEF Within, Busy, Walking, Waiting, Elements

-----------------------------------------------------------------------------
(* Each statement keeps what is true of its own request. *)
OwnWithin(w) == \A S \in SUBSET (Objects \X Groups) : Asked(S) => Within(w, S)

LEMMA StartKeeps ==
    ASSUME Separate, IInv, NEW w \in Workers, Start(w)
    PROVE  Own(w)' /\ OwnWithin(w)'
<1>1. TypeOK /\ Kept /\ Placed(w)
  BY DEF IInv, Own
<1>2. /\ pc[w] = "start" /\ SameRows(w) /\ SameWalk(w) /\ answer'[w] = answer[w] /\ job' = job
      /\ \/ job[w].kind = "share" /\ pc'[w] = "next" /\ todo'[w] = job[w].groups
         \/ job[w].kind = "link" /\ todo'[w] = todo[w] /\ pc'[w] = "commit" /\ Edge(w) \in RelsSeen(w)
         \/ job[w].kind = "link" /\ todo'[w] = todo[w] /\ pc'[w] = "link" /\ Edge(w) \notin RelsSeen(w)
  BY <1>1, StartEffect, FrameStep DEF Step, Frame
<1>3. /\ newRels[w] = {} /\ newPerms[w] = {} /\ kids[w] = Unread /\ rels' = rels
      /\ newRels'[w] = {} /\ newPerms'[w] = {} /\ kids'[w] = Unread /\ DOMAIN Unread = {}
      /\ InitRels \subseteq rels
  BY <1>1, <1>2 DEF Placed, SameRows, SameWalk, db, Unread, Kept
<1>4. job[w].kind = "link" => job[w].groups = {}
  BY <1>1, RequestTypes
<1>5. Placed(w)'
  BY <1>1, <1>2, <1>3 DEF Placed, RelsSeen, Edge, Walking
<1>6. KidsKnown(w)' /\ VisitedKnown(w)' /\ Owed(w)'
  BY <1>2, <1>3 DEF KidsKnown, VisitedKnown, Owed, Walking
<1>7. DueKept(w)'
  BY <1>2, <1>3, <1>4 DEF DueKept, Due, Busy
<1>8. OwnWithin(w)'
  <2>1. \A S : Asked(S)' => \A g \in job[w].groups : <<job[w].child, g>> \in S
    BY <1>2 DEF Asked
  <2> QED
    BY <1>2, <1>3, <2>1 DEF OwnWithin, Within, Busy, Walking
<1> QED
  BY <1>5, <1>6, <1>7, <1>8 DEF Own

LEMMA LinkKeeps ==
    ASSUME Separate, IInv, NEW w \in Workers, LinkParent(w)
    PROVE  Own(w)' /\ OwnWithin(w)'
<1>1. TypeOK /\ Kept /\ Placed(w)
  BY DEF IInv, Own
<1>2. /\ pc[w] = "link" /\ db' = db /\ newPerms'[w] = newPerms[w]
      /\ SameWalk(w) /\ answer'[w] = answer[w] /\ todo'[w] = todo[w] /\ job' = job
      /\ \/ Edge(w) \in rels /\ pc'[w] = "commit" /\ newRels'[w] = newRels[w]
         \/ Edge(w) \notin rels /\ pc'[w] = "read" /\ newRels'[w] = newRels[w] \cup {Edge(w)}
  BY <1>1, LinkEffect, FrameStep DEF Step, Frame
<1>3. /\ newRels[w] = {} /\ newPerms'[w] = {} /\ kids'[w] = Unread /\ DOMAIN Unread = {} /\ rels' = rels
      /\ todo'[w] = {} /\ job[w].kind = "link"
  BY <1>1, <1>2 DEF Placed, SameWalk, db, Unread
<1>4. job[w].groups = {}
  BY <1>1, <1>3, RequestTypes
<1>5. Placed(w)'
  BY <1>1, <1>2, <1>3 DEF Placed, RelsSeen, Edge, Walking
<1>6. KidsKnown(w)' /\ VisitedKnown(w)' /\ Owed(w)'
  BY <1>2, <1>3 DEF KidsKnown, VisitedKnown, Owed, Walking
<1>7. DueKept(w)'
  BY <1>2, <1>3, <1>4 DEF DueKept, Due
<1>8. OwnWithin(w)'
  BY <1>2, <1>3 DEF OwnWithin, Within, Walking
<1> QED
  BY <1>5, <1>6, <1>7, <1>8 DEF Own

LEMMA ReadKeeps ==
    ASSUME Separate, IInv, NEW w \in Workers, ReadParent(w)
    PROVE  Own(w)' /\ OwnWithin(w)'
<1>1. TypeOK /\ Kept /\ Placed(w)
  BY DEF IInv, Own
<1>2. /\ pc[w] = "read" /\ pc'[w] = "next" /\ SameRows(w) /\ SameWalk(w) /\ answer'[w] = answer[w]
      /\ todo'[w] = {g \in Groups : <<job[w].parent, g>> \in PermsSeen(w)} /\ job' = job
  BY <1>1, ReadEffect, FrameStep DEF Step, Frame
<1>3. /\ kids'[w] = Unread /\ DOMAIN Unread = {} /\ rels' = rels /\ perms' = perms /\ lost' = lost
      /\ newRels'[w] = newRels[w] /\ newPerms'[w] = newPerms[w] /\ job[w].kind = "link"
  BY <1>1, <1>2 DEF Placed, SameWalk, SameRows, db, Unread
<1>4. job[w].groups = {}
  BY <1>1, <1>3, RequestTypes
<1>5. Placed(w)'
  BY <1>1, <1>2, <1>3 DEF Placed, RelsSeen, Edge, Walking
<1>6. KidsKnown(w)' /\ VisitedKnown(w)'
  BY <1>2, <1>3 DEF KidsKnown, VisitedKnown, Walking
<1>7. Owed(w)'
  BY <1>2, <1>3 DEF IInv, Own, Owed, RelsSeen, PermsSeen, Coming, Walking
<1>8. DueKept(w)'
  BY <1>2, <1>3, <1>4 DEF DueKept, Due, PermsSeen, Busy, Edge
<1>9. OwnWithin(w)'
  <2> SUFFICES ASSUME NEW S \in SUBSET (Objects \X Groups), Asked(S), Closed(RelsSeen(w), S)
               PROVE  newPerms[w] \subseteq S /\ \A g \in todo'[w] : <<job[w].child, g>> \in S
    BY <1>2, <1>3 DEF OwnWithin, Within, Walking, RelsSeen, Asked
  <2>1. Closed(rels, S)
    BY DEF Closed, RelsSeen
  <2>2. perms \subseteq S /\ newPerms[w] \subseteq S
    BY <2>1 DEF IInv, AllWithin, Within
  <2>3. Edge(w) \in RelsSeen(w)
    <3>1. answer[w] # "error"
      BY <1>1, <1>2 DEF Placed
    <3> QED
      BY <1>1, <1>2, <1>3, <3>1 DEF Placed
  <2>4. job[w].parent \in Objects /\ job[w].child \in Objects
    BY <1>1, RequestTypes
  <2>5. ASSUME NEW g \in todo'[w] PROVE <<job[w].child, g>> \in S
    <3>1. g \in Groups /\ <<job[w].parent, g>> \in S
      BY <1>2, <2>2 DEF PermsSeen
    <3> QED
      BY <2>3, <2>4, <3>1 DEF Closed, Edge
  <2> QED
    BY <2>2, <2>5
<1> QED
  BY <1>5, <1>6, <1>7, <1>8, <1>9 DEF Own

LEMMA NextKeeps ==
    ASSUME Separate, IInv, NEW w \in Workers, NextGroup(w)
    PROVE  Own(w)' /\ OwnWithin(w)'
<1>1. TypeOK /\ Kept /\ Placed(w)
  BY DEF IInv, Own
<1>2. /\ pc[w] = "next" /\ SameRows(w) /\ kids'[w] = kids[w] /\ answer'[w] = answer[w] /\ job' = job
      /\ \/ todo[w] = {} /\ pc'[w] = "commit" /\ todo'[w] = todo[w] /\ SameWalk(w)
         \/ \E g \in todo[w] :
              /\ pc'[w] = "check" /\ todo'[w] = todo[w] \ {g} /\ group'[w] = g
              /\ queue'[w] = <<job[w].child>> /\ visited'[w] = {}
  BY <1>1, NextEffect, FrameStep DEF Step, Frame
<1>3. /\ rels' = rels /\ perms' = perms /\ lost' = lost
      /\ newRels'[w] = newRels[w] /\ newPerms'[w] = newPerms[w]
  BY <1>2 DEF SameRows, db
<1>4. todo[w] \subseteq Groups /\ job[w].child \in Objects
  BY <1>1, RequestTypes DEF TypeOK
<1>5. Placed(w)'
  BY <1>1, <1>2, <1>3, <1>4 DEF Placed, RelsSeen, Edge, Walking
<1>6. KidsKnown(w)'
  BY <1>2, <1>3 DEF KidsKnown, Busy, RelsSeen, IInv, Own
<1>7. VisitedKnown(w)'
  BY <1>2 DEF VisitedKnown, Walking
<1>8. Owed(w)'
  BY <1>2, <1>3 DEF IInv, Own, Owed, RelsSeen, PermsSeen, Coming, Walking
<1>w. queue'[w] = <<job[w].child>> => Waiting(w)' = {job[w].child}
  <2>1. Elements(<<job[w].child>>) = {job[w].child}
    BY <1>4, OneElement
  <2> QED
    BY <2>1 DEF Waiting, Elements
<1>9. DueKept(w)'
  <2> SUFFICES ASSUME NEW g \in Groups, Due(w, g)
               PROVE  \/ <<job[w].child, g>> \in PermsSeen(w) \cup lost
                      \/ Busy(w)' /\ g \in todo'[w]
                      \/ Walking(w)' /\ g = group'[w] /\ job[w].child \in Waiting(w)'
                      \/ answer[w] = "error"
    BY <1>2, <1>3 DEF DueKept, Due, PermsSeen, Edge, Coming
  <2>1. \/ <<job[w].child, g>> \in PermsSeen(w) \cup lost
        \/ g \in todo[w]
        \/ answer[w] = "error"
    BY <1>2 DEF IInv, Own, DueKept, Coming, Walking
  <2>2. CASE g \in todo[w]
    BY <1>2, <1>w, <2>2 DEF Busy, Walking
  <2> QED
    BY <2>1, <2>2
<1>10. OwnWithin(w)'
  <2> SUFFICES ASSUME NEW S \in SUBSET (Objects \X Groups), Asked(S), Closed(RelsSeen(w), S)
               PROVE  /\ newPerms[w] \subseteq S
                      /\ Busy(w)' => \A g \in todo'[w] : <<job[w].child, g>> \in S
                      /\ Walking(w)' => \A o \in Waiting(w)' : <<o, group'[w]>> \in S
    BY <1>2, <1>3 DEF OwnWithin, Within, RelsSeen, Asked
  <2>1. newPerms[w] \subseteq S /\ \A g \in todo[w] : <<job[w].child, g>> \in S
    BY <1>2 DEF IInv, AllWithin, Within, Busy
  <2> QED
    BY <1>2, <1>w, <2>1 DEF Walking
<1> QED
  BY <1>5, <1>6, <1>7, <1>8, <1>9, <1>10 DEF Own

(* The head of the queue: skipped, or its row is to be inserted. *)
LEMMA CheckKeeps ==
    ASSUME Separate, IInv, NEW w \in Workers, CheckPermission(w)
    PROVE  Own(w)' /\ OwnWithin(w)'
<1> DEFINE o == Head(queue[w])
           known(x) == <<x, group[w]>> \in PermsSeen(w) \cup lost
<1>1. TypeOK /\ Kept /\ Placed(w)
  BY DEF IInv, Own
<1>2. /\ pc[w] = "check" /\ SameRows(w) /\ kids'[w] = kids[w] /\ answer'[w] = answer[w] /\ job' = job
      /\ todo'[w] = todo[w] /\ group'[w] = group[w]
      /\ \/ queue[w] = <<>> /\ pc'[w] = "next" /\ SameWalk(w)
         \/ /\ queue[w] # <<>> /\ o \notin visited[w] /\ HeadRow(w) \notin PermsSeen(w)
            /\ pc'[w] = "insert" /\ queue'[w] = queue[w] /\ visited'[w] = visited[w] \cup {o}
         \/ /\ queue[w] # <<>>
            /\ o \in visited[w] \/ HeadRow(w) \in PermsSeen(w)
            /\ pc'[w] = "check" /\ queue'[w] = Tail(queue[w]) /\ visited'[w] = visited[w] \cup {o}
  BY <1>1, CheckEffect, FrameStep DEF Step, Frame
<1>3. /\ rels' = rels /\ perms' = perms /\ lost' = lost
      /\ newRels'[w] = newRels[w] /\ newPerms'[w] = newPerms[w]
  BY <1>2 DEF SameRows, db
<1>4. queue[w] \in Seq(Objects)
  BY <1>1 DEF TypeOK
<1>5. Placed(w)'
  BY <1>1, <1>2, <1>3 DEF Placed, RelsSeen, Edge, Walking
<1>6. KidsKnown(w)'
  BY <1>2, <1>3 DEF KidsKnown, Busy, RelsSeen, IInv, Own
<1>7. \A x \in visited[w] : known(x)
  BY <1>2 DEF IInv, Own, VisitedKnown, Walking
<1>8. pc'[w] = "check" => known(o)
  BY <1>2, <1>7 DEF HeadRow
<1>9. VisitedKnown(w)'
  <2>1. \A x \in visited'[w] : pc'[w] = "check" => known(x)
    BY <1>2, <1>7, <1>8
  <2>2. \A x \in visited'[w] : pc'[w] = "insert" => known(x) \/ x = Head(queue'[w])
    BY <1>2, <1>7
  <2>3. pc'[w] \in {"next", "check", "insert"}
    BY <1>2
  <2> QED
    BY <1>2, <1>3, <2>1, <2>2, <2>3 DEF VisitedKnown, Walking, PermsSeen
<1>w. /\ queue[w] = <<>> => Waiting(w) = {}
      /\ queue[w] # <<>> => Waiting(w) = {o} \cup Elements(Tail(queue[w]))
  <2>1. CASE queue[w] = <<>>
    <3>1. DOMAIN queue[w] = {}
      BY <2>1
    <3> QED
      BY <2>1, <3>1 DEF Waiting, Elements
  <2>2. CASE queue[w] # <<>>
    BY <1>4, <2>2, TailElements DEF Waiting
  <2> QED
    BY <2>1, <2>2
<1>q. /\ Waiting(w)' \subseteq Waiting(w)
      /\ \A x \in Waiting(w) : \/ x \in Waiting(w)' /\ pc'[w] \in {"check", "insert"}
                             \/ known(x)
  <2>1. Waiting(w)' = Elements(queue'[w])
    BY DEF Waiting, Elements
  <2>2. CASE queue[w] = <<>>
    BY <1>2, <1>w, <2>1, <2>2 DEF SameWalk, Waiting
  <2>3. CASE queue[w] # <<>> /\ pc'[w] = "insert"
    BY <1>2, <2>1, <2>3 DEF Waiting
  <2>4. CASE queue[w] # <<>> /\ pc'[w] = "check"
    BY <1>2, <1>8, <1>w, <2>1, <2>4
  <2> QED
    BY <1>2, <2>2, <2>3, <2>4
<1> HIDE DEF o, known
<1>10. \A x, g : Coming(w, x, g) => \/ Walking(w)' /\ g = group'[w] /\ x \in Waiting(w)'
                                   \/ <<x, g>> \in PermsSeen(w) \cup lost
  BY <1>2, <1>q DEF Coming, Walking, known
<1>11. Owed(w)'
  <2> SUFFICES ASSUME NEW p \in Objects, NEW c \in Objects, NEW g \in Groups,
                      <<p, c>> \in RelsSeen(w), <<p, g>> \in newPerms[w]
               PROVE  \/ <<c, g>> \in PermsSeen(w) \cup lost
                      \/ Walking(w)' /\ g = group'[w] /\ c \in Waiting(w)'
    BY <1>2, <1>3 DEF Owed, RelsSeen, PermsSeen, Coming
  <2>1. <<c, g>> \in PermsSeen(w) \cup lost \/ Coming(w, c, g)
    BY <1>2 DEF IInv, Own, Owed
  <2> QED
    BY <1>10, <2>1
<1>12. DueKept(w)'
  <2> SUFFICES ASSUME NEW g \in Groups, Due(w, g)
               PROVE  \/ <<job[w].child, g>> \in PermsSeen(w) \cup lost
                      \/ Busy(w)' /\ g \in todo'[w]
                      \/ Walking(w)' /\ g = group'[w] /\ job[w].child \in Waiting(w)'
                      \/ answer[w] = "error"
    BY <1>2, <1>3 DEF DueKept, Due, PermsSeen, Edge, Coming
  <2>1. \/ <<job[w].child, g>> \in PermsSeen(w) \cup lost
        \/ g \in todo[w]
        \/ Coming(w, job[w].child, g)
        \/ answer[w] = "error"
    BY <1>2 DEF IInv, Own, DueKept
  <2> QED
    BY <1>2, <1>10, <2>1 DEF Busy
<1>13. OwnWithin(w)'
  <2> SUFFICES ASSUME NEW S \in SUBSET (Objects \X Groups), Asked(S), Closed(RelsSeen(w), S)
               PROVE  /\ newPerms[w] \subseteq S
                      /\ \A g \in todo[w] : <<job[w].child, g>> \in S
                      /\ \A x \in Waiting(w) : <<x, group[w]>> \in S
    BY <1>2, <1>3, <1>q DEF OwnWithin, Within, RelsSeen, Asked
  <2> QED
    BY <1>2 DEF IInv, AllWithin, Within, Busy, Walking
<1> QED
  BY <1>5, <1>6, <1>9, <1>11, <1>12, <1>13 DEF Own

LEMMA InsertKeeps ==
    ASSUME Separate, IInv, NEW w \in Workers, InsertPermission(w)
    PROVE  Own(w)' /\ OwnWithin(w)'
<1>1. TypeOK /\ Kept /\ Placed(w)
  BY DEF IInv, Own
<1>2. /\ pc[w] = "insert" /\ pc'[w] = "children" /\ db' = db /\ lost' = lost /\ job' = job
      /\ newRels'[w] = newRels[w] /\ SameWalk(w) /\ answer'[w] = answer[w] /\ todo'[w] = todo[w]
      /\ newPerms'[w] = newPerms[w] \cup {HeadRow(w)}
  BY <1>1, InsertEffect, FrameStep DEF Step, Frame
<1>3. /\ rels' = rels /\ perms' = perms /\ group'[w] = group[w] /\ queue'[w] = queue[w]
      /\ visited'[w] = visited[w] /\ kids'[w] = kids[w] /\ HeadRow(w)' = HeadRow(w)
  BY <1>2 DEF SameWalk, db, HeadRow
<1>4. Waiting(w)' = Waiting(w) /\ Head(queue[w]) \in Waiting(w)
  <2>1. queue[w] # <<>> /\ queue[w] \in Seq(Objects)
    BY <1>1, <1>2 DEF Placed, TypeOK
  <2> QED
    BY <1>3, <2>1, TailElements DEF Waiting, Elements
<1>5. Placed(w)'
  BY <1>1, <1>2, <1>3 DEF Placed, RelsSeen, Edge, Walking
<1>6. KidsKnown(w)'
  BY <1>2, <1>3 DEF KidsKnown, Busy, RelsSeen, IInv, Own
<1>7. VisitedKnown(w)'
  BY <1>2, <1>3 DEF VisitedKnown, Walking, PermsSeen, HeadRow, IInv, Own
<1>8. Owed(w)'
  <2> SUFFICES ASSUME NEW p \in Objects, NEW c \in Objects, NEW g \in Groups,
                      <<p, c>> \in RelsSeen(w), <<p, g>> \in newPerms[w] \cup {HeadRow(w)}
               PROVE  \/ <<c, g>> \in PermsSeen(w) \cup lost
                      \/ Coming(w, c, g)
                      \/ <<p, g>> = HeadRow(w)
    BY <1>2, <1>3, <1>4 DEF Owed, RelsSeen, PermsSeen, Coming, Walking
  <2> QED
    BY <1>2 DEF IInv, Own, Owed
<1>9. DueKept(w)'
  BY <1>2, <1>3, <1>4 DEF IInv, Own, DueKept, Due, PermsSeen, Edge, Coming, Walking, Busy
<1>10. OwnWithin(w)'
  <2> SUFFICES ASSUME NEW S \in SUBSET (Objects \X Groups), Asked(S), Closed(RelsSeen(w), S)
               PROVE  /\ newPerms[w] \cup {HeadRow(w)} \subseteq S
                      /\ \A g \in todo[w] : <<job[w].child, g>> \in S
                      /\ \A x \in Waiting(w) : <<x, group[w]>> \in S
    BY <1>2, <1>3, <1>4 DEF OwnWithin, Within, RelsSeen, Asked
  <2> QED
    BY <1>2, <1>4 DEF IInv, AllWithin, Within, Busy, Walking, HeadRow
<1> QED
  BY <1>5, <1>6, <1>7, <1>8, <1>9, <1>10 DEF Own

(* A conflict is met only where no relation is new. *)
LEMMA ConflictKeeps ==
    ASSUME Separate, IInv, NEW w \in Workers, PermissionConflict(w)
    PROVE  Own(w)' /\ OwnWithin(w)'
<1> DEFINE o == Head(queue[w])
<1>1. TypeOK /\ Kept /\ Placed(w)
  BY DEF IInv, Own
<1>2. /\ pc[w] = "insert" /\ pc'[w] = "check" /\ db' = db /\ lost' = lost \cup newPerms[w]
      /\ newRels'[w] = {} /\ newPerms'[w] = {} /\ kids'[w] = Unread /\ job' = job
      /\ answer'[w] = answer[w] /\ todo'[w] = todo[w] /\ group'[w] = group[w]
      /\ visited'[w] = visited[w] /\ queue'[w] = Tail(queue[w]) /\ HeadRow(w) \in perms
  BY <1>1, ConflictEffect, FrameStep DEF Step, Frame
<1>3. Sharing /\ newRels[w] = {} /\ rels' = rels /\ perms' = perms
  BY <1>1, <1>2 DEF IInv, OneAtATime, Alone, Kept, db
<1>4. DOMAIN Unread = {}
  BY DEF Unread
<1>5. Waiting(w) = {o} \cup Waiting(w)'
  <2>1. queue[w] # <<>> /\ queue[w] \in Seq(Objects)
    BY <1>1, <1>2 DEF Placed, TypeOK
  <2>2. Elements(queue[w]) = {o} \cup Elements(Tail(queue[w]))
    BY <2>1, TailElements
  <2>3. Waiting(w)' = Elements(queue'[w])
    BY DEF Waiting, Elements
  <2> QED
    BY <1>2, <2>2, <2>3 DEF Waiting
<1>6. Placed(w)'
  BY <1>1, <1>2, <1>3 DEF Placed, RelsSeen, Edge, Walking
<1>7. KidsKnown(w)' /\ Owed(w)'
  BY <1>2, <1>4 DEF KidsKnown, Owed
<1>8. VisitedKnown(w)'
  <2>1. \A x \in visited[w] : <<x, group[w]>> \in PermsSeen(w) \cup lost
    BY <1>2 DEF IInv, Own, VisitedKnown, Walking, PermsSeen, HeadRow
  <2> QED
    BY <1>2, <1>3, <2>1 DEF VisitedKnown, PermsSeen
<1>9. DueKept(w)'
  <2> SUFFICES ASSUME NEW g \in Groups, Due(w, g)
               PROVE  \/ <<job[w].child, g>> \in perms \cup lost \cup newPerms[w]
                      \/ g \in todo[w]
                      \/ g = group[w] /\ job[w].child \in Waiting(w)'
                      \/ answer[w] = "error"
    BY <1>2, <1>3 DEF DueKept, Due, PermsSeen, Edge, Coming, Busy, Walking
  <2>1. \/ <<job[w].child, g>> \in perms \cup lost \cup newPerms[w]
        \/ g \in todo[w]
        \/ g = group[w] /\ job[w].child \in Waiting(w)
        \/ answer[w] = "error"
    BY <1>2 DEF IInv, Own, DueKept, Coming, PermsSeen
  <2> QED
    BY <1>2, <1>5, <2>1 DEF HeadRow
<1>10. OwnWithin(w)'
  <2> SUFFICES ASSUME NEW S \in SUBSET (Objects \X Groups), Asked(S), Closed(RelsSeen(w), S)
               PROVE  /\ \A g \in todo[w] : <<job[w].child, g>> \in S
                      /\ \A x \in Waiting(w) : <<x, group[w]>> \in S
    BY <1>2, <1>3, <1>5 DEF OwnWithin, Within, RelsSeen, Asked
  <2> QED
    BY <1>2 DEF IInv, AllWithin, Within, Busy, Walking
<1> QED
  BY <1>6, <1>7, <1>8, <1>9, <1>10 DEF Own

LEMMA ChildrenKeeps ==
    ASSUME Separate, IInv, NEW w \in Workers, QueueChildren(w)
    PROVE  Own(w)' /\ OwnWithin(w)'
<1> DEFINE o == Head(queue[w])
           rest == Elements(Tail(queue[w]))
           below == {c \in Objects : <<o, c>> \in RelsSeen(w)}
<1>1. TypeOK /\ Kept /\ Placed(w) /\ KidsKnown(w)
  BY DEF IInv, Own
<1>2. /\ pc[w] = "children" /\ pc'[w] = "check" /\ SameRows(w) /\ answer'[w] = answer[w]
      /\ todo'[w] = todo[w] /\ group'[w] = group[w] /\ visited'[w] = visited[w] /\ job' = job
      /\ o \in Objects /\ Waiting(w) = {o} \cup rest /\ Waiting(w)' = rest \cup below
      /\ \A x \in DOMAIN kids'[w] : kids'[w][x] = {c \in Objects : <<x, c>> \in RelsSeen(w)}
  BY <1>1, ChildrenEffect, FrameStep DEF Step, Frame
<1>3. /\ rels' = rels /\ perms' = perms /\ lost' = lost
      /\ newRels'[w] = newRels[w] /\ newPerms'[w] = newPerms[w]
      /\ <<o, group[w]>> \in newPerms[w] /\ HeadRow(w) = <<o, group[w]>> /\ group[w] \in Groups
  BY <1>1, <1>2 DEF SameRows, db, Placed, HeadRow, Walking
<1>4. Placed(w)'
  BY <1>1, <1>2, <1>3 DEF Placed, RelsSeen, Edge, Walking
<1>5. KidsKnown(w)'
  BY <1>2, <1>3 DEF KidsKnown, RelsSeen
<1>6. VisitedKnown(w)'
  BY <1>2, <1>3 DEF IInv, Own, VisitedKnown, Walking, PermsSeen
<1> HIDE DEF o, rest
<1>7. Owed(w)'
  <2> SUFFICES ASSUME NEW p \in Objects, NEW c \in Objects, NEW g \in Groups,
                      <<p, c>> \in RelsSeen(w), <<p, g>> \in newPerms[w]
               PROVE  \/ <<c, g>> \in PermsSeen(w) \cup lost
                      \/ g = group[w] /\ c \in rest \cup below
    BY <1>2, <1>3 DEF Owed, RelsSeen, PermsSeen, Coming, Walking
  <2>1. \/ <<c, g>> \in PermsSeen(w) \cup lost
        \/ g = group[w] /\ c \in {o} \cup rest
        \/ p = o /\ g = group[w]
    BY <1>2, <1>3 DEF IInv, Own, Owed, Coming
  <2>2. CASE p = o /\ g = group[w]
    BY <2>2
  <2> QED
    BY <1>3, <2>1, <2>2 DEF PermsSeen
<1>8. DueKept(w)'
  <2> SUFFICES ASSUME NEW g \in Groups, Due(w, g)
               PROVE  \/ <<job[w].child, g>> \in PermsSeen(w) \cup lost
                      \/ g \in todo[w]
                      \/ g = group[w] /\ job[w].child \in rest \cup below
                      \/ answer[w] = "error"
    BY <1>2, <1>3 DEF DueKept, Due, PermsSeen, Edge, Coming, Busy, Walking
  <2>1. \/ <<job[w].child, g>> \in PermsSeen(w) \cup lost
        \/ g \in todo[w]
        \/ g = group[w] /\ job[w].child \in {o} \cup rest
        \/ answer[w] = "error"
    BY <1>2 DEF IInv, Own, DueKept, Coming
  <2> QED
    BY <1>3, <2>1 DEF PermsSeen
<1>9. OwnWithin(w)'
  <2> SUFFICES ASSUME NEW S \in SUBSET (Objects \X Groups), Asked(S), Closed(RelsSeen(w), S)
               PROVE  /\ newPerms[w] \subseteq S
                      /\ \A g \in todo[w] : <<job[w].child, g>> \in S
                      /\ \A x \in rest \cup below : <<x, group[w]>> \in S
    BY <1>2, <1>3 DEF OwnWithin, Within, RelsSeen, Asked
  <2>1. /\ newPerms[w] \subseteq S
        /\ \A g \in todo[w] : <<job[w].child, g>> \in S
        /\ \A x \in rest : <<x, group[w]>> \in S
    BY <1>2 DEF IInv, AllWithin, Within, Busy, Walking
  <2>2. ASSUME NEW x \in below PROVE <<x, group[w]>> \in S
    BY <1>2, <1>3, <2>1 DEF Closed
  <2> QED
    BY <2>1, <2>2
<1> QED
  BY <1>4, <1>5, <1>6, <1>7, <1>8, <1>9 DEF Own

LEMMA EndKeeps ==
    ASSUME Separate, IInv, NEW w \in Workers, Commit(w) \/ BreakDeadlock(w)
    PROVE  Own(w)' /\ OwnWithin(w)'
<1>1. TypeOK /\ Kept /\ Placed(w) /\ Frame(w)
  BY FrameStep DEF IInv, Own, Step
<1>2. /\ pc'[w] = "done" /\ newRels'[w] = {} /\ newPerms'[w] = {} /\ job' = job /\ lost' = lost
      /\ \/ /\ pc[w] = "commit" /\ answer'[w] = "ok"
            /\ rels' = RelsSeen(w) /\ perms' = PermsSeen(w)
         \/ answer'[w] = "error"
  BY <1>1, CommitEffect, BreakEffect DEF Frame
<1>3. Placed(w)'
  BY <1>1, <1>2 DEF Placed, RelsSeen, Edge, Walking
<1>4. KidsKnown(w)' /\ VisitedKnown(w)' /\ Owed(w)' /\ OwnWithin(w)'
  BY <1>2 DEF KidsKnown, VisitedKnown, Owed, OwnWithin, Within, Busy, Walking
<1>5. DueKept(w)'
  <2> SUFFICES ASSUME NEW g \in Groups, g \in job[w].groups, answer'[w] # "error"
               PROVE  <<job[w].child, g>> \in perms' \cup lost
    BY <1>2 DEF DueKept, Due, PermsSeen
  <2>1. pc[w] = "commit" /\ perms' = PermsSeen(w)
    BY <1>2
  <2>2. answer[w] # "error"
    BY <1>1, <2>1 DEF Placed
  <2> QED
    BY <2>1, <2>2 DEF IInv, Own, DueKept, Due, Busy, Coming, Walking
<1> QED
  BY <1>3, <1>4, <1>5 DEF Own

-----------------------------------------------------------------------------
(* The whole state. *)
LEMMA KeptStep ==
    ASSUME Separate, IInv, NEW w \in Workers, Step(w)
    PROVE  Kept'
<1>1. /\ job' = job /\ rels \subseteq rels' /\ rels' \in {rels, RelsSeen(w)}
      /\ \A v \in Workers \ {w} : newRels'[v] = newRels[v]
  BY FrameStep, DatabaseStep DEF IInv, Frame
<1>2. TypeOK /\ Kept /\ Placed(w)
  BY DEF IInv, Own
<1>3. Sharing' <=> Sharing
  BY <1>1 DEF Sharing
<1>4. ASSUME Sharing PROVE newRels'[w] = {}
  <2>1. newRels[w] = {}
    BY <1>2, <1>4 DEF Kept
  <2>2. CASE LinkParent(w)
    <3>1. job[w].kind = "link" /\ Edge(w) \notin InitRels
      BY <1>2, <2>2 DEF Placed, LinkParent, At
    <3> QED
      BY <1>2, <1>4, <3>1, Modes
  <2>3. CASE ~LinkParent(w)
    BY <1>2, <2>1, <2>3 DEF Step, TypeOK, Start, ReadParent, NextGroup, CheckPermission,
         InsertPermission, PermissionConflict, QueueChildren, Commit, BreakDeadlock
  <2> QED
    BY <2>2, <2>3
<1> QED
  BY <1>1, <1>2, <1>3, <1>4 DEF Kept, RelsSeen

(* Only the new relation wakes a request, and only its end quiets it. *)
LEMMA Awake ==
    ASSUME Separate, IInv, ~Sharing, NEW w \in Workers, Step(w), ~Quiet(w)'
    PROVE  \/ ~Quiet(w) /\ newRels'[w] = newRels[w]
           \/ /\ newRels'[w] = {Edge(w)} /\ Edge(w) \notin InitRels
              /\ \A v \in Workers \ {w} : Edge(w) \notin newRels[v]
<1>1. TypeOK /\ Kept /\ Placed(w) /\ KidsKnown(w) /\ Alone(w)
  BY DEF IInv, Own, OneAtATime
<1>2. job[w].kind = "link"
  BY <1>1, Modes
<1>3. CASE Start(w)
  BY <1>1, <1>2, <1>3, StartEffect DEF Quiet, Busy, Placed, SameRows
<1>4. CASE LinkParent(w)
  BY <1>1, <1>4, LinkEffect DEF Quiet, Busy, Placed, Kept
<1>5. CASE ReadParent(w) \/ NextGroup(w) \/ CheckPermission(w) \/ QueueChildren(w)
  BY <1>1, <1>5, ReadEffect, NextEffect, CheckEffect, ChildrenEffect DEF Quiet, Busy, SameRows
<1>6. CASE InsertPermission(w)
  BY <1>1, <1>6, InsertEffect DEF Quiet, Busy
<1>7. CASE PermissionConflict(w)
  BY <1>1, <1>7, ConflictEffect DEF Alone
<1>8. CASE Commit(w) \/ BreakDeadlock(w)
  BY <1>1, <1>8, CommitEffect, BreakEffect DEF Quiet, Busy
<1> QED
  BY <1>3, <1>4, <1>5, <1>6, <1>7, <1>8 DEF Step

LEMMA OneAtATimeStep ==
    ASSUME Separate, IInv, NEW w \in Workers, Step(w)
    PROVE  OneAtATime'
<1>1. TypeOK /\ Kept /\ Placed(w)
  BY DEF IInv, Own
<1>2. /\ job' = job
      /\ \A v \in Workers \ {w} :
           /\ Quiet(v)' <=> Quiet(v)
           /\ pc'[v] = pc[v] /\ HeadRow(v)' = HeadRow(v) /\ newRels'[v] = newRels[v]
  BY <1>1, FrameStep DEF Frame, Quiet, Busy, HeadRow
<1>3. Sharing' <=> Sharing
  BY <1>2 DEF Sharing
<1> SUFFICES ASSUME ~Sharing, NEW u \in Workers PROVE Alone(u)'
  BY <1>3 DEF OneAtATime
<1>4. \A v \in Workers : Alone(v)
  BY DEF IInv, OneAtATime
<1>5. /\ \A v \in Workers : job[v].kind = "link"
      /\ \A v \in Workers : Edge(v) \in InitRels \/ Edge(w) \in InitRels \/ Edge(v) = Edge(w)
  BY <1>1, Modes
<1>6. Edge(u)' = Edge(u)
  BY <1>2 DEF Edge
<1>7. ~Quiet(u)' => newRels'[u] = {Edge(u)} /\ Edge(u) \notin InitRels
  <2>1. CASE u = w
    BY <1>4, <2>1, Awake DEF Alone
  <2>2. CASE u # w
    BY <1>2, <1>4, <2>2 DEF Alone
  <2> QED
    BY <2>1, <2>2
<1>8. pc'[u] = "insert" => HeadRow(u)' \notin perms'
  <2>1. CASE u = w
    <3>1. ASSUME pc'[w] = "insert" PROVE CheckPermission(w)
      BY <1>1, <3>1, StartEffect, LinkEffect, ReadEffect, NextEffect, InsertEffect, ConflictEffect,
         ChildrenEffect, CommitEffect, BreakEffect DEF Step, IInv, Own
    <3>2. CheckPermission(w) /\ pc'[w] = "insert" => HeadRow(w)' = HeadRow(w) /\ HeadRow(w) \notin PermsSeen(w) /\ perms' = perms
      BY <1>1, CheckEffect DEF HeadRow, SameRows, db
    <3> QED
      BY <2>1, <3>1, <3>2 DEF PermsSeen
  <2>2. CASE u # w
    <3> SUFFICES ASSUME pc[u] = "insert" PROVE HeadRow(u) \notin perms'
      BY <1>2, <2>2
    <3>1. ~Quiet(u)
      BY DEF Quiet, Busy
    <3>2. newRels[u] # {} /\ HeadRow(u) \notin perms
      BY <1>4, <3>1 DEF Alone
    <3> QED
      BY <2>2, <3>2, Steady
  <2> QED
    BY <2>1, <2>2
<1>9. \A v \in Workers \ {w} : Quiet(v) \/ Quiet(w)'
  <2> SUFFICES ASSUME NEW v \in Workers \ {w}, ~Quiet(v), ~Quiet(w)' PROVE FALSE
    OBVIOUS
  <2>1. Quiet(w) /\ newRels[v] = {Edge(v)} /\ Edge(v) \notin InitRels
    BY <1>4 DEF Alone
  <2>2. Edge(w) \notin InitRels /\ Edge(w) \notin newRels[v]
    BY <2>1, Awake
  <2> QED
    BY <1>5, <2>1, <2>2
<1>10. \A v \in Workers : v # u => Quiet(v)' \/ Quiet(u)'
  <2> SUFFICES ASSUME NEW v \in Workers, v # u PROVE Quiet(v)' \/ Quiet(u)'
    OBVIOUS
  <2>1. CASE u = w
    BY <1>2, <1>9, <2>1
  <2>2. CASE v = w
    BY <1>2, <1>9, <2>2
  <2>3. CASE u # w /\ v # w
    BY <1>2, <1>4, <2>3 DEF Alone
  <2> QED
    BY <2>1, <2>2, <2>3
<1> QED
  BY <1>6, <1>7, <1>8, <1>10 DEF Alone

LEMMA ClosedStep ==
    ASSUME Separate, IInv, NEW w \in Workers, Step(w)
    PROVE  CommittedClosed'
<1>1. TypeOK /\ Kept /\ Placed(w) /\ Owed(w) /\ DueKept(w)
  BY DEF IInv, Own
<1>2. CASE ~Commit(w)
  BY <1>1, <1>2, DatabaseStep DEF IInv, CommittedClosed, db
<1>3. CASE Commit(w)
  <2>1. pc[w] = "commit" /\ rels' = RelsSeen(w) /\ perms' = PermsSeen(w) /\ lost' = lost
    BY <1>1, <1>3, CommitEffect
  <2>2. newRels[w] \subseteq {Edge(w)}
    BY DEF IInv, Kept, OneAtATime, Alone, Quiet
  <2>3. answer[w] # "error"
    BY <1>1, <2>1 DEF Placed
  <2> SUFFICES ASSUME NEW p \in Objects, NEW c \in Objects, NEW g \in Groups,
                      <<p, c>> \in RelsSeen(w), <<p, g>> \in PermsSeen(w)
               PROVE  <<c, g>> \in PermsSeen(w) \cup lost
    BY <2>1 DEF CommittedClosed
  <2>4. CASE <<p, g>> \in newPerms[w]
    BY <1>1, <2>1, <2>4 DEF Owed, Coming, Walking
  <2>5. CASE <<p, g>> \in perms /\ <<p, c>> \in rels
    BY <2>5 DEF IInv, CommittedClosed, PermsSeen
  <2>6. CASE <<p, g>> \in perms /\ <<p, c>> \in newRels[w]
    <3>1. <<p, c>> = Edge(w) /\ p = job[w].parent /\ c = job[w].child
      BY <2>2, <2>6 DEF Edge
    <3>2. Due(w, g)
      BY <2>6, <3>1 DEF Due
    <3> QED
      BY <1>1, <2>1, <2>3, <3>1, <3>2 DEF DueKept, Coming, Walking, Busy
  <2> QED
    BY <2>4, <2>5, <2>6 DEF PermsSeen, RelsSeen
<1> QED
  BY <1>2, <1>3

LEMMA OwnKeeps ==
    ASSUME Separate, IInv, NEW w \in Workers, Step(w)
    PROVE  Own(w)' /\ OwnWithin(w)'
  BY StartKeeps, LinkKeeps, ReadKeeps, NextKeeps, CheckKeeps, InsertKeeps, ConflictKeeps,
     ChildrenKeeps, EndKeeps DEF Step

LEMMA WithinStep ==
    ASSUME Separate, IInv, NEW w \in Workers, Step(w)
    PROVE  AllWithin'
<1>1. job' = job /\ OwnWithin(w)'
  BY FrameStep, OwnKeeps DEF IInv, Frame
<1> SUFFICES ASSUME NEW S \in SUBSET (Objects \X Groups), Asked(S)
             PROVE  /\ Closed(rels', S) => perms' \subseteq S
                    /\ \A v \in Workers : Within(v, S)'
  BY <1>1 DEF AllWithin, Asked
<1>2. (Closed(rels, S) => perms \subseteq S) /\ \A v \in Workers : Within(v, S)
  BY DEF IInv, AllWithin
<1>3. Closed(rels', S) => perms' \subseteq S
  <2>1. CASE ~Commit(w)
    BY <1>2, <2>1, DatabaseStep DEF IInv, db
  <2>2. CASE Commit(w)
    <3>1. rels' = RelsSeen(w) /\ perms' = PermsSeen(w)
      BY <2>2, CommitEffect DEF IInv
    <3>2. Closed(RelsSeen(w), S) => Closed(rels, S)
      BY DEF Closed, RelsSeen
    <3>3. Closed(RelsSeen(w), S) => newPerms[w] \subseteq S
      BY <1>2 DEF Within
    <3> QED
      BY <1>2, <3>1, <3>2, <3>3 DEF PermsSeen
  <2> QED
    BY <2>1, <2>2
<1>4. ASSUME NEW v \in Workers PROVE Within(v, S)'
  <2>1. CASE v = w
    BY <1>1, <2>1 DEF OwnWithin, Asked
  <2>2. CASE v # w
    BY <1>2, <2>2, OthersWithin
  <2> QED
    BY <2>1, <2>2
<1> QED
  BY <1>3, <1>4

LEMMA Initially ==
    ASSUME Separate, Init
    PROVE  IInv
<1>1. TypeOK
  BY TypeInitially
<1>2. /\ rels = InitRels /\ perms = InitPerms /\ job \in Jobs /\ lost = {}
      /\ \A w \in Workers :
           /\ pc[w] = "start" /\ newRels[w] = {} /\ newPerms[w] = {} /\ todo[w] = {}
           /\ kids[w] = Unread /\ answer[w] = "none"
  BY DEF Init
<1>3. Kept /\ OneAtATime
  BY <1>2 DEF Kept, OneAtATime, Alone, Quiet, Busy
<1>4. CommittedClosed
  BY <1>2, RequestsAssumption DEF CommittedClosed, Closed
<1>5. AllWithin
  BY <1>2 DEF AllWithin, Asked, Within, Busy, Walking
<1>6. ASSUME NEW w \in Workers PROVE Own(w)
  <2>1. Placed(w) /\ KidsKnown(w)
    BY <1>2 DEF Placed, KidsKnown, Walking, Busy
  <2>2. VisitedKnown(w) /\ Owed(w) /\ DueKept(w)
    BY <1>2 DEF VisitedKnown, Owed, DueKept, Walking
  <2> QED
    BY <2>1, <2>2 DEF Own
<1> QED
  BY <1>1, <1>3, <1>4, <1>5, <1>6 DEF IInv

LEMMA InductiveStep ==
    ASSUME Separate, IInv, [Next]_vars
    PROVE  IInv'
<1>1. CASE UNCHANGED vars
  <2>1. TypeOK'
    BY <1>1 DEF vars, IInv, TypeOK
  <2>2. Kept' /\ OneAtATime' /\ CommittedClosed'
    BY <1>1 DEF vars, IInv, Kept, OneAtATime, Alone, CommittedClosed, Sharing, Quiet, Busy, HeadRow, Edge
  <2>3. AllWithin'
    BY <1>1 DEF vars, IInv, AllWithin, Asked, Within, Busy, Walking, Waiting, Elements, RelsSeen
  <2>4. ASSUME NEW w \in Workers PROVE Own(w)'
    <3>1. Placed(w) /\ KidsKnown(w) /\ VisitedKnown(w) /\ Owed(w) /\ DueKept(w)
      BY DEF IInv, Own
    <3>2. Placed(w)' /\ KidsKnown(w)' /\ VisitedKnown(w)'
      BY <1>1, <3>1 DEF vars, Placed, KidsKnown, VisitedKnown, Walking, Busy, HeadRow, Edge, RelsSeen, PermsSeen
    <3>3. Owed(w)' /\ DueKept(w)'
      BY <1>1, <3>1 DEF vars, Owed, DueKept, Due, Coming, Walking, Busy, Waiting, Elements, HeadRow, Edge,
         RelsSeen, PermsSeen
    <3> QED
      BY <3>2, <3>3 DEF Own
  <2> QED
    BY <2>1, <2>2, <2>3, <2>4 DEF IInv
<1>2. ASSUME NEW w \in Workers, Step(w) PROVE IInv'
  <2>1. TypeOK'
    BY <1>2, TypeStep DEF IInv, Own
  <2>2. Kept' /\ OneAtATime' /\ CommittedClosed' /\ AllWithin'
    BY <1>2, KeptStep, OneAtATimeStep, ClosedStep, WithinStep
  <2>3. ASSUME NEW v \in Workers PROVE Own(v)'
    BY <1>2, OwnKeeps, OthersKeep
  <2> QED
    BY <2>1, <2>2, <2>3 DEF IInv
<1> QED
  BY <1>1, <1>2 DEF Next

LEMMA InvariantSuffices ==
    ASSUME IInv
    PROVE  SharedExactly
<1>1. ClosedAtRest
  BY DEF IInv, CommittedClosed, ClosedAtRest
<1>2. NothingExtra
  BY DEF IInv, AllWithin, Asked, NothingExtra
<1>3. ASSUME NEW w \in Workers, answer[w] = "ok"
      PROVE  IF job[w].kind = "link" THEN Edge(w) \in rels
             ELSE \A g \in job[w].groups : <<job[w].child, g>> \in perms \cup lost
  <2>1. pc[w] = "done" /\ newRels[w] = {} /\ newPerms[w] = {} /\ answer[w] # "error"
    BY <1>3 DEF IInv, Own, Placed
  <2>2. job[w].kind = "link" => Edge(w) \in rels
    BY <2>1 DEF IInv, Own, Placed, RelsSeen
  <2>3. ASSUME NEW g \in job[w].groups PROVE <<job[w].child, g>> \in perms \cup lost
    <3>1. g \in Groups
      BY RequestTypes DEF IInv
    <3> QED
      BY <2>1, <3>1 DEF IInv, Own, DueKept, Due, PermsSeen, Busy, Coming, Walking
  <2> QED
    BY <2>2, <2>3
<1>4. SuccessKept
  BY <1>3 DEF SuccessKept, Edge
<1> QED
  BY <1>1, <1>2, <1>4 DEF SharedExactly, IInv

(* However the statements of requests that do not cross interleave, wait   *)
(* for each other, fail and roll back: the permissions are no wider than   *)
(* what was asked for and follows from it; at rest they are closed under   *)
(* the relations, and a success has had its effect, but for the rows that  *)
(* the rollback after a conflict took.                                     *)
THEOREM ConcurrentSharesExact ==
    ASSUME Separate
    PROVE  Spec => []SharedExactly
<1>1. Init => IInv
  BY Initially
<1>2. IInv /\ [Next]_vars => IInv'
  BY InductiveStep
<1>3. IInv => SharedExactly
  BY InvariantSuffices
<1> QED
  BY <1>1, <1>2, <1>3, PTL DEF Spec
=============================================================================
