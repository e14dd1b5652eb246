----------------------------- MODULE UploadsProofs -----------------------------
(***************************************************************************)
(* Theorems about Uploads: the types, with the references between the      *)
(* tables; that every file has its content in storage but for those that   *)
(* assign_analysis committed early and nobody has been told of; that a row *)
(* counts as new once only, however many uploads race for it; and why an   *)
(* object may have no analysis.                                            *)
(***************************************************************************)
EXTENDS Uploads, TLAPS

----------------------------------------------------------------------------
(* The inductive invariant.  What is true of one request: it works on      *)
(* objects, only uploads are new, it has exactly one row of its own object *)
(* once it has stopped looking for it, and an analysis to assign.          *)
Placed(r) ==
    /\ req[r].pc # "idle" =>
        req[r].op \in Ops /\ req[r].obj \in Objects /\ req[r].at \in Objects
    /\ req[r].new \/ req[r].pc = "insert" => req[r].op = "upload"
    /\ req[r].pc \in {"assign", "link", "record"} \/ req[r].op = "assign" => req[r].kid \in Nat
    /\ req[r].pc \in {"lookup", "insert"} =>
        /\ ~req[r].new
        /\ req[r].at # req[r].obj => req[r].used = {}
        /\ \A u \in req[r].used : u[1] # req[r].at
    /\ req[r].pc \notin {"idle", "lookup", "insert"} =>
        \E u \in req[r].used : u[1] = req[r].obj
    /\ \A u, v \in req[r].used : u[1] = v[1] => u = v

(* The rows it has inserted are uploads, gone from its hands once it has   *)
(* committed, and have the next life; the others have one that was.        *)
Owned(r) ==
    /\ req[r].held \subseteq req[r].used
    /\ req[r].op # "upload" => req[r].held = {}
    /\ req[r].pc \in {"created", "send", "record", "delete", "unassign", "drop", "answer"} =>
        req[r].held = {}
    /\ \A h \in req[r].held : h[2] = lives[h[1]] + 1
    /\ \A h \in req[r].held : h[1] = req[r].obj => req[r].new
    /\ \A u \in req[r].used \ req[r].held : u[2] <= lives[u[1]]

(* A row it has created has the type of the upload, and if that is a file  *)
(* its content is in storage once the request is past writing it.          *)
Truthful(r) ==
    /\ req[r].new => \A u \in req[r].used \ req[r].held :
        u[1] = req[r].obj /\ row[u[1]].life = u[2] => row[u[1]].kind = req[r].kind
    /\ req[r].new /\ req[r].kind = "file"
            /\ req[r].pc \notin {"assign", "link", "store"} =>
        req[r].obj \in stored

Local(r) == Placed(r) /\ Owned(r) /\ Truthful(r)

(* Two requests never hold rows of one object.                             *)
Alone ==
    \A q, r \in Requests : q # r =>
        \A h \in req[q].held, g \in req[r].held : h[1] # g[1]

(* No life is ever used twice.                                             *)
Below ==
    /\ \A o \in Objects : row[o].life <= lives[o]
    /\ \A o \in Objects, l \in Nat : <<"announced", o, l>> \in log => l <= lives[o]

Inductive ==
    /\ TypeOK
    /\ \A r \in Requests : Local(r)
    /\ Alone
    /\ Below
    /\ ContentBehindRow

----------------------------------------------------------------------------
(* A request has one row of its object, so Life is the life of that row.   *)
LEMMA LifeIs ==
    ASSUME NEW r \in Requests, Placed(r), NEW u \in req[r].used, u[1] = req[r].obj
    PROVE  Life(r) = u[2]
<1> DEFINE c == CHOOSE v \in req[r].used : v[1] = req[r].obj
<1>1. c \in req[r].used /\ c[1] = req[r].obj
  OBVIOUS
<1>2. c = u
  BY <1>1 DEF Placed
<1>. QED
  BY <1>2 DEF Life

LEMMA LifeUsed ==
    ASSUME TypeOK, NEW r \in Requests, Placed(r),
           req[r].pc \notin {"idle", "lookup", "insert"}
    PROVE  /\ <<req[r].obj, Life(r)>> \in req[r].used
           /\ Life(r) \in Nat \ {0}
           /\ req[r].obj \in Objects
<1>1. PICK u \in req[r].used : u[1] = req[r].obj
  BY DEF Placed
<1>2. Life(r) = u[2]
  BY <1>1, LifeIs
<1>3. u \in Objects \X (Nat \ {0})
  BY DEF TypeOK, Request, Rows
<1>. QED
  BY <1>1, <1>2, <1>3

(* What a step of r may do to the rows of an object: nothing, delete it,   *)
(* or commit one that r holds.                                             *)
RowStep(r) ==
    \A o \in Objects :
        \/ row'[o] = row[o] /\ lives'[o] = lives[o]
        \/ row'[o] = NoRow /\ lives'[o] = lives[o]
        \/ /\ \E h \in req[r].held : h[1] = o
           /\ row'[o].life = lives[o] + 1 /\ lives'[o] = lives[o] + 1

(* Such a step leaves what is true of the other requests true.             *)
LEMMA Others ==
    ASSUME Inductive, TypeOK', NEW r \in Requests, NEW s \in Requests, s # r,
           req'[s] = req[s], stored \subseteq stored', RowStep(r)
    PROVE  Local(s)'
<1>1. Local(s)
  BY DEF Inductive
<1>2. Placed(s)'
  BY <1>1 DEF Local, Placed
<1>3. req[s].used \subseteq Objects \X (Nat \ {0}) /\ req[s].held \subseteq req[s].used
  BY <1>1 DEF Inductive, TypeOK, Request, Rows, Local, Owned
<1>4. ASSUME NEW h \in req[s].held PROVE h[2] = lives'[h[1]] + 1
  <2>1. h[1] \in Objects /\ h[2] = lives[h[1]] + 1
    BY <1>1, <1>3 DEF Local, Owned
  <2>2. ~ \E g \in req[r].held : g[1] = h[1]
    BY DEF Inductive, Alone
  <2>3. lives'[h[1]] = lives[h[1]]
    BY <2>1, <2>2 DEF RowStep
  <2>. QED BY <2>1, <2>3
<1>5. ASSUME NEW u \in req[s].used \ req[s].held
      PROVE  /\ u[2] <= lives'[u[1]]
             /\ row'[u[1]] = row[u[1]] \/ row'[u[1]].life # u[2]
  <2>1. u[1] \in Objects /\ u[2] \in Nat \ {0} /\ u[2] <= lives[u[1]] /\ lives[u[1]] \in Nat
    BY <1>1, <1>3 DEF Inductive, TypeOK, Local, Owned
  <2>. QED BY <2>1 DEF RowStep, NoRow
<1>6. Owned(s)'
  BY <1>1, <1>4, <1>5 DEF Local, Owned
<1>7. Truthful(s)'
  BY <1>1, <1>5 DEF Local, Truthful
<1>. QED
  BY <1>2, <1>6, <1>7 DEF Local

(* The invariant after a step of r, from what the step does to r and to    *)
(* the tables.                                                             *)
LEMMA Preserved ==
    ASSUME Inductive, TypeOK', NEW r \in Requests, NEW q \in Request,
           req' = [req EXCEPT ![r] = q],
           \A s \in Requests \ {r} : \A h \in req[s].held, g \in q.held : h[1] # g[1],
           stored \subseteq stored', RowStep(r), log \subseteq log', Local(r)',
           \A o \in Objects, l \in Nat : <<"announced", o, l>> \in log' =>
               \/ <<"announced", o, l>> \in log
               \/ l <= lives[o] /\ (row[o].life = l /\ row[o].kind = "file" => o \in stored),
           \A o \in Objects : row'[o] # row[o] /\ row'[o].kind = "file" =>
               o \in stored' \/ <<"early", o, row'[o].life>> \in log'
    PROVE  Inductive'
<1>0. TypeOK
  BY DEF Inductive
<1>1. \A s \in Requests \ {r} : req'[s] = req[s]
  BY <1>0 DEF TypeOK
<1>2. \A s \in Requests : Local(s)'
  BY <1>1, Others
<1>3. Alone'
  <2>1. req'[r] = q
    BY <1>0 DEF TypeOK
  <2>. QED BY <1>1, <2>1 DEF Inductive, Alone
<1>4. \A o \in Objects : /\ row[o].life \in Nat /\ lives[o] \in Nat /\ row[o].life <= lives[o]
                         /\ row'[o].life \in Nat /\ lives'[o] \in Nat
                         /\ row'[o].life <= lives'[o] /\ lives[o] <= lives'[o]
  BY <1>0 DEF Inductive, TypeOK, Below, RowStep, NoRow
<1>5. Below'
  <2>1. ASSUME NEW o \in Objects, NEW l \in Nat, <<"announced", o, l>> \in log'
        PROVE  l <= lives'[o]
    <3>1. l <= lives[o]
      BY <2>1 DEF Inductive, Below
    <3>. QED BY <3>1, <1>4
  <2>. QED BY <1>4, <2>1 DEF Below
<1>6. ContentBehindRow'
  <2>1. SUFFICES ASSUME NEW o \in Objects, row'[o].kind = "file"
                 PROVE  o \in stored' \/ (/\ <<"early", o, row'[o].life>> \in log'
                                          /\ <<"announced", o, row'[o].life>> \notin log')
    BY DEF ContentBehindRow, Seen
  <2>2. CASE row'[o] = row[o]
    <3>1. o \in stored \/ (/\ <<"early", o, row[o].life>> \in log
                           /\ <<"announced", o, row[o].life>> \notin log)
      BY <2>1, <2>2 DEF Inductive, ContentBehindRow, Seen
    <3>. QED BY <2>1, <2>2, <3>1, <1>4
  <2>3. CASE row'[o] # row[o]
    <3>1. row'[o].life = lives[o] + 1
      BY <2>1, <2>3 DEF RowStep, NoRow
    <3>2. <<"announced", o, row'[o].life>> \notin log'
      <4>1. SUFFICES ASSUME <<"announced", o, row'[o].life>> \in log' PROVE FALSE
        OBVIOUS
      <4>2. row'[o].life <= lives[o]
        BY <4>1, <1>4 DEF Inductive, Below
      <4>. QED BY <4>2, <3>1, <1>4
    <3>. QED BY <2>1, <2>3, <3>2
  <2>. QED BY <2>2, <2>3
<1>. QED
  BY <1>2, <1>3, <1>5, <1>6 DEF Inductive
----------------------------------------------------------------------------
(* Steps that change no table.                                             *)
LEMMA Still ==
    ASSUME Inductive, NEW r \in Requests, NEW q \in Request, req' = [req EXCEPT ![r] = q],
           UNCHANGED db, sent' \in Nat, begun' \in Nat, faults' \in Nat,
           \A s \in Requests \ {r} : \A h \in req[s].held, g \in q.held : h[1] # g[1],
           log \subseteq log', log' \subseteq Events \X Objects \X Nat, Local(r)',
           \A o \in Objects, l \in Nat : <<"announced", o, l>> \in log' =>
               \/ <<"announced", o, l>> \in log
               \/ l <= lives[o] /\ (row[o].life = l /\ row[o].kind = "file" => o \in stored)
    PROVE  Inductive'
<1>1. TypeOK'
  BY DEF Inductive, TypeOK, db
<1>2. RowStep(r)
  BY DEF RowStep, db
<1>3. stored \subseteq stored' /\ \A o \in Objects : row'[o] = row[o]
  BY DEF db
<1>. QED
  BY <1>1, <1>2, <1>3, Preserved

(* The same for steps that do not touch the log either.                    *)
LEMMA Silent ==
    ASSUME Inductive, NEW r \in Requests, NEW q \in Request, req' = [req EXCEPT ![r] = q],
           UNCHANGED <<db, log>>, sent' \in Nat, begun' \in Nat, faults' \in Nat,
           \A s \in Requests \ {r} : \A h \in req[s].held, g \in q.held : h[1] # g[1],
           Local(r)'
    PROVE  Inductive'
<1>1. log' \subseteq Events \X Objects \X Nat /\ log' = log /\ UNCHANGED db
  BY DEF Inductive, TypeOK
<1>. QED
  BY <1>1, Still

(* The request keeps the rows it has inserted, or fewer.                   *)
LEMMA HeldApart ==
    ASSUME Inductive, NEW r \in Requests, NEW H \in SUBSET req[r].held
    PROVE  \A s \in Requests \ {r} : \A h \in req[s].held, g \in H : h[1] # g[1]
  BY DEF Inductive, Alone

LEMMA IdleLocal ==
    ASSUME TypeOK, NEW r \in Requests, req' = [req EXCEPT ![r] = Idle]
    PROVE  Local(r)' /\ Idle \in Request
<1>1. req'[r] = Idle
  BY DEF TypeOK
<1>2. Idle \in Request
  BY DEF Idle, Request, Ops, Steps, Types
<1>3. Placed(r)' /\ Owned(r)' /\ Truthful(r)'
  BY <1>1 DEF Idle, Placed, Owned, Truthful
<1>. QED
  BY <1>2, <1>3 DEF Local

LEMMA Finished ==
    ASSUME Inductive, NEW r \in Requests, Finish(r), UNCHANGED <<db, log>>,
           sent' \in Nat, begun' \in Nat, faults' \in Nat
    PROVE  Inductive'
<1>1. TypeOK /\ req' = [req EXCEPT ![r] = Idle] /\ Idle.held = {}
  BY DEF Inductive, Finish, Idle
<1>. QED
  BY <1>1, IdleLocal, Silent

(* An event of a row a request works with is well typed.                   *)
LEMMA EventTyped ==
    ASSUME Inductive, NEW r \in Requests, NEW e \in Events,
           req[r].pc \notin {"idle", "lookup", "insert"}
    PROVE  Event(e, r) \in Events \X Objects \X Nat
<1>1. TypeOK /\ Placed(r)
  BY DEF Inductive, Local
<1>. QED
  BY <1>1, LifeUsed DEF Event

LEMMA Failed ==
    ASSUME Inductive, NEW r \in Requests, req[r].pc # "idle", Fail(r), UNCHANGED db,
           sent' \in Nat, begun' \in Nat, faults' \in Nat
    PROVE  Inductive'
<1>1. TypeOK /\ Placed(r) /\ req' = [req EXCEPT ![r] = Idle] /\ Idle.held = {}
  BY DEF Inductive, Local, Fail, Finish, Idle
<1>2. req[r].new => Event("aborted", r) \in Events \X Objects \X Nat
  BY <1>1, EventTyped DEF Placed, Events
<1>3. log \subseteq log' /\ log' \subseteq log \cup (IF req[r].new THEN {Event("aborted", r)} ELSE {})
  BY DEF Fail
<1>4. log' \subseteq Events \X Objects \X Nat
  BY <1>1, <1>2, <1>3 DEF TypeOK
<1>5. \A o \in Objects, l \in Nat : <<"announced", o, l>> \in log' => <<"announced", o, l>> \in log
  BY <1>3 DEF Event
<1>. QED
  BY <1>1, <1>3, <1>4, <1>5, IdleLocal, Still
----------------------------------------------------------------------------
(* One lemma per action.                                                   *)
LEMMA BeginStep ==
    ASSUME Inductive, NEW r \in Requests, Begin(r)
    PROVE  Inductive'
<1>1. PICK op \in Ops, o \in Objects, k \in 0 .. sent \cup {NoId} :
        /\ op \in {"assign", "unassign"} => k # NoId
        /\ \E kind \in IF op = "upload" THEN Kinds[o] ELSE {"none"} :
            req' = [req EXCEPT ![r] = [Idle EXCEPT
                        !.pc = "lookup", !.op = op, !.obj = o, !.kind = kind, !.kid = k,
                        !.at = IF kind = "config" /\ Embeds[o] # NoObject THEN Embeds[o] ELSE o]]
  BY DEF Begin
<1>2. PICK kind \in IF op = "upload" THEN Kinds[o] ELSE {"none"} :
            req' = [req EXCEPT ![r] = [Idle EXCEPT
                        !.pc = "lookup", !.op = op, !.obj = o, !.kind = kind, !.kid = k,
                        !.at = IF kind = "config" /\ Embeds[o] # NoObject THEN Embeds[o] ELSE o]]
  BY <1>1
<1> DEFINE q == [Idle EXCEPT
                    !.pc = "lookup", !.op = op, !.obj = o, !.kind = kind, !.kid = k,
                    !.at = IF kind = "config" /\ Embeds[o] # NoObject THEN Embeds[o] ELSE o]
<1>3. TypeOK /\ begun' \in Nat /\ UNCHANGED <<db, sent, faults, log>>
  BY DEF Inductive, Begin, TypeOK
<1>4. kind \in Types \cup {"none"} /\ k \in Ids \cup {NoId}
  BY <1>3, UploadsAssumption DEF TypeOK, Ids
<1>5. q.at \in Objects
  BY UploadsAssumption DEF Idle
<1>6. q \in Request
  BY <1>4, <1>5 DEF Idle, Request, Ops, Steps, Types
<1>7. req'[r] = q /\ req' = [req EXCEPT ![r] = q]
  BY <1>2, <1>3 DEF TypeOK
<1>8. /\ q.pc = "lookup" /\ q.op = op /\ q.obj = o /\ q.kid = k
      /\ q.used = {} /\ q.held = {} /\ q.new = FALSE
  BY DEF Idle
<1>9. op = "assign" => k \in Nat
  BY <1>1, <1>4 DEF Ids
<1>10. Placed(r)'
  BY <1>5, <1>7, <1>8, <1>9 DEF Placed
<1>11. Owned(r)' /\ Truthful(r)'
  BY <1>7, <1>8 DEF Owned, Truthful
<1> HIDE DEF q
<1>12. sent' \in Nat /\ faults' \in Nat
  BY <1>3 DEF TypeOK
<1>. QED
  BY <1>3, <1>6, <1>7, <1>8, <1>10, <1>11, <1>12, Silent DEF Local

(* The request takes a row it has found, or inserts one that is free.      *)
LEMMA TakeStep ==
    ASSUME Inductive, NEW r \in Requests, NEW l \in Nat \ {0}, NEW new \in BOOLEAN,
           req[r].pc \in {"lookup", "insert"}, req[r].op = "upload", Take(r, l, new),
           UNCHANGED <<db, sent, begun, faults, log>>,
           ~new => l <= lives[req[r].at],
           new => /\ l = lives[req[r].at] + 1
                  /\ \A s \in Requests \ {r} : \A h \in req[s].held : h[1] # req[r].at
    PROVE  Inductive'
<1> DEFINE p == req[r]
           row1 == <<p.at, l>>
           q0 == [p EXCEPT !.used = @ \cup {row1}, !.held = IF new THEN @ \cup {row1} ELSE @]
           q == IF p.at # p.obj THEN [q0 EXCEPT !.pc = "lookup", !.at = p.obj]
                                ELSE [q0 EXCEPT !.pc = AfterRow(r, new), !.new = new]
<1>1. TypeOK /\ Local(r) /\ p \in Request
  BY DEF Inductive, TypeOK
<1>2. p.obj \in Objects /\ p.at \in Objects
  BY <1>1 DEF Local, Placed
<1>3. AfterRow(r, new) \in {"assign", "store", "commit"}
  BY DEF AfterRow
<1>4. q \in Request
  <2>1. row1 \in Rows
    BY <1>2 DEF Rows
  <2>2. q0 \in Request
    BY <1>1, <2>1 DEF Request
  <2> HIDE DEF q0
  <2>. QED BY <1>2, <1>3, <2>2 DEF Request, Steps
<1>5. req' = [req EXCEPT ![r] = q]
  BY DEF Take
<1>6. req'[r] = q
  BY <1>1, <1>5 DEF TypeOK
<1>7. /\ q.op = p.op /\ q.obj = p.obj /\ q.kid = p.kid /\ q.kind = p.kind
      /\ q.used = p.used \cup {row1}
      /\ q.held = IF new THEN p.held \cup {row1} ELSE p.held
      /\ p.at # p.obj => q.pc = "lookup" /\ q.at = p.obj /\ q.new = p.new
      /\ p.at = p.obj => q.pc = AfterRow(r, new) /\ q.at = p.at /\ q.new = new
  BY <1>1 DEF Request
<1> HIDE DEF q
<1>8. row1[1] = p.at /\ row1[2] = l
  OBVIOUS
<1>9. /\ ~p.new /\ (p.at # p.obj => p.used = {}) /\ \A u \in p.used : u[1] # p.at
      /\ p.held \subseteq p.used
      /\ \A u, v \in p.used : u[1] = v[1] => u = v
  BY <1>1 DEF Local, Placed, Owned
<1>10. Placed(r)'
  <2>1. CASE p.at # p.obj
    BY <1>2, <1>6, <1>7, <1>8, <1>9, <2>1 DEF Placed, Ops
  <2>2. CASE p.at = p.obj
    <3>1. q.pc = "assign" => q.kid \in Nat
      BY <1>1, <1>7, <2>2 DEF AfterRow, Request, Ids
    <3>2. q.pc \in {"assign", "store", "commit"} /\ q.op = "upload"
      BY <1>3, <1>7, <2>2
    <3>3. row1 \in q.used /\ row1[1] = q.obj
      BY <1>7, <1>8, <2>2
    <3>4. \A u, v \in q.used : u[1] = v[1] => u = v
      BY <1>7, <1>8, <1>9
    <3> HIDE DEF row1
    <3>. QED
      BY <1>2, <1>6, <1>7, <2>2, <3>1, <3>2, <3>3, <3>4 DEF Placed, Ops
  <2>. QED BY <2>1, <2>2
<1>11. Owned(r)'
  <2>1. UNCHANGED lives /\ lives \in [Objects -> Nat]
    BY <1>1 DEF db, TypeOK
  <2>2. \A h \in q.held : h[2] = lives[h[1]] + 1
    BY <1>1, <1>7, <1>8 DEF Local, Owned
  <2>3. \A h \in q.held : h[1] = p.obj => q.new
    BY <1>1, <1>7, <1>8, <1>9 DEF Local, Owned
  <2>4. \A u \in q.used \ q.held : u[2] <= lives[u[1]]
    BY <1>1, <1>7, <1>8 DEF Local, Owned
  <2>5. q.pc \notin {"created", "send", "record", "delete", "unassign", "drop", "answer"}
    BY <1>3, <1>7
  <2>6. q.held \subseteq q.used /\ q.op = "upload"
    BY <1>7, <1>9
  <2>. QED BY <1>6, <1>7, <2>1, <2>2, <2>3, <2>4, <2>5, <2>6 DEF Owned
<1>12. Truthful(r)'
  <2>1. SUFFICES ASSUME q.new PROVE Truthful(r)'
    BY <1>6 DEF Truthful
  <2>2. p.at = p.obj /\ new
    BY <1>7, <1>9, <2>1
  <2>3. \A u \in q.used \ q.held : u[1] # q.obj
    BY <1>7, <1>9, <2>2
  <2>4. q.kind = "file" => q.pc \in {"assign", "store"}
    BY <1>7, <2>2 DEF AfterRow
  <2>. QED BY <1>6, <2>3, <2>4 DEF Truthful
<1>13. \A s \in Requests \ {r} : \A h \in req[s].held, g \in q.held : h[1] # g[1]
  BY <1>7, <1>8 DEF Inductive, Alone
<1>14. sent' \in Nat /\ begun' \in Nat /\ faults' \in Nat /\ UNCHANGED <<db, log>>
  BY <1>1 DEF TypeOK
<1>. QED
  BY <1>4, <1>5, <1>10, <1>11, <1>12, <1>13, <1>14, Silent DEF Local

LEMMA ReuseStep ==
    ASSUME Inductive, NEW r \in Requests, req[r].pc \in {"lookup", "insert"},
           req[r].op = "upload", Reuse(r), UNCHANGED <<db, sent, begun, faults, log>>
    PROVE  Inductive'
<1>1. TypeOK /\ Placed(r) /\ Below
  BY DEF Inductive, Local
<1>2. req[r].at \in Objects
  BY <1>1 DEF Placed
<1>3. row[req[r].at].life \in Nat \ {0} /\ row[req[r].at].life <= lives[req[r].at]
  BY <1>1, <1>2 DEF Reuse, TypeOK, Below
<1>4. Take(r, row[req[r].at].life, FALSE) \/ Finish(r)
  BY DEF Reuse
<1>5. CASE Take(r, row[req[r].at].life, FALSE)
  BY <1>3, <1>5, TakeStep
<1>6. CASE Finish(r)
  BY <1>1, <1>6, Finished DEF TypeOK
<1>. QED
  BY <1>4, <1>5, <1>6

LEMMA LookupForUploadStep ==
    ASSUME Inductive, NEW r \in Requests, LookupForUpload(r)
    PROVE  Inductive'
<1>1. TypeOK /\ Local(r) /\ req[r] \in Request
  BY DEF Inductive, TypeOK
<1>2. CASE Reuse(r)
  BY <1>2, ReuseStep DEF LookupForUpload
<1>3. CASE Goto(r, "insert")
  <2> DEFINE q == [req[r] EXCEPT !.pc = "insert"]
  <2>1. req' = [req EXCEPT ![r] = q] /\ q \in Request /\ req'[r] = q
    BY <1>1, <1>3 DEF Goto, TypeOK, Request, Steps
  <2>2. q.held = req[r].held
    OBVIOUS
  <2>3. Local(r)'
    BY <1>1, <2>1 DEF LookupForUpload, Local, Placed, Owned, Truthful, Request, db
  <2>4. \A s \in Requests \ {r} : \A h \in req[s].held, g \in q.held : h[1] # g[1]
    BY <2>2, HeldApart
  <2> HIDE DEF q
  <2>. QED
    BY <1>1, <2>1, <2>3, <2>4, Silent DEF LookupForUpload, TypeOK
<1>. QED
  BY <1>2, <1>3 DEF LookupForUpload

LEMMA InsertStep ==
    ASSUME Inductive, NEW r \in Requests, Insert(r)
    PROVE  Inductive'
<1>1. TypeOK /\ Placed(r)
  BY DEF Inductive, Local
<1>2. req[r].pc = "insert" /\ req[r].op = "upload" /\ req[r].at \in Objects
  BY <1>1 DEF Insert, Placed
<1>3. CASE Reuse(r)
  BY <1>2, <1>3, ReuseStep DEF Insert
<1>4. CASE Take(r, lives[req[r].at] + 1, TRUE)
  <2>1. lives[req[r].at] + 1 \in Nat \ {0}
    BY <1>1, <1>2 DEF TypeOK
  <2>2. \A s \in Requests \ {r} : \A h \in req[s].held : h[1] # req[r].at
    BY DEF Insert
  <2>. QED
    BY <1>2, <1>4, <2>1, <2>2, TakeStep DEF Insert
<1>. QED
  BY <1>3, <1>4 DEF Insert

LEMMA LookupForRestStep ==
    ASSUME Inductive, NEW r \in Requests, LookupForRest(r)
    PROVE  Inductive'
<1> DEFINE o == req[r].obj
           step == CASE req[r].op = "reanalyze" -> "send" [] OTHER -> req[r].op
           q == [req[r] EXCEPT !.pc = step, !.used = {<<o, row[o].life>>}, !.kind = row[o].kind]
<1>1. /\ TypeOK /\ Local(r) /\ Below /\ req[r] \in Request /\ UNCHANGED <<db, log>>
      /\ sent' \in Nat /\ begun' \in Nat /\ faults' \in Nat
  BY DEF Inductive, TypeOK, LookupForRest
<1>2. CASE row[o].life = 0
  BY <1>1, <1>2, Finished DEF LookupForRest
<1>3. CASE row[o].life # 0
  <2>1. o \in Objects /\ ~req[r].new /\ req[r].held = {}
    BY <1>1 DEF LookupForRest, Local, Placed, Owned
  <2>2. row[o].life \in Nat \ {0} /\ row[o].kind \in Types \cup {"none"} /\ row[o].life <= lives[o]
    BY <1>1, <1>3, <2>1 DEF TypeOK, Below
  <2>3. req[r].op \in {"delete", "reanalyze", "assign", "unassign"}
    BY <1>1 DEF LookupForRest, Ops, Local, Placed
  <2>4. /\ step \in {"send", "delete", "assign", "unassign"}
        /\ step = "assign" => req[r].op = "assign"
    <3>1. CASE req[r].op = "reanalyze"
      BY <3>1
    <3>2. CASE req[r].op # "reanalyze"
      BY <2>3, <3>2
    <3>. QED BY <3>1, <3>2
  <2>5. q \in Request
    <3>1. <<o, row[o].life>> \in Rows
      BY <2>1, <2>2 DEF Rows
    <3>2. step \in Steps
      BY <2>4 DEF Steps
    <3> HIDE DEF step
    <3>. QED BY <1>1, <2>2, <3>1, <3>2 DEF Request
  <2>6. req' = [req EXCEPT ![r] = q] /\ req'[r] = q
    BY <1>1, <1>3 DEF LookupForRest, TypeOK
  <2>7. /\ q.pc = step /\ q.used = {<<o, row[o].life>>} /\ q.held = {} /\ ~q.new
        /\ q.obj = o /\ q.at = req[r].at /\ q.op = req[r].op /\ q.kid = req[r].kid
    BY <1>1, <2>1 DEF Request
  <2> HIDE DEF q, step
  <2>8. req[r].op = "assign" => req[r].kid \in Nat
    BY <1>1 DEF Local, Placed
  <2>9. Placed(r)'
    <3>1. <<o, row[o].life>>[1] = o
      OBVIOUS
    <3>2. \E u \in q.used : u[1] = q.obj
      BY <2>7, <3>1
    <3>3. \A u, v \in q.used : u[1] = v[1] => u = v
      BY <2>7
    <3>4. q.at \in Objects /\ q.obj \in Objects /\ q.op \in Ops
      BY <1>1, <2>7 DEF LookupForRest, Local, Placed
    <3>. QED
      BY <2>4, <2>6, <2>7, <2>8, <3>2, <3>3, <3>4 DEF Placed
  <2>10. Owned(r)' /\ Truthful(r)'
    BY <1>1, <2>2, <2>6, <2>7 DEF Owned, Truthful, db
  <2>11. \A s \in Requests \ {r} : \A h \in req[s].held, g \in q.held : h[1] # g[1]
    BY <2>7
  <2>. QED
    BY <1>1, <2>5, <2>6, <2>9, <2>10, <2>11, Silent DEF Local
<1>. QED
  BY <1>2, <1>3

(* A request reads something of its analysis and goes on.                  *)
LEMMA Noted ==
    ASSUME Inductive, NEW r \in Requests, NEW pc, NEW b \in BOOLEAN,
           req' = [req EXCEPT ![r].pc = pc, ![r].flag = b],
           \/ req[r].pc = "assign" /\ pc = "link"
           \/ req[r].pc = "unassign" /\ pc = "drop",
           UNCHANGED <<db, log>>, sent' \in Nat, begun' \in Nat, faults' \in Nat
    PROVE  Inductive'
<1> DEFINE q == [req[r] EXCEPT !.pc = pc, !.flag = b]
<1>1. TypeOK /\ Local(r) /\ req[r] \in Request
  BY DEF Inductive, TypeOK
<1>2. pc \in Steps
  BY DEF Steps
<1>3. req' = [req EXCEPT ![r] = q] /\ q \in Request /\ req'[r] = q
  BY <1>1, <1>2 DEF TypeOK, Request
<1>4. q.held = req[r].held
  BY <1>1 DEF Request
<1>5. Local(r)'
  <2>1. /\ q.pc = pc /\ pc \in {"link", "drop"}
        /\ q.op = req[r].op /\ q.obj = req[r].obj /\ q.at = req[r].at /\ q.kid = req[r].kid
        /\ q.kind = req[r].kind /\ q.used = req[r].used /\ q.new = req[r].new
    BY <1>1 DEF Request
  <2> HIDE DEF q
  <2>2. Placed(r)'
    BY <1>1, <1>3, <2>1 DEF Local, Placed
  <2>3. Owned(r)'
    BY <1>1, <1>3, <1>4, <2>1 DEF Local, Owned, db
  <2>4. Truthful(r)'
    <3>1. row' = row /\ stored' = stored
      BY DEF db
    <3>2. q.new /\ q.kind = "file" /\ q.pc # "link" => q.obj \in stored
      BY <1>1, <2>1 DEF Local, Truthful
    <3>3. q.new => \A u \in q.used \ q.held :
              u[1] = q.obj /\ row[u[1]].life = u[2] => row[u[1]].kind = q.kind
      BY <1>1, <1>4, <2>1 DEF Local, Truthful
    <3>. QED BY <1>3, <3>1, <3>2, <3>3 DEF Truthful
  <2>. QED BY <2>2, <2>3, <2>4 DEF Local
<1>6. \A s \in Requests \ {r} : \A h \in req[s].held, g \in q.held : h[1] # g[1]
  BY <1>4, HeldApart
<1> HIDE DEF q
<1>. QED
  BY <1>1, <1>3, <1>5, <1>6, Silent

LEMMA ReadAnalysisStep ==
    ASSUME Inductive, NEW r \in Requests, ReadAnalysis(r)
    PROVE  Inductive'
<1>1. UNCHANGED <<db, log>> /\ sent' \in Nat /\ begun' \in Nat /\ faults' \in Nat
  BY DEF Inductive, TypeOK, ReadAnalysis
<1> DEFINE b == req[r].kid \in analyses
<1>2. b \in BOOLEAN
  OBVIOUS
<1>3. req[r].pc = "assign"
  BY DEF ReadAnalysis
<1>4. req' = [req EXCEPT ![r].pc = "link", ![r].flag = b]
  BY DEF ReadAnalysis
<1> HIDE DEF b
<1>. QED
  BY <1>1, <1>2, <1>3, <1>4, Noted, Zenon

(* A request goes on to another step and leaves the tables alone.          *)
LEMMA GoesOn ==
    ASSUME Inductive, NEW r \in Requests, NEW pc \in Steps, Goto(r, pc),
           req[r].pc \notin {"idle", "lookup", "insert", "assign", "link", "store", "commit"},
           pc \in {"send", "drop", "answer"},
           UNCHANGED <<db, log>>, sent' \in Nat, begun' \in Nat, faults' \in Nat
    PROVE  Inductive'
<1> DEFINE q == [req[r] EXCEPT !.pc = pc]
<1>1. TypeOK /\ Local(r) /\ req[r] \in Request
  BY DEF Inductive, TypeOK
<1>2. req' = [req EXCEPT ![r] = q] /\ q \in Request /\ req'[r] = q
  BY <1>1 DEF Goto, TypeOK, Request
<1>3. q.held = {}
  BY <1>1 DEF Local, Owned, Request, Steps
<1>4. Local(r)'
  BY <1>1, <1>2, <1>3 DEF Local, Placed, Owned, Truthful, Request, db
<1>5. \A s \in Requests \ {r} : \A h \in req[s].held, g \in q.held : h[1] # g[1]
  BY <1>3
<1> HIDE DEF q
<1>. QED
  BY <1>2, <1>4, <1>5, Silent

LEMMA CreatedStep ==
    ASSUME Inductive, NEW r \in Requests, Created(r)
    PROVE  Inductive'
<1>1. /\ TypeOK /\ UNCHANGED db /\ sent' \in Nat /\ begun' \in Nat /\ faults' \in Nat
      /\ req[r].pc = "created"
  BY DEF Inductive, TypeOK, Created
<1>2. CASE Fail(r)
  BY <1>1, <1>2, Failed
<1>3. CASE UNCHANGED log /\ Goto(r, IF Analysed(req[r].obj) THEN "answer" ELSE "send")
  <2>1. PICK pc \in {"answer", "send"} : Goto(r, pc)
    BY <1>3
  <2>. QED
    BY <1>1, <1>3, <2>1, GoesOn DEF Steps
<1>. QED
  BY <1>2, <1>3 DEF Created

LEMMA UnassignStep ==
    ASSUME Inductive, NEW r \in Requests, Unassign(r)
    PROVE  Inductive'
<1> DEFINE b == \A a \in assoc : a[1] = req[r].kid => a[2] = req[r].obj
<1>1. UNCHANGED <<db, log>> /\ sent' \in Nat /\ begun' \in Nat /\ faults' \in Nat
  BY DEF Inductive, TypeOK, Unassign
<1>2. CASE Finish(r)
  BY <1>1, <1>2, Finished
<1>3. CASE req' = [req EXCEPT ![r].pc = "drop", ![r].flag = b]
  <2>1. b \in BOOLEAN
    OBVIOUS
  <2>2. req[r].pc = "unassign"
    BY DEF Unassign
  <2> HIDE DEF b
  <2>. QED
    BY <1>1, <1>3, <2>1, <2>2, Noted, Zenon
<1>. QED
  BY <1>2, <1>3 DEF Unassign

LEMMA SendStep ==
    ASSUME Inductive, NEW r \in Requests, Send(r)
    PROVE  Inductive'
<1>1. /\ TypeOK /\ Local(r) /\ req[r] \in Request /\ req[r].pc = "send" /\ UNCHANGED db
      /\ sent' \in Nat /\ sent + 1 \in Nat /\ begun' \in Nat /\ faults' \in Nat
  BY DEF Inductive, TypeOK, Send
<1>2. CASE Fail(r)
  BY <1>1, <1>2, Failed
<1>3. CASE /\ req' = [req EXCEPT ![r].pc = "record", ![r].kid = sent + 1]
           /\ log' = log \cup (IF req[r].new THEN {Event("submitted", r)} ELSE {})
  <2> DEFINE q == [req[r] EXCEPT !.pc = "record", !.kid = sent + 1]
  <2>1. req' = [req EXCEPT ![r] = q] /\ q \in Request /\ req'[r] = q
    BY <1>1, <1>3 DEF TypeOK, Request, Steps, Ids
  <2>2. /\ q.pc = "record" /\ q.kid = sent + 1 /\ q.held = req[r].held
        /\ q.op = req[r].op /\ q.obj = req[r].obj /\ q.at = req[r].at
        /\ q.kind = req[r].kind /\ q.used = req[r].used /\ q.new = req[r].new
    BY <1>1 DEF Request
  <2> HIDE DEF q
  <2>3. q.held = {}
    BY <1>1, <2>2 DEF Local, Owned
  <2>4. Placed(r)'
    BY <1>1, <2>1, <2>2 DEF Local, Placed
  <2>5. Owned(r)'
    BY <1>1, <2>1, <2>2, <2>3 DEF Local, Owned, db
  <2>6. Truthful(r)'
    BY <1>1, <2>1, <2>2 DEF Local, Truthful, db
  <2>7. Event("submitted", r) \in Events \X Objects \X Nat
    BY <1>1, EventTyped DEF Events
  <2>8. log \subseteq log' /\ log' \subseteq Events \X Objects \X Nat
    BY <1>1, <1>3, <2>7 DEF TypeOK
  <2>9. \A o \in Objects, l \in Nat : <<"announced", o, l>> \in log' => <<"announced", o, l>> \in log
    BY <1>3 DEF Event
  <2>. QED
    BY <1>1, <2>1, <2>3, <2>4, <2>5, <2>6, <2>8, <2>9, Still DEF Local
<1>. QED
  BY <1>2, <1>3 DEF Send

(* Whoever announces a row has put the content there, if it is a file.     *)
LEMMA AnswerStep ==
    ASSUME Inductive, NEW r \in Requests, Answer(r)
    PROVE  Inductive'
<1>1. /\ TypeOK /\ Local(r) /\ req[r] \in Request /\ req[r].pc = "answer" /\ UNCHANGED db
      /\ sent' \in Nat /\ begun' \in Nat /\ faults' \in Nat
  BY DEF Inductive, TypeOK, Answer
<1>2. CASE Fail(r)
  BY <1>1, <1>2, Failed
<1>3. CASE /\ ~(req[r].op = "upload" /\ Gone(r)) /\ Finish(r)
           /\ log' = log \cup (IF req[r].new THEN {Event("announced", r)} ELSE {})
  <2>1. Event("announced", r) \in Events \X Objects \X Nat
    BY <1>1, EventTyped DEF Events
  <2>2. log \subseteq log' /\ log' \subseteq Events \X Objects \X Nat
    BY <1>1, <1>3, <2>1 DEF TypeOK
  <2>3. ASSUME NEW o \in Objects, NEW l \in Nat, <<"announced", o, l>> \in log'
        PROVE  \/ <<"announced", o, l>> \in log
               \/ l <= lives[o] /\ (row[o].life = l /\ row[o].kind = "file" => o \in stored)
    <3>1. SUFFICES ASSUME req[r].new, o = req[r].obj, l = Life(r)
                   PROVE  l <= lives[o] /\ (row[o].life = l /\ row[o].kind = "file" => o \in stored)
      BY <1>3, <2>3 DEF Event
    <3>2. <<o, l>> \in req[r].used /\ req[r].held = {}
      BY <1>1, <3>1, LifeUsed DEF Local, Owned
    <3>3. <<o, l>>[1] = o /\ <<o, l>>[2] = l
      OBVIOUS
    <3>4. l <= lives[o] /\ (row[o].life = l => row[o].kind = req[r].kind)
      BY <1>1, <3>1, <3>2, <3>3 DEF Local, Owned, Truthful
    <3>5. req[r].kind = "file" => o \in stored
      BY <1>1, <3>1 DEF Local, Truthful
    <3>. QED BY <3>4, <3>5
  <2>4. req' = [req EXCEPT ![r] = Idle] /\ Idle.held = {}
    BY <1>3 DEF Finish, Idle
  <2>. QED
    BY <1>1, <2>2, <2>3, <2>4, IdleLocal, Still
<1>. QED
  BY <1>2, <1>3 DEF Answer

LEMMA BreakStep ==
    ASSUME Inductive, NEW r \in Requests, Break(r)
    PROVE  Inductive'
<1>1. UNCHANGED db /\ sent' \in Nat /\ begun' \in Nat /\ faults' \in Nat
  BY DEF Inductive, TypeOK, Break
<1>. QED
  BY <1>1, Failed DEF Break

----------------------------------------------------------------------------
(* Steps that write content or analyses, or delete a row.                  *)
LEMMA StoreStep ==
    ASSUME Inductive, NEW r \in Requests, Store(r)
    PROVE  Inductive'
<1> DEFINE q == [req[r] EXCEPT !.pc = "commit"]
<1>1. /\ TypeOK /\ Local(r) /\ req[r] \in Request /\ req[r].pc = "store" /\ req[r].obj \in Objects
      /\ UNCHANGED <<row, lives, analyses, assoc, sent, begun, faults, log>>
      /\ stored' = stored \cup {req[r].obj}
  BY DEF Inductive, TypeOK, Store, Local, Placed
<1>2. req' = [req EXCEPT ![r] = q] /\ q \in Request /\ req'[r] = q
  BY <1>1 DEF Store, Goto, TypeOK, Request, Steps
<1>3. /\ q.pc = "commit" /\ q.kid = req[r].kid /\ q.held = req[r].held
      /\ q.op = req[r].op /\ q.obj = req[r].obj /\ q.at = req[r].at
      /\ q.kind = req[r].kind /\ q.used = req[r].used /\ q.new = req[r].new
  BY <1>1 DEF Request
<1> HIDE DEF q
<1>4. TypeOK'
  BY <1>1, <1>2 DEF TypeOK
<1>5. RowStep(r)
  BY <1>1 DEF RowStep
<1>6. Placed(r)'
  BY <1>1, <1>2, <1>3 DEF Local, Placed
<1>7. Owned(r)'
  BY <1>1, <1>2, <1>3 DEF Local, Owned
<1>8. Truthful(r)'
  BY <1>1, <1>2, <1>3 DEF Local, Truthful
<1>9. \A s \in Requests \ {r} : \A h \in req[s].held, g \in q.held : h[1] # g[1]
  BY <1>3, HeldApart
<1>. QED
  BY <1>1, <1>2, <1>4, <1>5, <1>6, <1>7, <1>8, <1>9, Preserved DEF Local

LEMMA Written ==
    ASSUME Inductive, NEW r \in Requests, req[r].pc \in {"delete", "drop", "record"},
           Goto(r, "answer"), UNCHANGED <<lives, stored, sent, begun, faults>>,
           row' \in [Objects -> [life : Nat, kind : Types \cup {"none"}]],
           \A o \in Objects : row'[o] = row[o] \/ row'[o] = NoRow,
           analyses' \subseteq Ids,
           assoc' \subseteq analyses' \X {o \in Objects : row'[o].life # 0},
           log \subseteq log', log' \subseteq Events \X Objects \X Nat,
           \A o \in Objects, l \in Nat : <<"announced", o, l>> \in log' => <<"announced", o, l>> \in log
    PROVE  Inductive'
<1> DEFINE q == [req[r] EXCEPT !.pc = "answer"]
<1>1. TypeOK /\ Local(r) /\ req[r] \in Request
  BY DEF Inductive, TypeOK
<1>2. req' = [req EXCEPT ![r] = q] /\ q \in Request /\ req'[r] = q
  BY <1>1 DEF Goto, TypeOK, Request, Steps
<1>3. /\ q.pc = "answer" /\ q.kid = req[r].kid /\ q.held = req[r].held
      /\ q.op = req[r].op /\ q.obj = req[r].obj /\ q.at = req[r].at
      /\ q.kind = req[r].kind /\ q.used = req[r].used /\ q.new = req[r].new
  BY <1>1 DEF Request
<1> HIDE DEF q
<1>4. q.held = {} /\ req[r].used \subseteq Rows
  BY <1>1, <1>3 DEF Local, Owned, Request
<1>5. TypeOK'
  BY <1>1, <1>2 DEF TypeOK
<1>6. RowStep(r)
  BY DEF RowStep
<1>7. Placed(r)'
  BY <1>1, <1>2, <1>3 DEF Local, Placed
<1>8. Owned(r)'
  BY <1>1, <1>2, <1>3, <1>4 DEF Local, Owned
<1>9. Truthful(r)'
  <2>1. q.new /\ q.kind = "file" => q.obj \in stored'
    BY <1>1, <1>3 DEF Local, Truthful
  <2>2. ASSUME NEW u \in q.used, q.new, u[1] = q.obj, row'[u[1]].life = u[2]
        PROVE  row'[u[1]].kind = q.kind
    <3>1. u[1] \in Objects /\ u[2] # 0
      BY <1>3, <1>4 DEF Rows
    <3>2. row'[u[1]] = row[u[1]]
      BY <2>2, <3>1 DEF NoRow
    <3>. QED BY <1>1, <1>3, <1>4, <2>2, <3>2 DEF Local, Truthful
  <2>. QED BY <1>2, <2>1, <2>2 DEF Truthful
<1>10. \A s \in Requests \ {r} : \A h \in req[s].held, g \in q.held : h[1] # g[1]
  BY <1>4
<1>11. stored \subseteq stored'
  OBVIOUS
<1>12. \A o \in Objects : row'[o] # row[o] => row'[o].kind # "file"
  BY DEF NoRow
<1>. QED
  BY <1>2, <1>5, <1>6, <1>7, <1>8, <1>9, <1>10, <1>11, <1>12, Preserved DEF Local

LEMMA RecordStep ==
    ASSUME Inductive, NEW r \in Requests, Record(r)
    PROVE  Inductive'
<1>1. /\ TypeOK /\ Placed(r) /\ req[r].pc = "record" /\ UNCHANGED <<row, lives, stored>>
      /\ sent' \in Nat /\ begun' \in Nat /\ faults' \in Nat
  BY DEF Inductive, Local, TypeOK, Record
<1>2. CASE Fail(r) /\ UNCHANGED <<analyses, assoc>>
  BY <1>1, <1>2, Failed DEF db
<1>3. CASE /\ ~Gone(r)
           /\ analyses' = analyses \cup {req[r].kid}
           /\ assoc' = assoc \cup {<<req[r].kid, req[r].obj>>}
           /\ Goto(r, "answer") /\ UNCHANGED log
  <2>1. req[r].kid \in Nat /\ req[r].obj \in Objects /\ Life(r) # 0
    BY <1>1, LifeUsed DEF Placed
  <2>2. Published(r)
    BY <1>1 DEF Inductive, Local, Owned, Published
  <2>3. row[req[r].obj].life # 0
    BY <1>3, <2>1, <2>2 DEF Gone
  <2>4. analyses' \subseteq Ids /\ assoc' \subseteq analyses' \X {o \in Objects : row'[o].life # 0}
    <3>1. <<req[r].kid, req[r].obj>> \in analyses' \X {o \in Objects : row'[o].life # 0}
      BY <1>1, <1>3, <2>1, <2>3
    <3>2. assoc \subseteq analyses \X {o \in Objects : row[o].life # 0} /\ analyses \subseteq Ids
      BY <1>1 DEF TypeOK
    <3>. QED BY <1>1, <1>3, <2>1, <3>1, <3>2 DEF Ids
  <2>5. UNCHANGED <<lives, stored, sent, begun, faults>>
    BY DEF Record
  <2>. QED
    BY <1>1, <1>3, <2>4, <2>5, Written DEF TypeOK
<1>. QED
  BY <1>2, <1>3 DEF Record

LEMMA DeleteRowStep ==
    ASSUME Inductive, NEW r \in Requests, DeleteRow(r)
    PROVE  Inductive'
<1>1. /\ TypeOK /\ Placed(r) /\ req[r].pc = "delete"
      /\ UNCHANGED <<lives, stored, analyses, sent, begun, faults, log>>
      /\ sent' \in Nat /\ begun' \in Nat /\ faults' \in Nat
  BY DEF Inductive, Local, TypeOK, DeleteRow
<1>2. CASE Finish(r) /\ UNCHANGED <<row, assoc>>
  BY <1>1, <1>2, Finished DEF db
<1>3. CASE Goto(r, "answer") /\ UNCHANGED <<row, assoc>>
  <2>1. UNCHANGED <<db, log>>
    BY <1>1, <1>3 DEF db
  <2>. QED
    BY <1>1, <1>3, <2>1, GoesOn DEF Steps
<1>4. CASE /\ row' = [row EXCEPT ![req[r].obj] = NoRow]
           /\ assoc' = {a \in assoc : a[2] # req[r].obj}
           /\ Goto(r, "answer")
  <2>1. row' \in [Objects -> [life : Nat, kind : Types \cup {"none"}]]
    BY <1>1, <1>4 DEF TypeOK, NoRow
  <2>2. \A o \in Objects : row'[o] = IF o = req[r].obj THEN NoRow ELSE row[o]
    BY <1>1, <1>4 DEF TypeOK
  <2>3. analyses' \subseteq Ids /\ assoc' \subseteq analyses' \X {o \in Objects : row'[o].life # 0}
    <3>1. ASSUME NEW a \in assoc' PROVE a \in analyses' \X {o \in Objects : row'[o].life # 0}
      <4>1. a \in assoc /\ a[2] # req[r].obj
        BY <1>4
      <4>2. a \in analyses \X {o \in Objects : row[o].life # 0}
        BY <1>1, <4>1 DEF TypeOK
      <4>3. row'[a[2]] = row[a[2]]
        BY <2>2, <4>1, <4>2
      <4>. QED BY <1>1, <4>2, <4>3
    <3>. QED BY <1>1, <3>1 DEF TypeOK
  <2>. QED
    BY <1>1, <1>4, <2>1, <2>2, <2>3, Written DEF TypeOK
<1>. QED
  BY <1>2, <1>3, <1>4 DEF DeleteRow

LEMMA DropAnalysisStep ==
    ASSUME Inductive, NEW r \in Requests, DropAnalysis(r)
    PROVE  Inductive'
<1> DEFINE k == req[r].kid
           lost == {a \in assoc : a[1] = k /\ (req[r].flag \/ a[2] = req[r].obj)}
           event(a) == <<IF a[2] = req[r].obj THEN "unlinked" ELSE "swept", a[2], row[a[2]].life>>
<1>1. /\ TypeOK /\ req[r].pc = "drop" /\ assoc' = assoc \ lost /\ Goto(r, "answer")
      /\ analyses' = IF req[r].flag THEN analyses \ {k} ELSE analyses
      /\ log' = log \cup {event(a) : a \in lost}
      /\ UNCHANGED <<row, lives, stored, sent, begun, faults>>
  BY DEF Inductive, DropAnalysis
<1>2. assoc \subseteq analyses \X {o \in Objects : row[o].life # 0}
  BY <1>1 DEF TypeOK
<1>3. assoc' \subseteq analyses' \X {o \in Objects : row'[o].life # 0}
  <2>1. ASSUME NEW a \in assoc' PROVE a \in analyses' \X {o \in Objects : row'[o].life # 0}
    <3>1. a \in assoc /\ (req[r].flag => a[1] # k)
      BY <1>1
    <3>2. a[1] \in analyses'
      BY <1>1, <1>2, <3>1
    <3>. QED BY <1>1, <1>2, <3>1, <3>2
  <2>. QED BY <2>1
<1>4. ASSUME NEW a \in lost
      PROVE  event(a) \in Events \X Objects \X Nat /\ event(a)[1] # "announced"
  <2>1. a[2] \in Objects
    BY <1>2
  <2>2. row[a[2]].life \in Nat
    BY <1>1, <2>1 DEF TypeOK
  <2>. QED BY <2>1, <2>2 DEF Events
<1> HIDE DEF event
<1>5. log \subseteq log' /\ log' \subseteq Events \X Objects \X Nat
  BY <1>1, <1>4 DEF TypeOK
<1>6. \A o \in Objects, l \in Nat : <<"announced", o, l>> \in log' => <<"announced", o, l>> \in log
  BY <1>1, <1>4
<1>7. /\ analyses' \subseteq Ids /\ row' \in [Objects -> [life : Nat, kind : Types \cup {"none"}]]
      /\ \A o \in Objects : row'[o] = row[o]
  BY <1>1 DEF TypeOK
<1>. QED
  BY <1>1, <1>3, <1>5, <1>6, <1>7, Written

----------------------------------------------------------------------------
(* COMMIT: every row the request holds becomes the row of its object, and  *)
(* no other row changes.                                                   *)
LEMMA Publishes ==
    ASSUME Inductive, NEW r \in Requests, Publish(r)
    PROVE  /\ row' \in [Objects -> [life : Nat, kind : Types \cup {"none"}]]
           /\ lives' \in [Objects -> Nat]
           /\ RowStep(r)
           /\ \A h \in req[r].held : row'[h[1]].life = h[2] /\ lives'[h[1]] = h[2]
           /\ \A o \in Objects :
                \/ row'[o] = row[o] /\ lives'[o] = lives[o]
                \/ /\ \E h \in req[r].held : h[1] = o
                   /\ row'[o].kind = IF o = req[r].obj THEN req[r].kind ELSE "blob"
<1> DEFINE held == req[r].held
           mine(o) == {h \in held : h[1] = o}
           kind(o) == IF o = req[r].obj THEN req[r].kind ELSE "blob"
           top(o) == (CHOOSE h \in mine(o) : TRUE)[2]
<1>1. /\ TypeOK /\ Local(r) /\ req[r].kind \in Types \cup {"none"}
      /\ held \subseteq Objects \X (Nat \ {0})
      /\ \A u, v \in held : u[1] = v[1] => u = v
      /\ \A h \in held : h[2] = lives[h[1]] + 1
  BY DEF Inductive, TypeOK, Request, Rows, Local, Owned, Placed
<1>2. /\ row' = [o \in Objects |-> IF mine(o) = {} THEN row[o] ELSE [life |-> top(o), kind |-> kind(o)]]
      /\ lives' = [o \in Objects |-> IF mine(o) = {} THEN lives[o] ELSE row'[o].life]
  BY DEF Publish
<1>3. ASSUME NEW o \in Objects, NEW h \in held, h[1] = o
      PROVE  /\ row'[o] = [life |-> h[2], kind |-> kind(o)] /\ lives'[o] = h[2]
             /\ row'[o].life = h[2] /\ row'[o].kind = kind(o)
             /\ row'[o] \in [life : Nat, kind : Types \cup {"none"}]
             /\ h[2] = lives[o] + 1 /\ h[2] \in Nat
  <2>1. mine(o) # {}
    BY <1>3
  <2>2. PICK g \in mine(o) : g = CHOOSE x \in mine(o) : TRUE
    BY <2>1
  <2>3. g = h
    BY <1>1, <1>3, <2>2
  <2>4. top(o) = h[2]
    BY <2>2, <2>3
  <2>5. row'[o] = [life |-> h[2], kind |-> kind(o)]
    BY <1>2, <2>1, <2>4
  <2>6. lives'[o] = h[2]
    BY <1>2, <2>1, <2>5
  <2>7. h[2] \in Nat /\ h[2] = lives[o] + 1 /\ kind(o) \in Types \cup {"none"}
    BY <1>1, <1>3 DEF Types
  <2> HIDE DEF kind, mine, top
  <2>. QED BY <2>5, <2>6, <2>7
<1>4. ASSUME NEW o \in Objects, ~ \E h \in held : h[1] = o
      PROVE  row'[o] = row[o] /\ lives'[o] = lives[o]
  <2>1. mine(o) = {}
    BY <1>4
  <2>. QED BY <1>2, <2>1
<1>10. row' = [o \in Objects |-> row'[o]] /\ lives' = [o \in Objects |-> lives'[o]]
  BY <1>2
<1> HIDE DEF mine, top, kind
<1>5. ASSUME NEW o \in Objects
      PROVE  row'[o] \in [life : Nat, kind : Types \cup {"none"}] /\ lives'[o] \in Nat
  <2>1. CASE \E h \in held : h[1] = o
    <3>1. PICK h \in held : h[1] = o
      BY <2>1
    <3>. QED BY <1>3, <3>1
  <2>2. CASE ~ \E h \in held : h[1] = o
    BY <1>1, <1>4, <2>2 DEF TypeOK
  <2>. QED BY <2>1, <2>2
<1>6. /\ row' \in [Objects -> [life : Nat, kind : Types \cup {"none"}]]
      /\ lives' \in [Objects -> Nat]
  BY <1>5, <1>10
<1>7. \A h \in held : row'[h[1]].life = h[2] /\ lives'[h[1]] = h[2]
  BY <1>1, <1>3
<1>8. RowStep(r)
  <2>1. SUFFICES ASSUME NEW o \in Objects
                 PROVE  \/ row'[o] = row[o] /\ lives'[o] = lives[o]
                        \/ /\ \E h \in held : h[1] = o
                           /\ row'[o].life = lives[o] + 1 /\ lives'[o] = lives[o] + 1
    BY DEF RowStep
  <2>2. CASE \E h \in held : h[1] = o
    <3>1. PICK h \in held : h[1] = o
      BY <2>2
    <3>. QED BY <1>3, <3>1
  <2>3. CASE ~ \E h \in held : h[1] = o
    BY <1>4, <2>3
  <2>. QED BY <2>2, <2>3
<1>9. ASSUME NEW o \in Objects
      PROVE  \/ row'[o] = row[o] /\ lives'[o] = lives[o]
             \/ (\E h \in held : h[1] = o) /\ row'[o].kind = kind(o)
  <2>1. CASE \E h \in held : h[1] = o
    <3>1. PICK h \in held : h[1] = o
      BY <2>1
    <3>. QED BY <1>3, <3>1
  <2>2. CASE ~ \E h \in held : h[1] = o
    BY <1>4, <2>2
  <2>. QED BY <2>1, <2>2
<1>. QED
  BY <1>6, <1>7, <1>8, <1>9 DEF kind

(* What commits leaves the request in order, and the content of files it   *)
(* publishes is in storage or it says that it is early.                    *)
LEMMA CommittedStep ==
    ASSUME Inductive, NEW r \in Requests, NEW pc \in {"answer", "store", "commit", "created"},
           req[r].pc \in {"link", "commit"}, Publish(r),
           req' = [req EXCEPT ![r].pc = pc, ![r].held = {}],
           UNCHANGED <<stored, sent, begun, faults>>,
           analyses' \subseteq Ids,
           assoc' \subseteq analyses' \X {o \in Objects : row'[o].life # 0},
           log \subseteq log', log' \subseteq Events \X Objects \X Nat,
           \A o \in Objects, l \in Nat : <<"announced", o, l>> \in log' => <<"announced", o, l>> \in log,
           req[r].new /\ req[r].kind = "file" => pc = "store" \/ req[r].obj \in stored,
           req[r].kind = "file" /\ <<req[r].obj, Life(r)>> \in req[r].held =>
               req[r].obj \in stored \/ Event("early", r) \in log'
    PROVE  Inductive'
<1> DEFINE q == [req[r] EXCEPT !.pc = pc, !.held = {}]
<1>1. /\ TypeOK /\ Local(r) /\ req[r] \in Request /\ req[r].used \subseteq Rows
      /\ req[r].obj \in Objects
  BY DEF Inductive, TypeOK, Request, Local, Placed
<1>2. req' = [req EXCEPT ![r] = q] /\ q \in Request /\ req'[r] = q
  BY <1>1 DEF TypeOK, Request, Steps
<1>3. /\ q.pc = pc /\ q.kid = req[r].kid /\ q.held = {}
      /\ q.op = req[r].op /\ q.obj = req[r].obj /\ q.at = req[r].at
      /\ q.kind = req[r].kind /\ q.used = req[r].used /\ q.new = req[r].new
  BY <1>1 DEF Request
<1> HIDE DEF q
<1>4. /\ row' \in [Objects -> [life : Nat, kind : Types \cup {"none"}]]
      /\ lives' \in [Objects -> Nat]
      /\ RowStep(r)
      /\ \A h \in req[r].held : row'[h[1]].life = h[2] /\ lives'[h[1]] = h[2]
      /\ \A o \in Objects :
           \/ row'[o] = row[o] /\ lives'[o] = lives[o]
           \/ /\ \E h \in req[r].held : h[1] = o
              /\ row'[o].kind = IF o = req[r].obj THEN req[r].kind ELSE "blob"
  BY Publishes
<1>5. TypeOK'
  BY <1>1, <1>2, <1>4 DEF TypeOK
<1>6. Placed(r)'
  BY <1>1, <1>2, <1>3 DEF Local, Placed
<1>7. Owned(r)'
  <2>1. ASSUME NEW u \in req[r].used PROVE u[2] <= lives'[u[1]]
    <3>1. u[1] \in Objects /\ u[2] \in Nat
      BY <1>1 DEF Rows
    <3>2. CASE u \in req[r].held
      BY <1>4, <3>1, <3>2
    <3>3. CASE u \notin req[r].held
      <4>1. u[2] <= lives[u[1]] /\ lives[u[1]] \in Nat
        BY <1>1, <3>1, <3>3 DEF Local, Owned, TypeOK
      <4>2. lives'[u[1]] = lives[u[1]] \/ lives'[u[1]] = lives[u[1]] + 1
        BY <1>4, <3>1 DEF RowStep
      <4>. QED BY <3>1, <4>1, <4>2
    <3>. QED BY <3>2, <3>3
  <2>. QED BY <1>2, <1>3, <2>1 DEF Owned
<1>8. Truthful(r)'
  <2>1. ASSUME NEW u \in req[r].used, req[r].new, u[1] = req[r].obj, row'[u[1]].life = u[2]
        PROVE  row'[u[1]].kind = req[r].kind
    <3>1. CASE row'[req[r].obj] = row[req[r].obj]
      <4>1. CASE u \notin req[r].held
        BY <1>1, <2>1, <3>1, <4>1 DEF Local, Truthful
      <4>2. CASE u \in req[r].held
        <5>1. u[2] = lives[u[1]] + 1 /\ row[u[1]].life <= lives[u[1]]
              /\ lives[u[1]] \in Nat /\ row[u[1]].life \in Nat
          BY <1>1, <2>1, <4>2 DEF Local, Owned, Inductive, Below, TypeOK
        <5>. QED BY <2>1, <3>1, <5>1
      <4>. QED BY <4>1, <4>2
    <3>2. CASE row'[req[r].obj] # row[req[r].obj]
      BY <1>1, <1>4, <2>1, <3>2
    <3>. QED BY <3>1, <3>2
  <2>2. req[r].new /\ req[r].kind = "file" /\ pc # "store" => req[r].obj \in stored'
    OBVIOUS
  <2>3. /\ q.new => \A u \in q.used \ q.held :
              u[1] = q.obj /\ row'[u[1]].life = u[2] => row'[u[1]].kind = q.kind
        /\ q.new /\ q.kind = "file" /\ q.pc # "store" => q.obj \in stored'
    BY <1>3, <2>1, <2>2
  <2>. QED BY <1>2, <2>3 DEF Truthful
<1>9. ASSUME NEW o \in Objects, row'[o] # row[o], row'[o].kind = "file"
      PROVE  o \in stored' \/ <<"early", o, row'[o].life>> \in log'
  <2>1. PICK h \in req[r].held : h[1] = o
    BY <1>4, <1>9
  <2>2. o = req[r].obj /\ req[r].kind = "file"
    BY <1>4, <1>9
  <2>3. h \in req[r].used /\ h = <<h[1], h[2]>>
    BY <1>1, <2>1 DEF Local, Owned, Rows
  <2>4. Life(r) = h[2] /\ row'[o].life = h[2]
    BY <1>1, <1>4, <2>1, <2>2, <2>3, LifeIs DEF Local
  <2>5. <<req[r].obj, Life(r)>> \in req[r].held
    BY <2>1, <2>2, <2>3, <2>4
  <2>6. Event("early", r) = <<"early", o, row'[o].life>>
    BY <2>2, <2>4 DEF Event
  <2>. QED BY <2>2, <2>5, <2>6
<1>10. \A s \in Requests \ {r} : \A h \in req[s].held, g \in q.held : h[1] # g[1]
  BY <1>3
<1>11. stored \subseteq stored'
  OBVIOUS
<1>. QED
  BY <1>2, <1>4, <1>5, <1>6, <1>7, <1>8, <1>9, <1>10, <1>11, Preserved DEF Local

(* The blobs a config brings along are told apart from it.                 *)
LEMMA EmbeddedTyped ==
    ASSUME Inductive, NEW r \in Requests
    PROVE  /\ Embedded(r) \subseteq Events \X Objects \X Nat
           /\ \A o, l : <<"announced", o, l>> \notin Embedded(r)
<1>1. req[r].held \subseteq Objects \X (Nat \ {0})
  BY DEF Inductive, TypeOK, Request, Rows
<1>. QED
  BY <1>1 DEF Embedded, Events

LEMMA LinkStep ==
    ASSUME Inductive, NEW r \in Requests, Link(r)
    PROVE  Inductive'
<1> DEFINE k == req[r].kid
           pc == CASE req[r].op = "assign" -> "answer"
                   [] req[r].op = "upload" /\ req[r].new /\ req[r].kind = "file" -> "store"
                   [] OTHER -> "commit"
<1>1. /\ TypeOK /\ Local(r) /\ Below /\ req[r].pc = "link" /\ UNCHANGED <<sent, begun, faults>>
      /\ sent' \in Nat /\ begun' \in Nat /\ faults' \in Nat
      /\ k \in Nat /\ req[r].obj \in Objects
  BY DEF Inductive, TypeOK, Link, Local, Placed
<1>2. CASE Fail(r) /\ UNCHANGED db
  BY <1>1, <1>2, Failed
<1>3. CASE /\ ~Gone(r) /\ Publish(r)
           /\ analyses' = analyses \cup {k}
           /\ assoc' = assoc \cup {<<k, req[r].obj>>}
           /\ req' = [req EXCEPT ![r].pc = pc, ![r].held = {}]
           /\ log' = log \cup Embedded(r) \cup (IF Published(r) THEN {} ELSE {Event("early", r)})
           /\ UNCHANGED stored
  <2>1. /\ \A h \in req[r].held : row'[h[1]].life = h[2]
        /\ \A o \in Objects :
             row'[o] = row[o] \/ (row'[o].life = lives[o] + 1 /\ lives[o] \in Nat) \/ row'[o] = NoRow
        /\ \A o \in Objects : row'[o] = row[o] \/ \E h \in req[r].held : h[1] = o
    BY <1>1, <1>3, Publishes DEF RowStep, TypeOK
  <2>2. req[r].held \subseteq Rows
    BY <1>1 DEF TypeOK, Request, Local, Owned
  <2>3. \A o \in Objects : row[o].life # 0 => row'[o].life # 0
    BY <2>1, <2>2 DEF Rows
  <2>4. Life(r) # 0 /\ <<req[r].obj, Life(r)>>[1] = req[r].obj
        /\ <<req[r].obj, Life(r)>>[2] = Life(r)
    BY <1>1, LifeUsed DEF Local
  <2>5. row'[req[r].obj].life # 0
    <3>1. CASE Published(r)
      BY <1>1, <1>3, <2>3, <2>4, <3>1 DEF Gone
    <3>2. CASE ~Published(r)
      BY <2>1, <2>4, <3>2 DEF Published
    <3>. QED BY <3>1, <3>2
  <2>6. analyses' \subseteq Ids /\ assoc' \subseteq analyses' \X {o \in Objects : row'[o].life # 0}
    <3>1. <<k, req[r].obj>> \in analyses' \X {o \in Objects : row'[o].life # 0}
      BY <1>1, <1>3, <2>5
    <3>2. assoc \subseteq analyses \X {o \in Objects : row[o].life # 0} /\ analyses \subseteq Ids
      BY <1>1 DEF TypeOK
    <3>3. assoc \subseteq analyses' \X {o \in Objects : row'[o].life # 0}
      BY <1>3, <2>3, <3>2
    <3>. QED BY <1>1, <1>3, <3>1, <3>2, <3>3 DEF Ids
  <2>7. Event("early", r) \in Events \X Objects \X Nat
    BY <1>1, EventTyped DEF Events
  <2>8. log \subseteq log' /\ log' \subseteq Events \X Objects \X Nat
    BY <1>1, <1>3, <2>7, EmbeddedTyped DEF TypeOK
  <2>9. \A o \in Objects, l \in Nat : <<"announced", o, l>> \in log' => <<"announced", o, l>> \in log
    BY <1>3, EmbeddedTyped DEF Event
  <2>10. pc \in {"answer", "store", "commit"}
         /\ (req[r].op = "upload" /\ req[r].new /\ req[r].kind = "file" => pc = "store")
    BY Zenon
  <2>11. req[r].new => req[r].op = "upload"
    BY <1>1 DEF Local, Placed
  <2>12. <<req[r].obj, Life(r)>> \in req[r].held => Event("early", r) \in log'
    BY <1>3 DEF Published
  <2> HIDE DEF pc
  <2>. QED
    BY <1>1, <1>3, <2>6, <2>8, <2>9, <2>10, <2>11, <2>12, CommittedStep
<1>. QED
  BY <1>2, <1>3 DEF Link

LEMMA CommitStep ==
    ASSUME Inductive, NEW r \in Requests, Commit(r)
    PROVE  Inductive'
<1>1. /\ TypeOK /\ Local(r) /\ req[r].pc = "commit"
      /\ UNCHANGED <<stored, analyses, assoc, sent, begun, faults>>
      /\ sent' \in Nat /\ begun' \in Nat /\ faults' \in Nat
  BY DEF Inductive, TypeOK, Commit
<1>2. CASE Fail(r) /\ UNCHANGED <<row, lives>>
  BY <1>1, <1>2, Failed DEF db
<1>3. CASE /\ Publish(r)
           /\ log' = log \cup Embedded(r)
           /\ req' = [req EXCEPT ![r].held = {},
                                 ![r].pc = IF req[r].new THEN "created" ELSE "answer"]
  <2>1. PICK pc \in {"created", "answer"} : pc = IF req[r].new THEN "created" ELSE "answer"
    OBVIOUS
  <2>2. req' = [req EXCEPT ![r].pc = pc, ![r].held = {}]
    BY <1>1, <1>3, <2>1 DEF TypeOK, Request
  <2>3. \A o \in Objects : row[o].life # 0 => row'[o].life # 0
    <3>1. \A o \in Objects : \/ row'[o] = row[o]
                             \/ \E h \in req[r].held : h[1] = o /\ row'[o].life = h[2]
      BY <1>3, Publishes
    <3>2. req[r].held \subseteq Rows
      BY <1>1 DEF TypeOK, Request, Local, Owned
    <3>. QED BY <3>1, <3>2 DEF Rows
  <2>4. analyses' \subseteq Ids /\ assoc' \subseteq analyses' \X {o \in Objects : row'[o].life # 0}
    BY <1>1, <2>3 DEF TypeOK
  <2>5. log \subseteq log' /\ log' \subseteq Events \X Objects \X Nat
    BY <1>1, <1>3, EmbeddedTyped DEF TypeOK
  <2>6. \A o \in Objects, l \in Nat : <<"announced", o, l>> \in log' => <<"announced", o, l>> \in log
    BY <1>3, EmbeddedTyped
  <2>7. req[r].new /\ req[r].kind = "file" => req[r].obj \in stored
    BY <1>1 DEF Local, Truthful
  <2>8. <<req[r].obj, Life(r)>> \in req[r].held => req[r].new
    <3>1. <<req[r].obj, Life(r)>>[1] = req[r].obj
      OBVIOUS
    <3>. QED BY <1>1, <3>1 DEF Local, Owned
  <2>. QED
    BY <1>1, <1>3, <2>1, <2>2, <2>4, <2>5, <2>6, <2>7, <2>8, CommittedStep
<1>. QED
  BY <1>2, <1>3 DEF Commit

----------------------------------------------------------------------------
(* The inductive invariant holds, for any number of requests and objects:  *)
(* Requests, MaxRequests and MaxFaults are what they like.                 *)
LEMMA Initially == Init => Inductive
<1> SUFFICES ASSUME Init PROVE Inductive
  OBVIOUS
<1>1. NoRow \in [life : Nat, kind : Types \cup {"none"}] /\ NoRow.life = 0 /\ NoRow.kind = "none"
  BY DEF NoRow
<1>2. Idle \in Request
  BY DEF Idle, Request, Ops, Steps, Types
<1>3. /\ row \in [Objects -> [life : Nat, kind : Types \cup {"none"}]]
      /\ lives \in [Objects -> Nat]
      /\ req \in [Requests -> Request]
      /\ \A o \in Objects : row[o] = NoRow /\ lives[o] = 0
      /\ \A r \in Requests : req[r] = Idle
  BY <1>1, <1>2 DEF Init
<1>4. TypeOK
  BY <1>3 DEF Init, TypeOK
<1>5. \A r \in Requests : Placed(r) /\ Owned(r) /\ Truthful(r)
  BY <1>3 DEF Idle, Placed, Owned, Truthful
<1>6. Alone
  BY <1>3 DEF Idle, Alone
<1>7. Below
  BY <1>1, <1>3 DEF Init, Below
<1>8. ContentBehindRow
  BY <1>1, <1>3 DEF ContentBehindRow
<1>. QED
  BY <1>4, <1>5, <1>6, <1>7, <1>8 DEF Inductive, Local

LEMMA Stepwise == Inductive /\ [Next]_vars => Inductive'
<1>1. SUFFICES ASSUME Inductive, [Next]_vars PROVE Inductive'
  OBVIOUS
<1>2. CASE UNCHANGED vars
  BY <1>1, <1>2 DEF vars, Inductive, TypeOK, Local, Placed, Owned, Truthful, Alone, Below,
                    ContentBehindRow, Seen
<1>3. ASSUME NEW r \in Requests, Begin(r) PROVE Inductive'
  BY <1>1, <1>3, BeginStep
<1>4. ASSUME NEW r \in Requests, Break(r) PROVE Inductive'
  BY <1>1, <1>4, BreakStep
<1>5. ASSUME NEW r \in Requests, Step(r) PROVE Inductive'
  BY <1>1, <1>5, LookupForUploadStep, LookupForRestStep, InsertStep, ReadAnalysisStep, LinkStep,
     StoreStep, CommitStep, CreatedStep, SendStep, RecordStep, DeleteRowStep, UnassignStep,
     DropAnalysisStep, AnswerStep DEF Step
<1>. QED
  BY <1>1, <1>2, <1>3, <1>4, <1>5 DEF Next

(* The tables keep their types and their references: an association names  *)
(* an analysis and an object that are there, whatever is deleted meanwhile *)
(* (mwdb/model/karton.py, the foreign keys of karton_object). The content  *)
(* of every file that can be found is in storage, or its upload committed  *)
(* early in assign_analysis and has not answered (mwdb/model/file.py       *)
(* get_or_create, mwdb/model/object.py assign_analysis), for any number of *)
(* requests and faults.                                                    *)
THEOREM ContentHolds == Spec => []TablesSound
<1>1. Inductive => TablesSound
  BY DEF Inductive, TablesSound
<1>. QED
  BY Initially, Stepwise, <1>1, PTL DEF Spec

----------------------------------------------------------------------------
(* That a row is new once only.  While a request holds the one row that    *)
(* counts as new for it, nobody else has that row as new, it has not been  *)
(* announced, and it has not been submitted before the request has done    *)
(* it.                                                                     *)
Sole(r) ==
    req[r].new => \A u \in req[r].used : u[1] = req[r].obj =>
        /\ \A q \in Requests \ {r} :
            req[q].new /\ req[q].obj = req[r].obj => u \notin req[q].used
        /\ <<"announced", u[1], u[2]>> \notin log
        /\ req[r].pc \notin {"record", "answer"} => <<"submitted", u[1], u[2]>> \notin log

Once ==
    /\ \A r \in Requests : Sole(r)
    /\ \A o \in Objects, l \in Nat : <<"submitted", o, l>> \in log => l <= lives[o]

(* What all steps do but the insert of a row: nothing becomes new, and     *)
(* only a row that is new is submitted or announced, which the request     *)
(* then remembers.                                                         *)
Keeps(r) ==
    /\ \A s \in Requests \ {r} : req'[s] = req[s]
    /\ req'[r].new =>
        /\ req[r].new /\ req'[r].obj = req[r].obj /\ req'[r].used = req[r].used
        /\ req[r].pc \in {"record", "answer"} => req'[r].pc \in {"record", "answer"}
    /\ \A o \in Objects : lives[o] <= lives'[o]
    /\ \A e \in {"submitted", "announced"}, o \in Objects, l \in Nat :
        <<e, o, l>> \in log' => \/ <<e, o, l>> \in log
                                \/ /\ req[r].new /\ o = req[r].obj /\ <<o, l>> \in req[r].used
                                   /\ l <= lives[o]
                                   /\ IF e = "announced" THEN ~req'[r].new
                                                         ELSE req'[r].pc = "record"

LEMMA OnceKept ==
    ASSUME Inductive, Inductive', Once, NEW r \in Requests, Keeps(r)
    PROVE  Once'
<1>1. \A s \in Requests : req[s].used \subseteq Rows
  BY DEF Inductive, TypeOK, Request
<1>2. ASSUME NEW s \in Requests, req'[s].new, NEW u \in req'[s].used, u[1] = req'[s].obj
      PROVE  /\ \A q \in Requests \ {s} :
                  req'[q].new /\ req'[q].obj = req'[s].obj => u \notin req'[q].used
             /\ <<"announced", u[1], u[2]>> \notin log'
             /\ req'[s].pc \notin {"record", "answer"} => <<"submitted", u[1], u[2]>> \notin log'
  <2>1. /\ req[s].new /\ req'[s].obj = req[s].obj /\ u \in req[s].used
        /\ req'[s].pc \notin {"record", "answer"} => req[s].pc \notin {"record", "answer"}
    BY <1>2 DEF Keeps
  <2>2. u[1] \in Objects /\ u[2] \in Nat /\ u = <<u[1], u[2]>>
    BY <1>1, <2>1 DEF Rows
  <2>3. /\ \A q \in Requests \ {s} : req[q].new /\ req[q].obj = req[s].obj => u \notin req[q].used
        /\ <<"announced", u[1], u[2]>> \notin log
        /\ req[s].pc \notin {"record", "answer"} => <<"submitted", u[1], u[2]>> \notin log
    BY <1>2, <2>1 DEF Once, Sole
  <2>4. \A q \in Requests \ {s} : req'[q].new /\ req'[q].obj = req'[s].obj => u \notin req'[q].used
    BY <2>1, <2>3 DEF Keeps
  <2>5. <<"announced", u[1], u[2]>> \notin log'
    <3>1. SUFFICES ASSUME <<"announced", u[1], u[2]>> \in log' PROVE FALSE
      OBVIOUS
    <3>2. req[r].new /\ u[1] = req[r].obj /\ u \in req[r].used /\ ~req'[r].new
      BY <2>2, <2>3, <3>1 DEF Keeps
    <3>. QED BY <1>2, <2>1, <2>3, <3>2
  <2>6. req'[s].pc \notin {"record", "answer"} => <<"submitted", u[1], u[2]>> \notin log'
    <3>1. SUFFICES ASSUME req'[s].pc \notin {"record", "answer"}, <<"submitted", u[1], u[2]>> \in log'
                   PROVE  FALSE
      OBVIOUS
    <3>2. req[r].new /\ u[1] = req[r].obj /\ u \in req[r].used /\ req'[r].pc = "record"
      BY <2>1, <2>2, <2>3, <3>1 DEF Keeps
    <3>. QED BY <1>2, <2>1, <2>3, <3>1, <3>2
  <2>. QED BY <2>4, <2>5, <2>6
<1>3. ASSUME NEW o \in Objects, NEW l \in Nat, <<"submitted", o, l>> \in log'
      PROVE  l <= lives'[o]
  <2>1. l <= lives[o]
    BY <1>3 DEF Keeps, Once
  <2>2. lives[o] <= lives'[o] /\ lives[o] \in Nat /\ lives'[o] \in Nat
    BY DEF Inductive, TypeOK, Keeps
  <2>. QED BY <2>1, <2>2
<1>. QED
  BY <1>2, <1>3 DEF Once, Sole

(* A row just inserted has a life that nobody can have heard of.           *)
LEMMA OnceTaken ==
    ASSUME Inductive, Once, NEW r \in Requests, req[r].pc = "insert",
           Take(r, lives[req[r].at] + 1, TRUE), UNCHANGED <<lives, log>>,
           \A s \in Requests \ {r} : \A h \in req[s].held : h[1] # req[r].at
    PROVE  Once'
<1> DEFINE l == lives[req[r].at] + 1
           row1 == <<req[r].at, l>>
<1>1. /\ TypeOK /\ req[r] \in Request /\ req[r].at \in Objects /\ l \in Nat /\ ~req[r].new
      /\ \A u \in req[r].used : u[1] # req[r].at
      /\ \A s \in Requests : req[s].used \subseteq Rows /\ Owned(s)
  BY DEF Inductive, TypeOK, Request, Local, Placed
<1>2. \A s \in Requests \ {r} : req'[s] = req[s]
  BY <1>1 DEF Take, TypeOK
<1>3. /\ req'[r].used = req[r].used \cup {row1} /\ req'[r].obj = req[r].obj
      /\ req'[r].new => req[r].at = req[r].obj
  <2>1. CASE req[r].at # req[r].obj
    BY <1>1, <2>1 DEF Take, TypeOK, Request
  <2>2. CASE req[r].at = req[r].obj
    BY <1>1, <2>2 DEF Take, TypeOK, Request
  <2>. QED BY <2>1, <2>2
<1>4. row1[1] = req[r].at /\ row1[2] = l
  OBVIOUS
<1>5. \A s \in Requests \ {r} : row1 \notin req[s].used
  <2>1. SUFFICES ASSUME NEW s \in Requests \ {r}, row1 \in req[s].used PROVE FALSE
    OBVIOUS
  <2>2. row1 \notin req[s].held
    BY <1>4
  <2>3. l <= lives[req[r].at] /\ lives[req[r].at] \in Nat
    BY <1>1, <1>4, <2>1, <2>2 DEF Owned, TypeOK
  <2>. QED BY <2>3
<1>6. <<"announced", req[r].at, l>> \notin log /\ <<"submitted", req[r].at, l>> \notin log
  <2>1. lives[req[r].at] \in Nat /\ ~(l <= lives[req[r].at])
    BY <1>1 DEF TypeOK
  <2>. QED BY <1>1, <2>1 DEF Inductive, Below, Once
<1>7. Sole(r)'
  <2>1. SUFFICES ASSUME req'[r].new, NEW u \in req'[r].used, u[1] = req'[r].obj
                 PROVE  /\ \A q \in Requests \ {r} : u \notin req'[q].used
                        /\ <<"announced", u[1], u[2]>> \notin log'
                        /\ <<"submitted", u[1], u[2]>> \notin log'
    BY DEF Sole
  <2>2. u = row1
    BY <1>1, <1>3, <2>1
  <2>. QED BY <1>2, <1>4, <1>5, <1>6, <2>2
<1>8. ASSUME NEW s \in Requests \ {r} PROVE Sole(s)'
  <2>1. SUFFICES ASSUME req[s].new, NEW u \in req[s].used, u[1] = req[s].obj
                 PROVE  /\ \A q \in Requests \ {s} :
                             req'[q].new /\ req'[q].obj = req[s].obj => u \notin req'[q].used
                        /\ <<"announced", u[1], u[2]>> \notin log
                        /\ req[s].pc \notin {"record", "answer"} =>
                             <<"submitted", u[1], u[2]>> \notin log
    BY <1>2 DEF Sole
  <2>2. Sole(s)
    BY DEF Once
  <2>3. ASSUME NEW q \in Requests \ {s}, req'[q].new, req'[q].obj = req[s].obj, u \in req'[q].used
        PROVE  FALSE
    <3>1. CASE q = r
      <4>1. u = row1
        BY <1>1, <1>3, <2>1, <2>3, <3>1
      <4>. QED BY <1>5, <2>1, <4>1
    <3>2. CASE q # r
      BY <1>2, <2>1, <2>2, <2>3, <3>2 DEF Sole
    <3>. QED BY <3>1, <3>2
  <2>. QED BY <2>1, <2>2, <2>3 DEF Sole
<1>. QED
  BY <1>7, <1>8 DEF Once

(* Most steps leave both events alone.                                     *)
LEMMA KeepsQuiet ==
    ASSUME Inductive, NEW r \in Requests, \A s \in Requests \ {r} : req'[s] = req[s],
           req'[r].new =>
               /\ req[r].new /\ req'[r].obj = req[r].obj /\ req'[r].used = req[r].used
               /\ req[r].pc \in {"record", "answer"} => req'[r].pc \in {"record", "answer"},
           \A o \in Objects : lives[o] <= lives'[o],
           \A e \in {"submitted", "announced"}, o \in Objects, l \in Nat :
               <<e, o, l>> \in log' => <<e, o, l>> \in log
    PROVE  Keeps(r)
  BY DEF Keeps

LEMMA LivesGrow ==
    ASSUME Inductive, NEW r \in Requests, UNCHANGED lives \/ Publish(r)
    PROVE  \A o \in Objects : lives[o] <= lives'[o]
<1>1. \A o \in Objects : lives[o] \in Nat
  BY DEF Inductive, TypeOK
<1>2. CASE UNCHANGED lives
  BY <1>1, <1>2
<1>3. CASE Publish(r)
  <2>1. RowStep(r)
    BY <1>3, Publishes
  <2>. QED BY <1>1, <2>1 DEF RowStep
<1>. QED
  BY <1>2, <1>3

LEMMA FailKeeps ==
    ASSUME Inductive, NEW r \in Requests, UNCHANGED lives,
           Fail(r) \/ (Finish(r) /\ UNCHANGED log)
    PROVE  Keeps(r)
<1>1. (\A s \in Requests \ {r} : req'[s] = req[s]) /\ ~req'[r].new
  BY DEF Fail, Finish, Idle, Inductive, TypeOK
<1>2. \A e \in {"submitted", "announced"}, o \in Objects, l \in Nat :
        <<e, o, l>> \in log' => <<e, o, l>> \in log
  BY DEF Fail, Event
<1>3. \A o \in Objects : lives[o] <= lives'[o]
  BY LivesGrow
<1>. QED
  BY <1>1, <1>2, <1>3, KeepsQuiet

LEMMA GotoKeeps ==
    ASSUME Inductive, NEW r \in Requests, NEW pc, Goto(r, pc), UNCHANGED lives,
           req[r].pc \notin {"record", "answer"} \/ pc \in {"record", "answer"},
           \A e \in {"submitted", "announced"}, o \in Objects, l \in Nat :
               <<e, o, l>> \in log' => <<e, o, l>> \in log
    PROVE  Keeps(r)
<1>1. TypeOK /\ req[r] \in Request
  BY DEF Inductive, TypeOK
<1>2. /\ \A s \in Requests \ {r} : req'[s] = req[s]
      /\ req'[r].new = req[r].new /\ req'[r].obj = req[r].obj /\ req'[r].used = req[r].used
      /\ req'[r].pc = pc
  BY <1>1 DEF Goto, TypeOK, Request
<1>3. \A o \in Objects : lives[o] <= lives'[o]
  BY LivesGrow
<1>. QED
  BY <1>2, <1>3, KeepsQuiet

(* Every step but an insert that succeeds.                                 *)
LEMMA StepKeeps ==
    ASSUME Inductive, NEW r \in Requests, Begin(r) \/ Break(r) \/ Step(r),
           ~(Insert(r) /\ Take(r, lives[req[r].at] + 1, TRUE))
    PROVE  Keeps(r)
<1>1. /\ TypeOK /\ Local(r) /\ req[r] \in Request
      /\ UNCHANGED lives => \A o \in Objects : lives[o] <= lives'[o]
      /\ Publish(r) => \A o \in Objects : lives[o] <= lives'[o]
  BY LivesGrow DEF Inductive, TypeOK
<1> DEFINE Same == \A e \in {"submitted", "announced"}, o \in Objects, l \in Nat :
                      <<e, o, l>> \in log' => <<e, o, l>> \in log
           Untouched == \A s \in Requests \ {r} : req'[s] = req[s]
           Kept == /\ req'[r].new = req[r].new /\ req'[r].obj = req[r].obj
                   /\ req'[r].used = req[r].used
<1>2. UNCHANGED log => Same
  OBVIOUS
<1>3. CASE Begin(r)
  <2>1. UNCHANGED <<lives, log>>
    BY <1>3 DEF Begin, db
  <2>2. PICK op \in Ops, o \in Objects, k \in 0 .. sent \cup {NoId} :
          \E kind \in IF op = "upload" THEN Kinds[o] ELSE {"none"} :
            req' = [req EXCEPT ![r] = [Idle EXCEPT
                        !.pc = "lookup", !.op = op, !.obj = o, !.kind = kind, !.kid = k,
                        !.at = IF kind = "config" /\ Embeds[o] # NoObject THEN Embeds[o] ELSE o]]
    BY <1>3 DEF Begin
  <2>3. Untouched /\ ~req'[r].new
    BY <1>1, <2>2 DEF TypeOK, Idle
  <2>. QED BY <1>1, <1>2, <2>1, <2>3, KeepsQuiet
<1>4. CASE Break(r)
  BY <1>4, FailKeeps DEF Break, db
<1>5. CASE LookupForUpload(r) \/ Insert(r)
  <2>1. UNCHANGED <<lives, log>> /\ (Reuse(r) \/ Goto(r, "insert"))
        /\ req[r].pc \in {"lookup", "insert"}
    BY <1>5 DEF LookupForUpload, Insert, db
  <2>2. CASE Goto(r, "insert")
    BY <1>2, <2>1, <2>2, GotoKeeps
  <2>3. CASE Finish(r)
    BY <2>1, <2>3, FailKeeps
  <2>4. CASE \E l : Take(r, l, FALSE)
    <3>1. ~req[r].new
      BY <1>1, <2>1 DEF Local, Placed
    <3>2. Untouched /\ ~req'[r].new
      BY <1>1, <2>4, <3>1 DEF Take, TypeOK, Request
    <3>. QED BY <1>1, <1>2, <2>1, <3>2, KeepsQuiet
  <2>. QED BY <2>1, <2>2, <2>3, <2>4 DEF Reuse
<1>6. CASE LookupForRest(r)
  <2>1. UNCHANGED <<lives, log>> /\ ~req[r].new
    BY <1>1, <1>6 DEF LookupForRest, db, Local, Placed
  <2>2. Untouched /\ ~req'[r].new
    BY <1>1, <1>6, <2>1 DEF LookupForRest, Finish, Idle, TypeOK, Request
  <2>. QED BY <1>1, <1>2, <2>1, <2>2, KeepsQuiet
<1>7. CASE ReadAnalysis(r)
  <2>1. UNCHANGED <<lives, log>> /\ req[r].pc = "assign"
    BY <1>7 DEF ReadAnalysis, db
  <2>2. Untouched /\ Kept
    BY <1>1, <1>7 DEF ReadAnalysis, TypeOK, Request
  <2>. QED BY <1>1, <1>2, <2>1, <2>2, KeepsQuiet
<1>8. CASE Link(r)
  <2>1. CASE Fail(r) /\ UNCHANGED db
    BY <2>1, FailKeeps DEF db
  <2>2. CASE ~(Fail(r) /\ UNCHANGED db)
    <3>1. Publish(r) /\ req[r].pc = "link"
      BY <1>8, <2>2 DEF Link
    <3>2. Untouched /\ Kept
      BY <1>1, <1>8, <2>2 DEF Link, TypeOK, Request
    <3>3. Same
      BY <1>8, <2>2 DEF Link, Embedded, Event
    <3>. QED BY <1>1, <3>1, <3>2, <3>3, KeepsQuiet
  <2>. QED BY <2>1, <2>2
<1>9. CASE Commit(r)
  <2>1. CASE Fail(r) /\ UNCHANGED <<row, lives>>
    BY <2>1, FailKeeps
  <2>2. CASE ~(Fail(r) /\ UNCHANGED <<row, lives>>)
    <3>1. Publish(r) /\ req[r].pc = "commit"
      BY <1>9, <2>2 DEF Commit
    <3>2. Untouched /\ Kept
      BY <1>1, <1>9, <2>2 DEF Commit, TypeOK, Request
    <3>3. Same
      BY <1>9, <2>2 DEF Commit, Embedded
    <3>. QED BY <1>1, <3>1, <3>2, <3>3, KeepsQuiet
  <2>. QED BY <2>1, <2>2
<1>10. CASE Store(r)
  BY <1>2, <1>10, GotoKeeps DEF Store
<1>11. CASE Created(r)
  <2>1. UNCHANGED lives /\ req[r].pc = "created"
    BY <1>11 DEF Created, db
  <2>2. Fail(r) \/ (UNCHANGED log /\ \E pc : Goto(r, pc))
    BY <1>11 DEF Created
  <2>. QED BY <1>2, <2>1, <2>2, FailKeeps, GotoKeeps
<1>12. CASE Send(r)
  <2>1. UNCHANGED lives /\ req[r].pc = "send"
    BY <1>12 DEF Send, db
  <2>2. CASE Fail(r)
    BY <2>1, <2>2, FailKeeps
  <2>3. CASE ~Fail(r)
    <3>1. Untouched /\ Kept /\ req'[r].pc = "record"
      BY <1>1, <1>12, <2>3 DEF Send, TypeOK, Request
    <3>2. log' = log \cup (IF req[r].new THEN {Event("submitted", r)} ELSE {})
      BY <1>12, <2>3 DEF Send
    <3>3. <<req[r].obj, Life(r)>> \in req[r].used /\ req[r].held = {}
      BY <1>1, <2>1, LifeUsed DEF Local, Owned
    <3>4. <<req[r].obj, Life(r)>>[1] = req[r].obj /\ <<req[r].obj, Life(r)>>[2] = Life(r)
      OBVIOUS
    <3>5. Life(r) <= lives[req[r].obj]
      BY <1>1, <3>3, <3>4 DEF Local, Owned
    <3>6. \A e \in {"submitted", "announced"}, o \in Objects, l \in Nat :
            <<e, o, l>> \in log' => <<e, o, l>> \in log
                \/ (req[r].new /\ e = "submitted" /\ o = req[r].obj /\ l = Life(r))
      BY <3>2 DEF Event
    <3>. QED BY <1>1, <2>1, <3>1, <3>3, <3>5, <3>6 DEF Keeps
  <2>. QED BY <2>2, <2>3
<1>13. CASE Record(r)
  <2>1. UNCHANGED lives
    BY <1>13 DEF Record
  <2>2. Fail(r) \/ (UNCHANGED log /\ Goto(r, "answer"))
    BY <1>13 DEF Record
  <2>. QED BY <1>2, <2>1, <2>2, FailKeeps, GotoKeeps
<1>14. CASE DeleteRow(r)
  <2>1. UNCHANGED <<lives, log>> /\ (Finish(r) \/ Goto(r, "answer"))
    BY <1>14 DEF DeleteRow
  <2>. QED BY <1>2, <2>1, FailKeeps, GotoKeeps
<1>15. CASE Unassign(r)
  <2>1. UNCHANGED <<lives, log>> /\ req[r].pc = "unassign"
    BY <1>15 DEF Unassign, db
  <2>2. CASE Finish(r)
    BY <2>1, <2>2, FailKeeps
  <2>3. CASE ~Finish(r)
    <3>1. Untouched /\ Kept
      BY <1>1, <1>15, <2>3 DEF Unassign, TypeOK, Request
    <3>. QED BY <1>1, <1>2, <2>1, <3>1, KeepsQuiet
  <2>. QED BY <2>2, <2>3
<1>16. CASE DropAnalysis(r)
  <2>1. Same
    BY <1>16 DEF DropAnalysis
  <2>2. UNCHANGED lives /\ Goto(r, "answer")
    BY <1>16 DEF DropAnalysis
  <2>. QED BY <2>1, <2>2, GotoKeeps
<1>17. CASE Answer(r)
  <2>1. UNCHANGED lives /\ req[r].pc = "answer"
    BY <1>17 DEF Answer, db
  <2>2. CASE Fail(r)
    BY <2>1, <2>2, FailKeeps
  <2>3. CASE ~Fail(r)
    <3>1. Untouched /\ ~req'[r].new
      BY <1>1, <1>17, <2>3 DEF Answer, Finish, Idle, TypeOK
    <3>2. log' = log \cup (IF req[r].new THEN {Event("announced", r)} ELSE {})
      BY <1>17, <2>3 DEF Answer
    <3>3. <<req[r].obj, Life(r)>> \in req[r].used /\ req[r].held = {}
      BY <1>1, <2>1, LifeUsed DEF Local, Owned
    <3>4. <<req[r].obj, Life(r)>>[1] = req[r].obj /\ <<req[r].obj, Life(r)>>[2] = Life(r)
      OBVIOUS
    <3>5. Life(r) <= lives[req[r].obj]
      BY <1>1, <3>3, <3>4 DEF Local, Owned
    <3>6. \A e \in {"submitted", "announced"}, o \in Objects, l \in Nat :
            <<e, o, l>> \in log' => <<e, o, l>> \in log
                \/ (req[r].new /\ e = "announced" /\ o = req[r].obj /\ l = Life(r))
      BY <3>2 DEF Event
    <3>. QED BY <1>1, <2>1, <3>1, <3>3, <3>5, <3>6 DEF Keeps
  <2>. QED BY <2>2, <2>3
<1>. QED
  BY <1>3, <1>4, <1>5, <1>6, <1>7, <1>8, <1>9, <1>10, <1>11, <1>12, <1>13, <1>14, <1>15, <1>16,
     <1>17 DEF Step

LEMMA OnceStep ==
    Inductive /\ Inductive' /\ Once /\ [Next]_vars => Once'
<1> SUFFICES ASSUME Inductive, Inductive', Once, [Next]_vars PROVE Once'
  OBVIOUS
<1>1. CASE UNCHANGED vars
  BY <1>1 DEF vars, Once, Sole
<1>2. ASSUME NEW r \in Requests, Begin(r) \/ Break(r) \/ Step(r) PROVE Once'
  <2>1. CASE Insert(r) /\ Take(r, lives[req[r].at] + 1, TRUE)
    BY <2>1, OnceTaken DEF Insert, db
  <2>2. CASE ~(Insert(r) /\ Take(r, lives[req[r].at] + 1, TRUE))
    BY <1>2, <2>2, StepKeeps, OnceKept
  <2>. QED BY <2>1, <2>2
<1>. QED
  BY <1>1, <1>2 DEF Next

(* However many uploads of one content race with each other, with          *)
(* deletions and with failures, a row is handed to Karton by on_created at *)
(* most once and announced to the hooks as new at most once                *)
(* (mwdb/model/object.py _get_or_create, mwdb/resources/object.py).        *)
THEOREM NewOnce == Spec => NewOnlyOnce
<1>1. Init => Once
  BY DEF Init, Once, Sole, Idle
<1>2. Inductive /\ Once /\ [Next]_vars =>
        [\A r \in Requests :
            /\ Answer(r) /\ req[r].new => Event("announced", r) \notin log
            /\ Send(r) /\ req[r].new => Event("submitted", r) \notin log]_vars
  <2> SUFFICES ASSUME Inductive, Once, NEW r \in Requests
               PROVE  /\ Answer(r) /\ req[r].new => Event("announced", r) \notin log
                      /\ Send(r) /\ req[r].new => Event("submitted", r) \notin log
    OBVIOUS
  <2>1. TypeOK /\ Placed(r) /\ Sole(r)
    BY DEF Inductive, Local, Once
  <2>2. /\ <<req[r].obj, Life(r)>>[1] = req[r].obj
        /\ <<req[r].obj, Life(r)>>[2] = Life(r)
    OBVIOUS
  <2>3. CASE Answer(r) /\ req[r].new
    <3>1. <<req[r].obj, Life(r)>> \in req[r].used
      BY <2>1, <2>3, LifeUsed DEF Answer
    <3>. QED BY <2>1, <2>2, <2>3, <3>1 DEF Answer, Send, Sole, Event
  <2>4. CASE Send(r) /\ req[r].new
    <3>1. <<req[r].obj, Life(r)>> \in req[r].used
      BY <2>1, <2>4, LifeUsed DEF Send
    <3>. QED BY <2>1, <2>2, <2>4, <3>1 DEF Answer, Send, Sole, Event
  <2>. QED BY <2>3, <2>4
<1>. QED
  BY Initially, Stepwise, OnceStep, <1>1, <1>2, PTL DEF Spec, NewOnlyOnce

----------------------------------------------------------------------------
(* That a row without an analysis has a reason. Its upload has yet to hand *)
(* it to Karton, or to record that it has: on_created comes after the      *)
(* commit of create_object.                                                *)
Owes(r, o) ==
    /\ req[r].obj = o /\ req[r].new /\ req[r].pc \in {"created", "send", "record"}
    /\ <<o, row[o].life>> \in req[r].used

Excused(o) == \E e \in {"embedded", "aborted", "unlinked", "swept"} : Seen(e, o)

Owed ==
    \A o \in Objects : row[o].life # 0 =>
        Analysed(o) \/ Excused(o) \/ \E r \in Requests : Owes(r, o)

(* What a step of r does to an object must leave it with a reason.         *)
LEMMA OwedKept ==
    ASSUME Owed, NEW r \in Requests, \A s \in Requests \ {r} : req'[s] = req[s],
           log \subseteq log',
           \A o \in Objects : row'[o].life # 0 =>
               \/ (Analysed(o) \/ Excused(o) \/ Owes(r, o))'
               \/ /\ row'[o] = row[o]
                  /\ Analysed(o) => (Analysed(o) \/ Excused(o))'
                  /\ ~Owes(r, o)
    PROVE  Owed'
<1> SUFFICES ASSUME NEW o \in Objects, row'[o].life # 0, row'[o] = row[o], ~Owes(r, o),
                    Analysed(o) => (Analysed(o) \/ Excused(o))'
             PROVE  (Analysed(o) \/ Excused(o) \/ \E s \in Requests : Owes(s, o))'
  BY DEF Owed
<1>1. Excused(o) => Excused(o)'
  BY DEF Excused, Seen
<1>2. ASSUME NEW s \in Requests, Owes(s, o) PROVE Owes(s, o)'
  BY <1>2 DEF Owes
<1>. QED
  BY <1>1, <1>2 DEF Owed

(* Steps of a request that owes nothing, and leave the tables alone.       *)
LEMMA OwedStill ==
    ASSUME Owed, NEW r \in Requests, \A s \in Requests \ {r} : req'[s] = req[s],
           log \subseteq log', UNCHANGED <<row, analyses, assoc>>,
           req[r].pc \notin {"created", "send", "record"}
    PROVE  Owed'
<1>1. \A o \in Objects : row'[o] = row[o] /\ (Analysed(o) => Analysed(o)') /\ ~Owes(r, o)
  BY DEF Analysed, Owes
<1>. QED
  BY <1>1, OwedKept

(* A failure after the commit is the reason.                               *)
LEMMA OwedFailed ==
    ASSUME Inductive, Owed, NEW r \in Requests, Fail(r), UNCHANGED <<row, analyses, assoc>>
    PROVE  Owed'
<1>1. (\A s \in Requests \ {r} : req'[s] = req[s]) /\ log \subseteq log'
  BY DEF Fail, Finish
<1>2. ASSUME NEW o \in Objects, Owes(r, o) PROVE Excused(o)'
  <2>1. Local(r)
    BY DEF Inductive
  <2>2. req[r].held = {} /\ req[r].new /\ req[r].obj = o
    BY <1>2, <2>1 DEF Local, Owned, Owes
  <2>3. Life(r) = row[o].life
    <3>1. <<o, row[o].life>>[1] = o /\ <<o, row[o].life>>[2] = row[o].life
      OBVIOUS
    <3>. QED BY <1>2, <2>1, <2>2, <3>1, LifeIs DEF Local, Owes
  <2>4. <<"aborted", o, row'[o].life>> \in log'
    BY <2>2, <2>3 DEF Fail, Published, Event
  <2>. QED BY <2>4 DEF Excused, Seen
<1>3. \A o \in Objects : row'[o] = row[o] /\ (Analysed(o) => Analysed(o)')
  BY DEF Analysed
<1>. QED
  BY <1>1, <1>2, <1>3, OwedKept

(* What a commit publishes is its own, or came as an embedded blob.        *)
LEMMA OwedPublished ==
    ASSUME Inductive, Owed, NEW r \in Requests, Publish(r),
           req[r].pc \in {"link", "commit"},
           \A s \in Requests \ {r} : req'[s] = req[s],
           analyses \subseteq analyses', assoc \subseteq assoc',
           log \subseteq log', Embedded(r) \subseteq log',
           \A o \in Objects : o = req[r].obj /\ <<o, row'[o].life>> \in req[r].held =>
               (Analysed(o) \/ Owes(r, o))'
    PROVE  Owed'
<1>1. /\ \A h \in req[r].held : row'[h[1]].life = h[2] /\ h = <<h[1], h[2]>>
      /\ \A o \in Objects : row'[o] = row[o] \/ \E h \in req[r].held : h[1] = o
  <2>1. req[r].held \subseteq Rows
    BY DEF Inductive, TypeOK, Request
  <2>. QED BY <2>1, Publishes DEF Rows
<1>2. ASSUME NEW o \in Objects
      PROVE  \/ (Analysed(o) \/ Excused(o) \/ Owes(r, o))'
             \/ row'[o] = row[o] /\ (Analysed(o) => Analysed(o)') /\ ~Owes(r, o)
  <2>1. CASE row'[o] = row[o]
    BY <2>1 DEF Analysed, Owes
  <2>2. CASE row'[o] # row[o]
    <3>1. PICK h \in req[r].held : h[1] = o /\ h = <<o, row'[o].life>>
      BY <1>1, <2>2
    <3>2. CASE o = req[r].obj
      BY <3>1, <3>2
    <3>3. CASE o # req[r].obj
      <4>1. <<"embedded", o, row'[o].life>> \in log'
        BY <3>1, <3>3 DEF Embedded
      <4>. QED BY <4>1 DEF Excused, Seen
    <3>. QED BY <3>2, <3>3
  <2>. QED BY <2>1, <2>2
<1>. QED
  BY <1>2, OwedKept

(* What the requests are, for the steps that change one of them.           *)
LEMMA OnReq == Inductive => req \in [Requests -> Request]
  BY DEF Inductive, TypeOK

(* What is assigned to an analysis has one.                               *)
LEMMA OwedLink ==
    ASSUME Inductive, Owed, NEW r \in Requests, Link(r)
    PROVE  Owed'
<1>1. CASE Fail(r) /\ UNCHANGED db
  BY <1>1, OwedFailed DEF db
<1>2. CASE ~(Fail(r) /\ UNCHANGED db)
  <2>1. /\ req[r].pc = "link" /\ Publish(r) /\ analyses' = analyses \cup {req[r].kid}
        /\ assoc' = assoc \cup {<<req[r].kid, req[r].obj>>}
        /\ log \subseteq log' /\ Embedded(r) \subseteq log'
        /\ \A s \in Requests \ {r} : req'[s] = req[s]
    BY <1>1, <1>2, OnReq DEF Link
  <2>2. ASSUME NEW o \in Objects, o = req[r].obj PROVE Analysed(o)'
    <3>1. \E k \in analyses' : <<k, o>> \in assoc'
      BY <2>1, <2>2
    <3>. QED BY <3>1 DEF Analysed
  <2>. QED BY <2>1, <2>2, OwedPublished
<1>. QED
  BY <1>1, <1>2

(* What create_object commits is new, and its upload owes the rest.        *)
LEMMA OwedCommit ==
    ASSUME Inductive, Owed, NEW r \in Requests, Commit(r)
    PROVE  Owed'
<1>1. CASE Fail(r) /\ UNCHANGED <<row, lives>>
  BY <1>1, OwedFailed DEF Commit
<1>2. CASE ~(Fail(r) /\ UNCHANGED <<row, lives>>)
  <2>1. /\ req[r].pc = "commit" /\ Publish(r) /\ analyses' = analyses /\ assoc' = assoc
        /\ log \subseteq log' /\ Embedded(r) \subseteq log'
        /\ \A s \in Requests \ {r} : req'[s] = req[s]
        /\ req' = [req EXCEPT ![r].held = {},
                              ![r].pc = IF req[r].new THEN "created" ELSE "answer"]
    BY <1>2, OnReq DEF Commit
  <2>2. /\ TypeOK /\ Local(r) /\ req[r] \in Request
    BY DEF Inductive, TypeOK
  <2>3. /\ req'[r].obj = req[r].obj /\ req'[r].used = req[r].used /\ req'[r].new = req[r].new
        /\ req[r].new => req'[r].pc = "created"
    BY <2>1, <2>2 DEF TypeOK, Request
  <2>4. ASSUME NEW o \in Objects, o = req[r].obj, <<o, row'[o].life>> \in req[r].held
        PROVE  Owes(r, o)'
    <3>1. <<o, row'[o].life>>[1] = o
      OBVIOUS
    <3>2. req[r].new /\ <<o, row'[o].life>> \in req[r].used
      BY <2>2, <2>4, <3>1 DEF Local, Owned
    <3>. QED BY <2>3, <2>4, <3>2 DEF Owes
  <2>. QED BY <2>1, <2>4, OwedPublished
<1>. QED
  BY <1>1, <1>2

(* on_created is done with an object that has an analysis, or goes on.     *)
LEMMA OwedCreated ==
    ASSUME Inductive, Owed, NEW r \in Requests, Created(r) \/ Send(r)
    PROVE  Owed'
<1>1. UNCHANGED <<row, analyses, assoc>>
  BY DEF Created, Send, db
<1>2. CASE Fail(r)
  BY <1>1, <1>2, OwedFailed
<1>3. CASE ~Fail(r)
  <2>1. TypeOK /\ req[r] \in Request
    BY DEF Inductive, TypeOK
  <2>2. /\ \A s \in Requests \ {r} : req'[s] = req[s]
        /\ req'[r].obj = req[r].obj /\ req'[r].used = req[r].used /\ req'[r].new = req[r].new
        /\ req'[r].pc \in {"send", "record"} \/ Analysed(req[r].obj)
        /\ log \subseteq log'
    BY <1>3, <2>1 DEF Created, Send, Goto, TypeOK, Request
  <2>3. ASSUME NEW o \in Objects
        PROVE  /\ row'[o] = row[o] /\ (Analysed(o) => Analysed(o)')
               /\ Owes(r, o) => (Analysed(o) \/ Owes(r, o))'
    BY <1>1, <2>2 DEF Analysed, Owes
  <2>. QED BY <2>2, <2>3, OwedKept
<1>. QED
  BY <1>2, <1>3

(* The analysis that was sent is recorded, or the request fails.           *)
LEMMA OwedRecord ==
    ASSUME Inductive, Owed, NEW r \in Requests, Record(r)
    PROVE  Owed'
<1>1. CASE Fail(r) /\ UNCHANGED <<analyses, assoc>>
  BY <1>1, OwedFailed DEF Record
<1>2. CASE ~(Fail(r) /\ UNCHANGED <<analyses, assoc>>)
  <2>1. /\ analyses' = analyses \cup {req[r].kid} /\ row' = row
        /\ assoc' = assoc \cup {<<req[r].kid, req[r].obj>>} /\ log' = log
        /\ \A s \in Requests \ {r} : req'[s] = req[s]
    BY <1>2, OnReq DEF Record, Goto
  <2>2. ASSUME NEW o \in Objects
        PROVE  /\ row'[o] = row[o] /\ (Analysed(o) => Analysed(o)')
               /\ Owes(r, o) => Analysed(o)'
    BY <2>1 DEF Analysed, Owes
  <2>. QED BY <2>1, <2>2, OwedKept
<1>. QED
  BY <1>1, <1>2

(* A deleted object needs no reason, and the others keep their analyses.   *)
LEMMA OwedDeleteRow ==
    ASSUME Inductive, Owed, NEW r \in Requests, DeleteRow(r)
    PROVE  Owed'
<1>1. /\ req[r].pc = "delete" /\ analyses' = analyses /\ log' = log
      /\ \A s \in Requests \ {r} : req'[s] = req[s]
  BY OnReq DEF DeleteRow, Finish, Goto
<1>2. CASE UNCHANGED <<row, assoc>>
  BY <1>1, <1>2, OwedStill
<1>3. CASE /\ row' = [row EXCEPT ![req[r].obj] = NoRow]
           /\ assoc' = {a \in assoc : a[2] # req[r].obj}
  <2>1. ASSUME NEW o \in Objects, row'[o].life # 0
        PROVE  row'[o] = row[o] /\ (Analysed(o) => Analysed(o)') /\ ~Owes(r, o)
    <3>1. row \in [Objects -> [life : Nat, kind : Types \cup {"none"}]]
      BY DEF Inductive, TypeOK
    <3>2. o # req[r].obj /\ row'[o] = row[o]
      BY <1>3, <2>1, <3>1 DEF NoRow
    <3>3. Analysed(o) => Analysed(o)'
      BY <1>1, <1>3, <3>2 DEF Analysed
    <3>. QED BY <1>1, <3>2, <3>3 DEF Owes
  <2>. QED BY <1>1, <2>1, OwedKept
<1>. QED
  BY <1>2, <1>3 DEF DeleteRow

(* What loses its analysis is noted as the object the removal was asked    *)
(* for, or as one that was swept away with it.                             *)
LEMMA OwedDropAnalysis ==
    ASSUME Inductive, Owed, NEW r \in Requests, DropAnalysis(r)
    PROVE  Owed'
<1> DEFINE k == req[r].kid
           lost == {a \in assoc : a[1] = k /\ (req[r].flag \/ a[2] = req[r].obj)}
           event(a) == <<IF a[2] = req[r].obj THEN "unlinked" ELSE "swept", a[2], row[a[2]].life>>
<1>1. /\ req[r].pc = "drop" /\ assoc' = assoc \ lost /\ row' = row
      /\ analyses' = IF req[r].flag THEN analyses \ {k} ELSE analyses
      /\ log' = log \cup {event(a) : a \in lost}
      /\ \A s \in Requests \ {r} : req'[s] = req[s]
  BY DEF DropAnalysis, Goto
<1>2. ASSUME NEW o \in Objects, Analysed(o) PROVE (Analysed(o) \/ Excused(o))'
  <2>1. PICK j \in analyses : <<j, o>> \in assoc
    BY <1>2 DEF Analysed
  <2>2. CASE <<j, o>> \in lost
    <3>1. event(<<j, o>>) \in log'
      BY <1>1, <2>2
    <3>2. event(<<j, o>>) \in {<<"unlinked", o, row'[o].life>>, <<"swept", o, row'[o].life>>}
      BY <1>1
    <3>3. <<"unlinked", o, row'[o].life>> \in log' \/ <<"swept", o, row'[o].life>> \in log'
      BY <3>1, <3>2
    <3>. QED BY <3>3 DEF Excused, Seen
  <2>3. CASE <<j, o>> \notin lost
    <3>1. <<j, o>> \in assoc' /\ (req[r].flag => j # k)
      BY <1>1, <2>1, <2>3
    <3>2. j \in analyses'
      BY <1>1, <2>1, <3>1
    <3>. QED BY <3>1, <3>2 DEF Analysed
  <2>. QED BY <2>2, <2>3
<1> HIDE DEF event, lost
<1>3. \A o \in Objects : row'[o] = row[o] /\ ~Owes(r, o)
  BY <1>1 DEF Owes
<1>4. log \subseteq log'
  BY <1>1
<1>. QED
  BY <1>1, <1>2, <1>3, <1>4, OwedKept

(* Every step leaves every object with a reason.                           *)
LEMMA OwedStep ==
    Inductive /\ Owed /\ [Next]_vars => Owed'
<1> SUFFICES ASSUME Inductive, Owed, [Next]_vars PROVE Owed'
  OBVIOUS
<1>1. CASE UNCHANGED vars
  BY <1>1 DEF vars, Owed, Owes, Excused, Seen, Analysed
<1>2. ASSUME NEW r \in Requests, Begin(r) PROVE Owed'
  BY <1>2, OwedStill DEF Begin, db
<1>3. ASSUME NEW r \in Requests, Break(r) PROVE Owed'
  BY <1>3, OwedFailed DEF Break, db
<1>4. ASSUME NEW r \in Requests,
             LookupForUpload(r) \/ Insert(r) \/ LookupForRest(r) \/ ReadAnalysis(r)
      PROVE  Owed'
  <2>1. /\ UNCHANGED <<row, analyses, assoc, log>>
        /\ req[r].pc \in {"lookup", "insert", "assign"}
    BY <1>4 DEF LookupForUpload, Insert, LookupForRest, ReadAnalysis, db
  <2>2. \A s \in Requests \ {r} : req'[s] = req[s]
    BY <1>4, OnReq DEF LookupForUpload, Insert, LookupForRest, ReadAnalysis, Reuse, Take, Finish, Goto
  <2>. QED BY <2>1, <2>2, OwedStill
<1>5. ASSUME NEW r \in Requests, Store(r) \/ Unassign(r) PROVE Owed'
  <2>1. /\ UNCHANGED <<row, analyses, assoc, log>> /\ req[r].pc \in {"store", "unassign"}
        /\ \A s \in Requests \ {r} : req'[s] = req[s]
    BY <1>5, OnReq DEF Store, Unassign, Finish, Goto, db
  <2>. QED BY <2>1, OwedStill
<1>6. ASSUME NEW r \in Requests, Answer(r) PROVE Owed'
  <2>1. UNCHANGED <<row, analyses, assoc>> /\ req[r].pc = "answer"
    BY <1>6 DEF Answer, db
  <2>2. (\A s \in Requests \ {r} : req'[s] = req[s]) /\ log \subseteq log'
    BY <1>6, OnReq DEF Answer, Fail, Finish
  <2>. QED BY <2>1, <2>2, OwedStill
<1>7. ASSUME NEW r \in Requests, Step(r) PROVE Owed'
  BY <1>4, <1>5, <1>6, <1>7, OwedLink, OwedCommit, OwedCreated, OwedRecord, OwedDeleteRow,
     OwedDropAnalysis DEF Step
<1>. QED
  BY <1>1, <1>2, <1>3, <1>7 DEF Next

(* When nothing is being done to an object it has an analysis, or one of   *)
(* four things happened to this very row: it came embedded in a config,    *)
(* its creation failed after the commit, its analysis was removed, or the  *)
(* one it had just been given was taken for unused and deleted             *)
(* (mwdb/resources/object.py, mwdb/model/object.py remove_analysis).       *)
THEOREM ReasonsForNoAnalysis == Spec => []NeverAnalysedWhy
<1>1. Init => Owed
  BY DEF Init, Owed, NoRow
<1>2. Owed => NeverAnalysedWhy
  BY DEF Owed, NeverAnalysedWhy, Owes, Excused
<1>. QED
  BY Initially, Stepwise, OwedStep, <1>1, <1>2, PTL DEF Spec
================================================================================
