-------------------------------- MODULE Uploads --------------------------------
(***************************************************************************)
(* The upload of files, configs and blobs as the get-or-create it is       *)
(* (mwdb/resources/object.py, mwdb/model/object.py, mwdb/model/file.py),   *)
(* with the storage the content of files goes to, the Karton analyses an   *)
(* upload starts or is part of (mwdb/model/karton.py,                      *)
(* mwdb/resources/karton.py), the deletion of objects, and the hooks that  *)
(* run when a request has succeeded.  Requests run at the same time, each  *)
(* in its own READ COMMITTED transaction; a step here is what happens      *)
(* between two statements that other requests can come between.            *)
(*                                                                         *)
(* An object is its content hash.  A row of it has a life, the number that *)
(* stands for the primary key: the same content uploaded again after a     *)
(* deletion is a new row.  Tags, attributes, shares and relations of the   *)
(* upload are written inside the same transaction and are left out here.   *)
(***************************************************************************)
EXTENDS Naturals, FiniteSets

CONSTANTS
    Objects,     \* content hashes
    Kinds,       \* [Objects -> set of types that content can be uploaded as]
    Embeds,      \* [Objects -> the blob a config embeds, or NoObject]
    NoObject,
    NoId,        \* no analysis is named
    Requests,    \* requests that can run at the same time
    MaxRequests, \* bound: requests in a behaviour
    MaxFaults    \* bound: storage errors, Karton errors and killed workers

Types == {"file", "config", "blob"}

ASSUME UploadsAssumption ==
    /\ MaxRequests \in Nat /\ MaxFaults \in Nat
    /\ NoObject \notin Objects /\ NoId \notin Nat
    /\ Kinds \in [Objects -> SUBSET Types]
    /\ Embeds \in [Objects -> Objects \cup {NoObject}]
    /\ \A o \in Objects : Embeds[o] # o

Ids      == Nat   \* analyses: 0 came from elsewhere, n is the n-th handed to Karton
Ops      == {"upload", "delete", "reanalyze", "assign", "unassign"}
Steps    == {"idle", "lookup", "insert", "assign", "link", "store", "commit", "created",
             "send", "record", "delete", "unassign", "drop", "answer"}
Events   == {"early", "embedded", "submitted", "announced", "aborted", "unlinked", "swept"}

VARIABLES
    row,       \* the committed row of each object
    lives,     \* the last life of each object that was committed
    stored,    \* objects with content in storage
    analyses,  \* committed rows of karton_analysis
    assoc,     \* committed rows of karton_object
    sent,      \* tasks handed to Karton so far
    req,       \* the state of each request
    begun,     \* requests begun so far
    faults,    \* faults so far
    log        \* what happened to each row, for the properties only

db   == <<row, lives, stored, analyses, assoc>>
vars == <<row, lives, stored, analyses, assoc, sent, req, begun, faults, log>>

NoRow == [life |-> 0, kind |-> "none"]
Idle  == [pc |-> "idle", op |-> "none", obj |-> NoObject, at |-> NoObject, kind |-> "none",
          kid |-> NoId, used |-> {}, held |-> {}, new |-> FALSE, flag |-> FALSE]

Rows    == Objects \X (Nat \ {0})   \* an object and a life of it
Request == [pc : Steps, op : Ops \cup {"none"},
            obj : Objects \cup {NoObject},   \* what the request is about
            at : Objects \cup {NoObject},    \* what it is looking for or inserting
            kind : Types \cup {"none"},
            kid : Ids \cup {NoId},           \* the analysis named, or sent
            used : SUBSET Rows,              \* the rows it works with
            held : SUBSET Rows,              \* those it has inserted and not committed
            new : BOOLEAN,                   \* is_new of _get_or_create
            flag : BOOLEAN]                  \* what was read of the analysis

TypeOK ==
    /\ row \in [Objects -> [life : Nat, kind : Types \cup {"none"}]]
    /\ lives \in [Objects -> Nat]
    /\ stored \subseteq Objects
    /\ analyses \subseteq Ids
    /\ assoc \subseteq analyses \X {o \in Objects : row[o].life # 0}
    /\ sent \in Nat /\ begun \in Nat /\ faults \in Nat
    /\ req \in [Requests -> Request]
    /\ log \subseteq Events \X Objects \X Nat

Init ==
    /\ row = [o \in Objects |-> NoRow]
    /\ lives = [o \in Objects |-> 0]
    /\ stored = {} /\ analyses = {} /\ assoc = {}
    /\ sent = 0 /\ begun = 0 /\ faults = 0 /\ log = {}
    /\ req = [r \in Requests |-> Idle]

----------------------------------------------------------------------------
\* The row of its object request r works on, and whether it is still there.
Life(r)      == (CHOOSE u \in req[r].used : u[1] = req[r].obj)[2]
Published(r) == <<req[r].obj, Life(r)>> \notin req[r].held
Gone(r)      == Published(r) /\ row[req[r].obj].life # Life(r)
Event(e, r)  == <<e, req[r].obj, Life(r)>>
Goto(r, pc)  == req' = [req EXCEPT ![r].pc = pc]
Analysed(o)  == \E k \in analyses : <<k, o>> \in assoc

\* Mutant: a failed request keeps its transaction open.
FinishKeepsLocks(r) ==
    req' = [req EXCEPT ![r] = [Idle EXCEPT !.used = req[r].used, !.held = req[r].held]]

\* The end of a request: its session is closed and what it did not commit rolled back.
Finish(r) == req' = [req EXCEPT ![r] = Idle]

\* An exception that no handler catches: 500, no hook runs.
Fail(r) ==
    /\ Finish(r)
    /\ log' = log \cup (IF req[r].new /\ Published(r) THEN {Event("aborted", r)} ELSE {})

----------------------------------------------------------------------------
\* A request arrives.  Analyses named by clients are ones that were handed to
\* Karton or come from elsewhere.
Begin(r) ==
    /\ req[r].pc = "idle" /\ begun < MaxRequests
    /\ begun' = begun + 1
    /\ \E op \in Ops, o \in Objects, k \in 0 .. sent \cup {NoId} :
        /\ op \in {"assign", "unassign"} => k # NoId
        /\ op \in {"delete", "reanalyze"} => k = NoId
        /\ \E kind \in IF op = "upload" THEN Kinds[o] ELSE {"none"} :
            req' = [req EXCEPT ![r] = [Idle EXCEPT
                        !.pc = "lookup", !.op = op, !.obj = o, !.kind = kind, !.kid = k,
                        !.at = IF kind = "config" /\ Embeds[o] # NoObject THEN Embeds[o] ELSE o]]
    /\ UNCHANGED <<db, sent, faults, log>>

\* Mutant: the test whether the file is new is the wrong way round.
AfterRowUnstored(r, new) ==
    CASE req[r].kid # NoId                -> "assign"
      [] req[r].kid = NoId /\ ~new /\ req[r].kind = "file" -> "store"
      [] OTHER                            -> "commit"

\* What follows once the row of the uploaded object is there.
AfterRow(r, new) ==
    CASE req[r].kid # NoId                -> "assign"
      [] req[r].kid = NoId /\ new /\ req[r].kind = "file" -> "store"
      [] OTHER                            -> "commit"

\* The request holds a row of the object it is at: it goes on with the config
\* that embeds the blob, or with the rest of the upload.
Take(r, l, new) ==
    LET q == [req[r] EXCEPT !.used = @ \cup {<<req[r].at, l>>},
                            !.held = IF new THEN @ \cup {<<req[r].at, l>>} ELSE @]
    IN  req' = [req EXCEPT ![r] =
                   IF q.at # q.obj THEN [q EXCEPT !.pc = "lookup", !.at = q.obj]
                                   ELSE [q EXCEPT !.pc = AfterRow(r, new), !.new = new]]

\* A row with this content is visible: it is used if it has the type, and
\* ObjectTypeConflictError is answered with 409 otherwise.
Reuse(r) ==
    LET o == req[r].at
        kind == IF o = req[r].obj THEN req[r].kind ELSE "blob"
    IN  /\ row[o].life # 0
        /\ IF row[o].kind = kind THEN Take(r, row[o].life, FALSE) ELSE Finish(r)

LookupForUpload(r) ==
    /\ req[r].pc = "lookup" /\ req[r].op = "upload"
    /\ \/ Reuse(r)
       \/ row[req[r].at].life = 0 /\ Goto(r, "insert")
    /\ UNCHANGED <<db, sent, begun, faults, log>>

\* Mutant: after IntegrityError the object still counts as new.
InsertKeepsNew(r) ==
    /\ req[r].pc = "insert"
    /\ \A q \in Requests \ {r} : \A h \in req[q].held : h[1] # req[r].at
    /\ IF row[req[r].at].life # 0 THEN Take(r, row[req[r].at].life, TRUE)
                                  ELSE Take(r, lives[req[r].at] + 1, TRUE)
    /\ UNCHANGED <<db, sent, begun, faults, log>>

\* INSERT in a savepoint: it waits for a transaction that has inserted the same
\* hash; if that one commits, IntegrityError is handled by looking again.
Insert(r) ==
    /\ req[r].pc = "insert"
    /\ \A q \in Requests \ {r} : \A h \in req[q].held : h[1] # req[r].at
    /\ \/ Reuse(r)
       \/ row[req[r].at].life = 0 /\ Take(r, lives[req[r].at] + 1, TRUE)
    /\ UNCHANGED <<db, sent, begun, faults, log>>

LookupForRest(r) ==
    LET o == req[r].obj
        step == CASE req[r].op = "reanalyze" -> "send" [] OTHER -> req[r].op
    IN  /\ req[r].pc = "lookup" /\ req[r].op # "upload"
        /\ IF row[o].life = 0
           THEN Finish(r)
           ELSE req' = [req EXCEPT ![r].pc = step, ![r].used = {<<o, row[o].life>>},
                                   ![r].kind = row[o].kind]
        /\ UNCHANGED <<db, sent, begun, faults, log>>

----------------------------------------------------------------------------
\* COMMIT of the rows the request has inserted.
Publish(r) ==
    LET held == req[r].held
        mine(o) == {h \in held : h[1] = o}
    IN  /\ row' = [o \in Objects |-> IF mine(o) = {} THEN row[o] ELSE
                      [life |-> (CHOOSE h \in mine(o) : TRUE)[2],
                       kind |-> IF o = req[r].obj THEN req[r].kind ELSE "blob"]]
        /\ lives' = [o \in Objects |-> IF mine(o) = {} THEN lives[o] ELSE row'[o].life]

\* The blobs a config brings along are created, but on_created is not called for them.
Embedded(r) == {<<"embedded", h[1], h[2]>> : h \in {h \in req[r].held : h[1] # req[r].obj}}

\* assign_analysis first looks whether the analysis exists ...
ReadAnalysis(r) ==
    /\ req[r].pc = "assign"
    /\ req' = [req EXCEPT ![r].pc = "link", ![r].flag = req[r].kid \in analyses]
    /\ UNCHANGED <<db, sent, begun, faults, log>>

\* ... then inserts what is missing and commits, whatever else the request has done.
\* An insert that conflicts looks again; one whose analysis or object has gone fails.
Link(r) ==
    LET k == req[r].kid
        next == CASE req[r].op = "assign" -> "answer"
                  [] req[r].op = "upload" /\ req[r].new /\ req[r].kind = "file" -> "store"
                  [] OTHER -> "commit"
    IN  /\ req[r].pc = "link"
        /\ IF Gone(r) \/ (req[r].flag /\ k \notin analyses)
           THEN Fail(r) /\ UNCHANGED db
           ELSE /\ Publish(r)
                /\ analyses' = analyses \cup {k}
                /\ assoc' = assoc \cup {<<k, req[r].obj>>}
                /\ req' = [req EXCEPT ![r].pc = next, ![r].held = {}]
                /\ log' = log \cup Embedded(r) \cup (IF Published(r) THEN {} ELSE {Event("early", r)})
                /\ UNCHANGED stored
        /\ UNCHANGED <<sent, begun, faults>>

\* The content of a new file is written to storage, nothing being committed yet
\* unless assign_analysis did.
Store(r) ==
    /\ req[r].pc = "store"
    /\ stored' = stored \cup {req[r].obj}
    /\ Goto(r, "commit")
    /\ UNCHANGED <<row, lives, analyses, assoc, sent, begun, faults, log>>

\* The commit of create_object; blobs found earlier are linked to their config here.
Commit(r) ==
    /\ req[r].pc = "commit"
    /\ IF \E u \in req[r].used \ req[r].held : row[u[1]].life # u[2]
       THEN Fail(r) /\ UNCHANGED <<row, lives>>
       ELSE /\ Publish(r)
            /\ log' = log \cup Embedded(r)
            /\ req' = [req EXCEPT ![r].held = {},
                                  ![r].pc = IF req[r].new THEN "created" ELSE "answer"]
    /\ UNCHANGED <<stored, analyses, assoc, sent, begun, faults>>

----------------------------------------------------------------------------
\* on_created: an object that has no analysis is handed to Karton.
Created(r) ==
    /\ req[r].pc = "created"
    /\ IF Gone(r) THEN Fail(r)
       ELSE /\ Goto(r, IF Analysed(req[r].obj) THEN "answer" ELSE "send")
            /\ UNCHANGED log
    /\ UNCHANGED <<db, sent, begun, faults>>

\* What keeps a request from sending: an uploaded object is read again after the
\* commit, and the content of a reanalysed file is read from storage.
Unreadable(r) ==
    \/ req[r].op = "upload" /\ Gone(r)
    \/ req[r].op = "reanalyze" /\ req[r].kind = "file" /\ req[r].obj \notin stored

\* The task goes out before anything is recorded.
Send(r) ==
    /\ req[r].pc = "send"
    /\ IF Unreadable(r)
       THEN Fail(r) /\ UNCHANGED sent
       ELSE /\ sent' = sent + 1
            /\ req' = [req EXCEPT ![r].pc = "record", ![r].kid = sent + 1]
            /\ log' = log \cup (IF req[r].new THEN {Event("submitted", r)} ELSE {})
    /\ UNCHANGED <<db, begun, faults>>

\* Mutant: the conflict is swallowed as in get_or_create, and the object is not linked.
RecordSwallowsConflict(r) ==
    LET k == req[r].kid
    IN  /\ req[r].pc = "record"
        /\ IF Gone(r) \/ k \in analyses
           THEN Goto(r, "answer") /\ UNCHANGED <<analyses, assoc, log>>
           ELSE /\ analyses' = analyses \cup {k}
                /\ assoc' = assoc \cup {<<k, req[r].obj>>}
                /\ Goto(r, "answer") /\ UNCHANGED log
        /\ UNCHANGED <<row, lives, stored, sent, begun, faults>>

\* The row of the analysis is inserted and committed.  Karton may have been faster:
\* a client that assigned this identifier first makes the insert fail.
Record(r) ==
    LET k == req[r].kid
    IN  /\ req[r].pc = "record"
        /\ IF Gone(r) \/ k \in analyses
           THEN Fail(r) /\ UNCHANGED <<analyses, assoc>>
           ELSE /\ analyses' = analyses \cup {k}
                /\ assoc' = assoc \cup {<<k, req[r].obj>>}
                /\ Goto(r, "answer") /\ UNCHANGED log
        /\ UNCHANGED <<row, lives, stored, sent, begun, faults>>

\* DELETE with its cascades.  The content stays in storage.  A row that another
\* request deleted is a warning to SQLAlchemy, or an error.
DeleteRow(r) ==
    LET o == req[r].obj
    IN  /\ req[r].pc = "delete"
        /\ IF Gone(r)
           THEN (Finish(r) \/ Goto(r, "answer")) /\ UNCHANGED <<row, assoc>>
           ELSE /\ row' = [row EXCEPT ![o] = NoRow]
                /\ assoc' = {a \in assoc : a[2] # o}
                /\ Goto(r, "answer")
        /\ UNCHANGED <<lives, stored, analyses, sent, begun, faults, log>>

\* remove_analysis: the association is deleted, and the request sees whether the
\* analysis has other objects; another deletion of the same row is waited for ...
Unassign(r) ==
    LET k == req[r].kid
        o == req[r].obj
    IN  /\ req[r].pc = "unassign"
        /\ \A q \in Requests : ~(req[q].pc = "drop" /\ req[q].kid = k /\ req[q].obj = o)
        /\ IF <<k, o>> \notin assoc
           THEN Finish(r)
           ELSE req' = [req EXCEPT ![r].pc = "drop",
                                   ![r].flag = \A a \in assoc : a[1] = k => a[2] = o]
        /\ UNCHANGED <<db, sent, begun, faults, log>>

\* ... and if it has none the analysis is deleted as well, with the associations that
\* were committed meanwhile.
DropAnalysis(r) ==
    LET k == req[r].kid
        lost == {a \in assoc : a[1] = k /\ (req[r].flag \/ a[2] = req[r].obj)}
    IN  /\ req[r].pc = "drop"
        /\ assoc' = assoc \ lost
        /\ analyses' = IF req[r].flag THEN analyses \ {k} ELSE analyses
        /\ log' = log \cup {<<IF a[2] = req[r].obj THEN "unlinked" ELSE "swept",
                              a[2], row[a[2]].life>> : a \in lost}
        /\ Goto(r, "answer")
        /\ UNCHANGED <<row, lives, stored, sent, begun, faults>>

\* The answer is built from the object, read again after the commit; then the
\* scheduled hooks run.
Answer(r) ==
    /\ req[r].pc = "answer"
    /\ IF req[r].op = "upload" /\ Gone(r) THEN Fail(r)
       ELSE /\ Finish(r)
            /\ log' = log \cup (IF req[r].new THEN {Event("announced", r)} ELSE {})
    /\ UNCHANGED <<db, sent, begun, faults>>

\* Storage or Karton is unavailable, or the worker is killed.
Break(r) ==
    /\ req[r].pc # "idle" /\ faults < MaxFaults
    /\ faults' = faults + 1
    /\ Fail(r)
    /\ UNCHANGED <<db, sent, begun>>

Step(r) ==
    \/ LookupForUpload(r) \/ LookupForRest(r) \/ Insert(r) \/ ReadAnalysis(r) \/ Link(r)
    \/ Store(r) \/ Commit(r) \/ Created(r) \/ Send(r) \/ Record(r)
    \/ DeleteRow(r) \/ Unassign(r) \/ DropAnalysis(r) \/ Answer(r)

Next == \E r \in Requests : Begin(r) \/ Step(r) \/ Break(r)

\* A request that has begun is executed: the server thread runs it to its end.
Spec == Init /\ [][Next]_vars /\ \A r \in Requests : WF_vars(Step(r))
----------------------------------------------------------------------------
Seen(e, o) == <<e, o, row[o].life>> \in log

\* The content of every file that can be found is in storage, whatever uploads,
\* deletions and failures went before, but for one case: an upload that belongs
\* to an analysis commits the row in assign_analysis, before it writes the content,
\* and until it has answered (for ever, if it fails) the row has no content.
ContentBehindRow ==
    \A o \in Objects : row[o].kind = "file" =>
        o \in stored \/ (Seen("early", o) /\ ~Seen("announced", o))

\* However many uploads of one content race, a row is handed to Karton by on_created
\* at most once and announced to the hooks as new at most once.
NewOnlyOnce ==
    [][\A r \in Requests :
        /\ Answer(r) /\ req[r].new => Event("announced", r) \notin log
        /\ Send(r) /\ req[r].new => Event("submitted", r) \notin log]_vars

\* When nothing is being done to an object, it has an analysis unless one of four
\* things happened to this very row: it came as a blob embedded in a config, the
\* request that created it failed after its commit (an upload repeated after the
\* error finds the row and does not count as new), its analysis was removed, or
\* the analysis it had just been assigned to was deleted by a removal that took it
\* for unused.
NeverAnalysedWhy ==
    \A o \in Objects :
        row[o].life # 0 /\ (\A r \in Requests : req[r].pc = "idle" \/ req[r].obj # o) =>
            Analysed(o) \/ \E e \in {"embedded", "aborted", "unlinked", "swept"} : Seen(e, o)

\* Every request ends, those included that wait for the inserts of others: when no
\* more requests come (their number is bounded here) all are answered at last.
AllAnswered == <>[](\A r \in Requests : req[r].pc = "idle")

(* The tables are well formed, and every file in them has its content in   *)
(* storage, but for the window ContentBehindRow names.                     *)
TablesSound == TypeOK /\ ContentBehindRow
================================================================================
