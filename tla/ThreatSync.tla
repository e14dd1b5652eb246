----------------------------- MODULE ThreatSync -----------------------------
(***************************************************************************)
(* The threat library plugin: threats and their linked samples in the      *)
(* database, the tag and attribute mirrored on every linked file, and the  *)
(* threatlib-sync process that keeps a git repository generated from them  *)
(* while people commit to the same repository by hand.                     *)
(*                                                                         *)
(* A run of the sync pulls the remote, absorbs what is new in it (every    *)
(* file in a transaction of its own), repairs the mirror, writes the tree  *)
(* and the manifest anew and pushes; the REST requests and the commits of  *)
(* other people come between any two of those steps, and a run may die     *)
(* anywhere. A file is its content: files with the same bytes are one      *)
(* object. README.md of a directory is a path like the others in the tree  *)
(* and in the manifest; in the database it is a column of the threat.      *)
(***************************************************************************)
EXTENDS Integers, Sequences, FiniteSets

CONSTANTS
    Paths,      \* the paths of the repository the sync owns
    Listing,    \* the same in the order in which ingest walks them
    Names, Categories, Rels,
    Readme,     \* the relative path README.md
    Contents,   \* what a file or a README may hold
    Empty,      \* the content of an empty file; its object_id is NULL
    None,       \* no threat, no README, no manifest
    Unfit,      \* the paths with a name that validation refuses
    InitTree,   \* the repository before the first run
    Rewrites,   \* whether people also change files that they did not add
    MaxCommits, MaxRequests, MaxFaults   \* how often each happens

Path == [category : Categories, threat : Names, rel : Rels, flat : BOOLEAN]
Object == Contents \cup {Empty}
Link == [threat : Names, rel : Rels, object : Object]
Row == [category : Categories, flat : BOOLEAN, readme : Object \cup {None}]
Tree == UNION {[S -> Object] : S \in SUBSET Paths}
Database == [threats : [Names -> Row \cup {None}], links : SUBSET Link, files : SUBSET Contents,
             tags : SUBSET (Contents \X Categories), names : SUBSET (Contents \X Names)]
Commit == [tree : Tree, manifest : Tree \cup {None}, stamp : {0, 1}]

ASSUME PathsAssumption ==
    /\ Paths \subseteq Path
    /\ Listing \in Seq(Paths) /\ {Listing[i] : i \in DOMAIN Listing} = Paths
    /\ \A p, q \in Paths :
          p.threat = q.threat /\ p.flat = q.flat => [p EXCEPT !.category = q.category] \in Paths
    /\ \A p \in Paths : ~p.flat => [p EXCEPT !.rel = Readme] \in Paths
    /\ Unfit \subseteq Paths
    /\ InitTree \in Tree
    /\ Empty \notin Contents /\ None \notin Names \cup Object \cup Row \cup Tree

VARIABLES
    db,         \* the threats, their links, the files and the mirror on them
    remote,     \* the head of the remote branch
    deleting,   \* the threat a DELETE request takes apart, the samples it has left
    pc,         \* where the run of the sync is
    base,       \* the commit the run pulled
    moved,      \* somebody pushed since
    todo,       \* what is left of the current phase
    preserved,  \* paths to write back as they were
    rows,       \* the threats as the export read them
    lost,       \* the ones of them that were deleted since
    out,        \* the tree written so far
    budget,     \* commits, requests and faults so far
    gone,       \* paths of links removed in MWDB after they were exported
    stored,     \* every content MWDB has ever held
    drifted     \* somebody changed the tags or attributes by hand

vars == <<db, remote, deleting, pc, base, moved, todo, preserved, rows, lost, out,
          budget, gone, stored, drifted>>
run == <<pc, base, moved, todo, preserved, rows, lost, out>>

Phases == {"idle", "ingest", "unlink", "repair", "export", "push"}
Nothing == [tree |-> <<>>, manifest |-> None, stamp |-> 0]
NoRows == [n \in Names |-> None]
NoDelete == [threat |-> None, left |-> {}]

IsReadme(p) == ~p.flat /\ p.rel = Readme

TypeOK ==
    /\ db \in Database
    /\ remote \in Commit /\ base \in Commit
    /\ deleting \in [threat : Names \cup {None}, left : SUBSET Rels]
    /\ pc \in Phases /\ moved \in BOOLEAN
    /\ todo \subseteq Paths \cup Contents \cup Names
    /\ preserved \subseteq Paths
    /\ rows \in [Names -> Row \cup {None}]
    /\ lost \subseteq Names
    /\ out \in Tree
    /\ gone \subseteq Paths /\ stored \subseteq Contents /\ drifted \in BOOLEAN

Init ==
    /\ db = [threats |-> NoRows, links |-> {}, files |-> {}, tags |-> {}, names |-> {}]
    /\ remote = [tree |-> InitTree, manifest |-> None, stamp |-> 0]
    /\ deleting = NoDelete
    /\ pc = "idle" /\ base = Nothing /\ moved = FALSE
    /\ todo = {} /\ preserved = {} /\ rows = NoRows /\ lost = {} /\ out = <<>>
    /\ budget = [commits |-> 0, requests |-> 0, faults |-> 0]
    /\ gone = {} /\ stored = {} /\ drifted = FALSE

(* Files written into a tree take the place of those that are there.       *)
Write(files, tree) ==
    [p \in DOMAIN files \cup DOMAIN tree |->
        IF p \in DOMAIN files THEN files[p] ELSE tree[p]]

-----------------------------------------------------------------------------
(* The service: every function takes the database and returns it changed.  *)

Exists(d, n) == d.threats[n] # None
LinksOf(d, n) == {l \in d.links : l.threat = n}
PathOf(r, l) == [category |-> r.category, threat |-> l.threat, rel |-> l.rel, flat |-> r.flat]
LinkPaths(d) == {PathOf(d.threats[l.threat], l) : l \in d.links}

(* links_for_object: the categories and names of the threats of a file. *)
LinksForObject(d, o) ==
    {<<d.threats[l.threat].category, l.threat>> : l \in {k \in d.links : k.object = o}}

ApplyMirror(d, o, category, n) ==
    IF o = Empty THEN d
    ELSE [d EXCEPT !.tags = @ \cup {<<o, category>>}, !.names = @ \cup {<<o, n>>}]

(* Mutant: the other threats of the file are forgotten. *)
RemoveMirrorBlind(d, o, category, n) ==
    [d EXCEPT !.tags = @ \ {<<o, category>>}, !.names = @ \ {<<o, n>>}]

RemoveMirror(d, o, category, n) ==
    LET remaining == LinksForObject(d, o)
    IN  [d EXCEPT
          !.tags = IF \E r \in remaining : r[1] = category THEN @ ELSE @ \ {<<o, category>>},
          !.names = IF \E r \in remaining : r[2] = n THEN @ ELSE @ \ {<<o, n>>}]

(* A flat threat holds one file of its own name, a directory any file but  *)
(* its README.                                                             *)
CheckLayout(d, n, rel) ==
    IF d.threats[n].flat
    THEN \E p \in Paths : p.flat /\ p.threat = n /\ p.rel = rel
    ELSE rel # Readme

CanLink(d, n, rel, o) ==
    LET there == {l \in LinksOf(d, n) : l.rel = rel}
    IN  /\ CheckLayout(d, n, rel)
        /\ \A l \in there : l.object = o
        /\ there = {} /\ d.threats[n].flat => LinksOf(d, n) = {}

LinkSample(d, n, rel, o) ==
    LET l == [threat |-> n, rel |-> rel, object |-> o]
    IN  IF l \in d.links THEN d
        ELSE ApplyMirror([d EXCEPT !.links = @ \cup {l}], o, d.threats[n].category, n)

Unlink(d, l) ==
    RemoveMirror([d EXCEPT !.links = @ \ {l}], l.object, d.threats[l.threat].category, l.threat)

SetCategory(d, n, category) ==
    LET old == d.threats[n].category
        e == [d EXCEPT !.threats[n].category = category]
        objects == {l.object : l \in LinksOf(d, n)} \ {Empty}
        stale == {o \in objects : \A r \in LinksForObject(e, o) : r[2] = n \/ r[1] # old}
    IN  IF category = old THEN d
        ELSE [e EXCEPT !.tags = (@ \cup objects \X {category}) \ (stale \X {old})]

SetReadme(d, n, readme) == [d EXCEPT !.threats[n].readme = readme]

CreateThreat(d, n, category, readme, flat) ==
    [d EXCEPT !.threats[n] = [category |-> category, flat |-> flat, readme |-> readme]]

StoreFile(d, o) == IF o = Empty THEN d ELSE [d EXCEPT !.files = @ \cup {o}]

(* A file goes with its links, tags and attributes (ON DELETE CASCADE). *)
DropFile(d, o) ==
    [d EXCEPT !.files = @ \ {o}, !.links = {l \in @ : l.object # o},
              !.tags = {t \in @ : t[1] # o}, !.names = {t \in @ : t[1] # o}]

-----------------------------------------------------------------------------
(* The REST requests. *)

Manifest == IF remote.manifest = None THEN {} ELSE DOMAIN remote.manifest

(* The history of what was removed in MWDB. *)
Written(d) ==
    /\ db' = d
    /\ gone' = (gone \cup (LinkPaths(db) \cap Manifest)) \ LinkPaths(d)
    /\ stored' = stored \cup d.files

Request ==
    /\ budget.requests < MaxRequests
    /\ budget' = [budget EXCEPT !.requests = @ + 1]

(* ThreatListResource.post.                                                *)
PostThreat(n, category, readme) ==
    /\ Request
    /\ ~Exists(db, n)
    /\ Written(CreateThreat(db, n, category, readme, FALSE))
    /\ UNCHANGED <<remote, deleting, run, drifted>>

(* ThreatResource.put: one transaction for both fields. *)
PutThreat(n, category, readme) ==
    /\ Request
    /\ Exists(db, n)
    /\ db.threats[n].flat => category = db.threats[n].category
    /\ Written(SetReadme(SetCategory(db, n, category), n, readme))
    /\ UNCHANGED <<remote, deleting, run, drifted>>

(* ThreatSampleListResource.post: the sample must be there. *)
PostSample(n, rel, o) ==
    /\ Request
    /\ Exists(db, n) /\ o \in db.files
    /\ CanLink(db, n, rel, o)
    /\ Written(LinkSample(db, n, rel, o))
    /\ UNCHANGED <<remote, deleting, run, drifted>>

(* ThreatUploadResource.post for one file: the threat is created if need   *)
(* be, the file is stored, linked, and a threat that was created for       *)
(* nothing is deleted again.                                               *)
PostUpload(n, category, readme, rel, o) ==
    LET fresh == ~Exists(db, n)
        made == IF fresh THEN CreateThreat(db, n, category, readme, FALSE) ELSE db
        kept == StoreFile(made, o)
    IN  /\ Request
        /\ made.threats[n].flat \/ rel # Readme
        /\ Written(IF CanLink(kept, n, rel, o) THEN LinkSample(kept, n, rel, o)
                   ELSE StoreFile(db, o))
        /\ UNCHANGED <<remote, deleting, run, drifted>>

(* ThreatSampleResource.delete: only links of files. *)
DeleteSample(l) ==
    /\ Request
    /\ l \in db.links /\ l.object # Empty
    /\ Written(Unlink(db, l))
    /\ UNCHANGED <<remote, deleting, run, drifted>>

(* ThreatResource.delete. delete_threat unlinks the samples it has loaded  *)
(* one after the other, and stripping the attribute of a file commits what *)
(* was done so far; a sample that somebody else unlinked ends the request. *)
(* What was linked meanwhile goes with the threat.                         *)
DeleteThreat(n) ==
    /\ Request
    /\ deleting = NoDelete
    /\ Exists(db, n)
    /\ deleting' = [threat |-> n, left |-> {l.rel : l \in LinksOf(db, n)}]
    /\ UNCHANGED <<db, remote, run, gone, stored, drifted>>

DeleteNextSample(rel) ==
    LET there == {l \in LinksOf(db, deleting.threat) : l.rel = rel}
    IN  /\ rel \in deleting.left
        /\ IF there = {} THEN deleting' = NoDelete /\ Written(db)
           ELSE /\ \E l \in there : Written(Unlink(db, l))
                /\ deleting' = [deleting EXCEPT !.left = @ \ {rel}]
        /\ UNCHANGED <<remote, run, budget, drifted>>

EndDelete ==
    LET n == deleting.threat
    IN  /\ n # None /\ deleting.left = {}
        /\ Written([db EXCEPT !.threats[n] = None, !.links = @ \ LinksOf(db, n)])
        /\ deleting' = NoDelete
        /\ lost' = IF rows[n] = None THEN lost ELSE lost \cup {n}
        /\ UNCHANGED <<remote, pc, base, moved, todo, preserved, rows, out, budget, drifted>>

DeleteNext == EndDelete \/ \E rel \in Rels : DeleteNextSample(rel)

(* The object itself is deleted from MWDB. *)
DeleteFile(o) ==
    /\ Request
    /\ o \in db.files
    /\ Written(DropFile(db, o))
    /\ UNCHANGED <<remote, deleting, run, drifted>>

(* Somebody edits the tags or attributes of a file, the mirror among them. *)
Drift(o, n) ==
    /\ Request
    /\ o \in db.files
    /\ \/ db' = [db EXCEPT !.tags = {t \in @ : t[1] # o}, !.names = @ \ {<<o, n>>}]
       \/ db' = [db EXCEPT !.names = @ \cup {<<o, n>>}]
    /\ drifted' = TRUE
    /\ UNCHANGED <<remote, deleting, run, gone, stored>>

-----------------------------------------------------------------------------
(* People committing to the repository. *)

Push(tree) ==
    /\ budget.commits < MaxCommits
    /\ budget' = [budget EXCEPT !.commits = @ + 1]
    /\ remote' = [remote EXCEPT !.tree = tree]
    /\ moved' = (pc # "idle")
    /\ UNCHANGED <<db, deleting, pc, base, todo, preserved, rows, lost, out, stored, drifted>>

CommitFile(p, o) ==
    /\ p \in DOMAIN remote.tree => o # remote.tree[p] /\ (IsReadme(p) \/ Rewrites)
    /\ Push(Write([q \in {p} |-> o], remote.tree))
    /\ gone' = gone \ {p}

CommitDeletion(p) ==
    /\ p \in DOMAIN remote.tree
    /\ Push([q \in DOMAIN remote.tree \ {p} |-> remote.tree[q]])
    /\ UNCHANGED gone

-----------------------------------------------------------------------------
(* One run of the sync. *)

At(phase) == pc = phase
Others == <<remote, deleting, gone, drifted>>
Stored == stored' = stored \cup db'.files

First(S) ==
    Listing[CHOOSE i \in DOMAIN Listing :
              Listing[i] \in S /\ \A j \in DOMAIN Listing : Listing[j] \in S => i <= j]

(* Mutant: a path is known when it is linked. *)
KnownLinked(p) == p \in LinkPaths(db)

Known(p) == base.manifest # None /\ p \in DOMAIN base.manifest
OldReadme(p) == IF Known(p) THEN base.manifest[p] ELSE None

Pull ==
    /\ At("idle")
    /\ pc' = "ingest"
    /\ base' = remote /\ moved' = FALSE
    /\ todo' = DOMAIN remote.tree
    /\ UNCHANGED <<db, Others, preserved, rows, lost, out, budget, stored>>

Fault ==
    /\ budget.faults < MaxFaults
    /\ budget' = [budget EXCEPT !.faults = @ + 1]

(* _get_or_create_threat refuses a name that exists in another place. *)
Refused(d, p) ==
    IF Exists(d, p.threat)
    THEN d.threats[p.threat].category # p.category \/ d.threats[p.threat].flat # p.flat
    ELSE p \in Unfit
WithThreat(d, p) ==
    IF Exists(d, p.threat) THEN d ELSE CreateThreat(d, p.threat, p.category, None, p.flat)

(* _ingest_sample: the file is stored and committed before the threat is   *)
(* looked for, so it stays when the link is refused.                       *)
IngestSample ==
    LET p == First(todo)
        o == base.tree[p]
        kept == StoreFile(db, o)
        ready == WithThreat(kept, p)
        fits == ~Refused(kept, p) /\ p \notin Unfit /\ CanLink(ready, p.threat, p.rel, o)
    IN  /\ At("ingest") /\ todo # {} /\ ~IsReadme(p)
        /\ todo' = todo \ {p}
        /\ \/ Known(p) /\ UNCHANGED <<db, preserved, budget>>
           \/ /\ ~Known(p) /\ fits
              /\ db' = LinkSample(ready, p.threat, p.rel, o)
              /\ UNCHANGED <<preserved, budget>>
           \/ /\ ~Known(p) /\ ~fits
              /\ db' = kept /\ preserved' = preserved \cup {p}
              /\ UNCHANGED budget
           \/ /\ ~Known(p) /\ Fault
              /\ db' \in {db, kept} /\ preserved' = preserved \cup {p}
        /\ Stored
        /\ UNCHANGED <<Others, pc, base, moved, rows, lost, out>>

(* _ingest_readme: the repository wins only if MWDB did not change it. *)
IngestReadme ==
    LET p == First(todo)
        text == base.tree[p]
        ready == WithThreat(db, p)
        current == ready.threats[p.threat].readme
    IN  /\ At("ingest") /\ todo # {} /\ IsReadme(p)
        /\ todo' = todo \ {p}
        /\ \/ text = OldReadme(p) /\ UNCHANGED <<db, preserved, budget>>
           \/ /\ text # OldReadme(p) /\ ~Refused(db, p)
              /\ db' = IF current \in {None, OldReadme(p)} THEN SetReadme(ready, p.threat, text)
                       ELSE ready
              /\ UNCHANGED <<preserved, budget>>
           \/ /\ text # OldReadme(p) /\ Refused(db, p)
              /\ preserved' = preserved \cup {p}
              /\ UNCHANGED <<db, budget>>
           \/ /\ text # OldReadme(p) /\ Fault
              /\ preserved' = preserved \cup {p}
              /\ UNCHANGED db
        /\ Stored
        /\ UNCHANGED <<Others, pc, base, moved, rows, lost, out>>

EndIngest ==
    /\ At("ingest") /\ todo = {}
    /\ pc' = "unlink"
    /\ todo' = (IF base.manifest = None THEN {} ELSE DOMAIN base.manifest) \ DOMAIN base.tree
    /\ UNCHANGED <<db, Others, base, moved, preserved, rows, lost, out, budget, stored>>

(* _unlink_deleted and _clear_deleted_readme: what the manifest has and    *)
(* the tree has not was deleted by somebody. An error is counted and the   *)
(* path forgotten.                                                         *)
UnlinkDeleted ==
    LET files == {p \in todo : ~IsReadme(p)}
        p == First(IF files # {} THEN files ELSE todo)
        linked == {l \in LinksOf(db, p.threat) : l.rel = p.rel}
    IN  /\ At("unlink") /\ todo # {}
        /\ todo' = todo \ {p}
        /\ \/ /\ IF IsReadme(p)
                 THEN db' = IF Exists(db, p.threat)
                               /\ db.threats[p.threat].readme = base.manifest[p]
                            THEN SetReadme(db, p.threat, None) ELSE db
                 ELSE IF linked = {} THEN UNCHANGED db
                 ELSE \E l \in linked : db' = Unlink(db, l)
              /\ UNCHANGED budget
           \/ Fault /\ UNCHANGED db
        /\ Stored
        /\ UNCHANGED <<Others, pc, base, moved, preserved, rows, lost, out>>

EndUnlink ==
    /\ At("unlink") /\ todo = {}
    /\ pc' = "repair"
    /\ todo' = {l.object : l \in db.links} \ {Empty}
    /\ UNCHANGED <<db, Others, base, moved, preserved, rows, lost, out, budget, stored>>

(* repair_mirror, one file. *)
RepairMirror(o) ==
    LET links == LinksForObject(db, o)
    IN  /\ At("repair") /\ o \in todo
        /\ todo' = todo \ {o}
        /\ db' = IF o \notin db.files THEN db
                 ELSE [db EXCEPT
                        !.tags = @ \cup {<<o, r[1]>> : r \in links},
                        !.names = {t \in @ : t[1] # o} \cup {<<o, r[2]>> : r \in links}]
        /\ Stored
        /\ UNCHANGED <<Others, pc, base, moved, preserved, rows, lost, out, budget>>

(* export reads the threats, clears the tree and goes on. *)
BeginExport ==
    /\ At("repair") /\ todo = {}
    /\ pc' = "export"
    /\ rows' = db.threats
    /\ todo' = {n \in Names : Exists(db, n)}
    /\ UNCHANGED <<db, Others, base, moved, preserved, lost, out, budget, stored>>

(* The files of a threat and its README. *)
ExportOf(r, n, links) ==
    Write([p \in {PathOf(r, l) : l \in links} |->
              (CHOOSE l \in links : PathOf(r, l) = p).object],
          [p \in IF r.flat \/ r.readme = None THEN {}
                 ELSE {PathOf(r, [threat |-> n, rel |-> Readme])} |-> r.readme])

(* The samples of a threat are loaded by its id when its turn comes: a     *)
(* threat that was deleted since has none, whoever has its name now.       *)
ExportThreat(n) ==
    /\ At("export") /\ n \in todo
    /\ todo' = todo \ {n}
    /\ out' = Write(ExportOf(rows[n], n, IF n \in lost THEN {} ELSE LinksOf(db, n)), out)
    /\ UNCHANGED <<db, Others, pc, base, moved, preserved, rows, lost, budget, stored>>

(* Mutant: the preserved paths are not written back. *)
RestoredNone(tree) == tree

(* _restore: the preserved paths, where the tables wrote nothing. *)
Restored(tree) == Write(tree, [p \in preserved |-> base.tree[p]])

(* Mutant: every export has a new time of its own. *)
StampFresh(manifest) == 1 - base.stamp

(* The manifest's time is kept when nothing else in it changed. *)
Stamp(manifest) == IF manifest = base.manifest THEN base.stamp ELSE 1 - base.stamp

EndRun ==
    /\ pc' = "idle" /\ base' = Nothing /\ moved' = FALSE /\ todo' = {}
    /\ preserved' = {} /\ rows' = NoRows /\ lost' = {} /\ out' = <<>>

EndExport ==
    /\ At("export") /\ todo = {}
    /\ pc' = "push"
    /\ UNCHANGED <<db, Others, base, moved, todo, preserved, rows, lost, out, budget, stored>>

(* commit_and_push: nothing when the tree is clean, a rejection when       *)
(* somebody pushed since the pull; the next run starts from the remote.    *)
CommitAndPush ==
    LET new == [tree |-> Restored(out), manifest |-> out, stamp |-> Stamp(out)]
    IN  /\ At("push")
        /\ remote' = IF new # base /\ ~moved THEN new ELSE remote
        /\ EndRun
        /\ UNCHANGED <<db, deleting, budget, gone, stored, drifted>>

(* The run dies, or an exception ends it; the next one starts over. *)
Crash ==
    /\ ~At("idle")
    /\ Fault
    /\ EndRun
    /\ UNCHANGED <<db, Others, stored>>

SyncStep ==
    \/ Pull \/ IngestSample \/ IngestReadme \/ EndIngest \/ UnlinkDeleted \/ EndUnlink
    \/ \E o \in Contents : RepairMirror(o)
    \/ BeginExport
    \/ \E n \in Names : ExportThreat(n)
    \/ EndExport \/ CommitAndPush

(* Requests only name paths of the instance. *)
RestStep ==
    \/ \E p \in {q \in Paths : ~q.flat}, readme \in Contents \cup {None} :
          PostThreat(p.threat, p.category, readme)
    \/ \E p \in Paths, readme \in Contents \cup {None} :
          /\ Exists(db, p.threat) /\ db.threats[p.threat].flat = p.flat
          /\ PutThreat(p.threat, p.category, readme)
    \/ \E p \in Paths, o \in Contents :
          /\ p.flat = (Exists(db, p.threat) /\ db.threats[p.threat].flat)
          /\ \/ PostSample(p.threat, p.rel, o)
             \/ PostUpload(p.threat, p.category, None, p.rel, o)
    \/ \E l \in db.links : DeleteSample(l)
    \/ \E n \in Names : DeleteThreat(n)
    \/ \E o \in Contents : DeleteFile(o)
    \/ \E o \in Contents, n \in Names : Drift(o, n)

HumanStep ==
    \/ \E p \in Paths, o \in Object : CommitFile(p, o)
    \/ \E p \in Paths : CommitDeletion(p)

Next == SyncStep \/ RestStep \/ DeleteNext \/ HumanStep \/ Crash

Spec == Init /\ [][Next]_vars /\ WF_vars(SyncStep) /\ WF_vars(DeleteNext)

-----------------------------------------------------------------------------
(* As long as nobody edits them by hand, a file has the tag and the        *)
(* attribute of every threat it is linked to: unlinking it from one threat *)
(* does not take what another one needs.                                   *)
MirrorCovers ==
    ~drifted => \A l \in db.links : l.object # Empty =>
                    /\ <<l.object, db.threats[l.threat].category>> \in db.tags
                    /\ <<l.object, l.threat>> \in db.names

(* ... and no others: "All writes to the threatlib tables, with the sample *)
(* mirror kept in step."                                                   *)
MirrorInStep ==
    ~drifted =>
        /\ db.tags = UNION {{<<o, r[1]>> : r \in LinksForObject(db, o)} : o \in Contents}
        /\ db.names = UNION {{<<o, r[2]>> : r \in LinksForObject(db, o)} : o \in Contents}

(* A sample deleted in MWDB after it was exported stays deleted, until it  *)
(* is linked or committed again: no run takes it from the repository.      *)
NoResurrection == LinkPaths(db) \cap gone = {}

(* A file somebody committed is taken out of the repository only when      *)
(* MWDB has held its content, whatever failed in between.                  *)
FilesNeverVanish ==
    [][At("push") /\ pc' = "idle" =>
        \A p \in DOMAIN remote.tree \ DOMAIN remote'.tree :
            IsReadme(p) \/ remote.tree[p] \in stored \cup {Empty}]_vars

(* The bot's commit never reverts what somebody committed: a file is       *)
(* absorbed into MWDB before its path gets another content.                *)
NeverReverted ==
    [][At("push") /\ pc' = "idle" =>
        \A p \in DOMAIN remote.tree :
            \/ IsReadme(p) \/ remote.tree[p] \in stored \cup {Empty}
            \/ p \in DOMAIN remote'.tree /\ remote'.tree[p] = remote.tree[p]]_vars

Export ==
    Write([p \in LinkPaths(db) |->
              (CHOOSE l \in db.links : PathOf(db.threats[l.threat], l) = p).object],
          [p \in {q \in Paths : /\ IsReadme(q) /\ Exists(db, q.threat)
                                   /\ ~db.threats[q.threat].flat
                                   /\ db.threats[q.threat].category = q.category
                                   /\ db.threats[q.threat].readme # None}
                |-> db.threats[p.threat].readme])

(* When people and requests leave it alone the repository comes to hold    *)
(* exactly what the tables say, and linked files their mirror again.       *)
InSync ==
    /\ remote.manifest = Export
    /\ \A p \in DOMAIN Export : p \in DOMAIN remote.tree /\ remote.tree[p] = Export[p]
    /\ \A o \in Contents : LinksForObject(db, o) # {} =>
         /\ {<<o, r[1]>> : r \in LinksForObject(db, o)} \subseteq db.tags
         /\ {<<o, r[2]>> : r \in LinksForObject(db, o)} = {t \in db.names : t[1] = o}
Converges == <>[]InSync

(* ... and the bot stops committing. *)
Quiet == <>[][remote' = remote]_vars

(* The tables of the plugin and the mirror on the files keep step.         *)
MirrorSound == TypeOK /\ MirrorCovers

(* Once nobody disturbs it, the sync comes to its end and has nothing to   *)
(* add.                                                                    *)
Settles == Converges /\ Quiet
=============================================================================
