------------------------------ MODULE RemoteTransfers ------------------------------
(* Pulls from and pushes to a remote instance (mwdb/resources/remotes.py). A config may
   embed blobs: a pull looks for each of them here and fetches those it does not find;
   a push sends the blobs along. Meanwhile others pull and push, upload and remove, here
   and there, each in its own READ COMMITTED transaction.

   Of an object is kept the type it is stored as, at each instance. The same content may
   be a file at one and a blob at another: the hash is the same. What a request has
   inserted but not committed is seen by nobody, but whoever inserts it too has to wait;
   what it has only found can be removed.                                           *)
CONSTANTS
    Home, Peers,  \* the instance whose server runs the requests, and the remote ones
    Contents,     \* contents of files and blobs
    Configs,
    Types,        \* content -> the types it is uploaded as
    Embeds,       \* config -> the contents it embeds as blobs
    Workers       \* bound: the requests that run at the same time

ASSUME TransfersAssumption ==
    /\ Home \notin Peers
    /\ Contents \cap Configs = {}
    /\ Types \in [Contents -> SUBSET {"file", "blob"}]
    /\ Embeds \in [Configs -> SUBSET Contents]

VARIABLES
    rows,  \* instance -> object -> the type it is stored as, or "none"; committed
    jobs   \* the pulls and pushes that run

transferVars == <<rows, jobs>>

Sites == {Home} \cup Peers
Stored == Contents \cup Configs
TypesOf(o) == IF o \in Configs THEN {"config"} ELSE Types[o]
InBlobs(o) == IF o \in Configs THEN Embeds[o] ELSE {}

(* todo, found, made: the embedded blobs that are still to be looked up, those found
   here (or read, by a push) and those inserted; lost: one of the found has been
   removed. *)
Jobs == [by : Workers, way : {"pull", "push"}, at : Peers, of : Stored,
         kind : {"file", "blob", "config"},
         todo : SUBSET Contents, found : SUBSET Contents, made : SUBSET Contents,
         lost : BOOLEAN]

NewJob(w, way, r, o, kind) ==
    [by |-> w, way |-> way, at |-> r, of |-> o, kind |-> kind,
     todo |-> InBlobs(o), found |-> {}, made |-> {}, lost |-> FALSE]

Unemployed(w) == \A j \in jobs : j.by # w
Becomes(j, k) == jobs' = (jobs \ {j}) \cup {k}

-------------------------------------------------------------------------------
(* TextBlob.access: a blob of that content. Mutant: an object of any type will do. *)
ObjectAccess(b) == rows[Home][b] # "none"
TextBlobAccess(b) == rows[Home][b] = "blob"

(* get_or_create: whoever has inserted the same must have ended, and the object must
   not be there as another type. *)
Agrees(i, o, kind) == rows[i][o] \in {"none", kind}
Reserved(o, others) == \E j \in others : o \in j.made

(* One transaction: the object and the blobs that come with it. *)
Commit(i, objects, kind, blobs) ==
    rows' = [rows EXCEPT ![i] = [o \in Stored |-> IF o \in objects THEN kind
                                                  ELSE IF o \in blobs THEN "blob"
                                                  ELSE rows[i][o]]]

-------------------------------------------------------------------------------
TransferInit ==
    /\ rows = [i \in Sites |-> [o \in Stored |-> "none"]]
    /\ jobs = {}

(* The remote instance has the object and tells what it is made of. *)
StartPull(w) ==
    /\ Unemployed(w)
    /\ \E r \in Peers, o \in Stored : \E kind \in TypesOf(o) :
          /\ rows[r][o] = kind
          /\ jobs' = jobs \cup {NewJob(w, "pull", r, o, kind)}
    /\ UNCHANGED rows

(* An embedded blob is here. If the user only sees it because he shares what he asks
   for, access grants it and commits, and with it what the request has inserted. *)
FindBlob(j, b) ==
    /\ j.way = "pull" /\ b \in j.todo /\ TextBlobAccess(b)
    /\ \/ /\ Becomes(j, [j EXCEPT !.todo = @ \ {b}, !.found = @ \cup {b}])
          /\ UNCHANGED rows
       \/ /\ Becomes(j, [j EXCEPT !.todo = @ \ {b}, !.found = @ \cup {b} \cup j.made,
                                  !.made = {}])
          /\ Commit(Home, {}, "blob", j.made)

(* It is not, or the user may not see it: it is fetched, and inserted or found. *)
PullBlob(j, b) ==
    /\ j.way = "pull" /\ b \in j.todo
    /\ rows[j.at][b] = "blob"
    /\ Agrees(Home, b, "blob") /\ ~Reserved(b, jobs \ {j})
    /\ IF rows[Home][b] = "blob"
       THEN Becomes(j, [j EXCEPT !.todo = @ \ {b}, !.found = @ \cup {b}])
       ELSE Becomes(j, [j EXCEPT !.todo = @ \ {b}, !.made = @ \cup {b}])
    /\ UNCHANGED rows

(* The object itself, the blobs as its children (which fails for one that has been
   removed) and the commit. *)
EndPull(j) ==
    /\ j.way = "pull" /\ j.todo = {} /\ ~j.lost
    /\ Agrees(Home, j.of, j.kind) /\ ~Reserved(j.of, jobs \ {j})
    /\ Commit(Home, {j.of}, j.kind, j.made)
    /\ jobs' = jobs \ {j}

StartPush(w) ==
    /\ Unemployed(w)
    /\ \E r \in Peers, o \in Stored : \E kind \in TypesOf(o) :
          /\ rows[Home][o] = kind
          /\ jobs' = jobs \cup {NewJob(w, "push", r, o, kind)}
    /\ UNCHANGED rows

ReadBlob(j, b) ==
    /\ j.way = "push" /\ b \in j.todo /\ TextBlobAccess(b)
    /\ Becomes(j, [j EXCEPT !.todo = @ \ {b}, !.found = @ \cup {b}])
    /\ UNCHANGED rows

(* What has been read is sent in one request: an upload at the remote instance. *)
EndPush(j) ==
    /\ j.way = "push" /\ j.todo = {}
    /\ Agrees(j.at, j.of, j.kind) /\ \A b \in j.found : Agrees(j.at, b, "blob")
    /\ Commit(j.at, {j.of}, j.kind, j.found)
    /\ jobs' = jobs \ {j}

(* No access, another type, no answer, a removed blob, a deadlock: nothing that is not
   committed stays. *)
GiveUp(j) == jobs' = jobs \ {j} /\ UNCHANGED rows

-------------------------------------------------------------------------------
(* The users of the instances: an upload, of a config with the blobs it embeds or refers
   to, and the removal of an object. An upload of what is there changes nothing. *)
UserUploads(i, o, kind) ==
    /\ kind \in TypesOf(o) /\ Agrees(i, o, kind)
    /\ \E x \in {o} \cup InBlobs(o) : rows[i][x] = "none"
    /\ \A b \in InBlobs(o) : Agrees(i, b, "blob")
    /\ i = Home => \A x \in {o} \cup InBlobs(o) : ~Reserved(x, jobs)
    /\ Commit(i, {o}, kind, InBlobs(o))
    /\ UNCHANGED jobs

Loses(j, i, o) == i = Home /\ j.way = "pull" /\ o \in j.found

UserRemoves(i, o) ==
    /\ rows[i][o] # "none"
    /\ Commit(i, {o}, "none", {})
    /\ jobs' = {[j EXCEPT !.lost = @ \/ Loses(j, i, o)] : j \in jobs}

TransferNext ==
    \/ \E w \in Workers : StartPull(w) \/ StartPush(w)
    \/ \E j \in jobs, b \in Contents : FindBlob(j, b) \/ PullBlob(j, b) \/ ReadBlob(j, b)
    \/ \E j \in jobs : EndPull(j) \/ EndPush(j) \/ GiveUp(j)
    \/ \E i \in Sites, o \in Stored :
          \/ UserRemoves(i, o)
          \/ \E kind \in {"file", "blob", "config"} : UserUploads(i, o, kind)

TransferSpec == TransferInit /\ [][TransferNext]_transferVars

-------------------------------------------------------------------------------
TransferTypeOK ==
    /\ rows \in [Sites -> [Stored -> {"none", "file", "blob", "config"}]]
    /\ jobs \subseteq Jobs

(* A config never comes to an instance without the blobs it embeds, as blobs: whatever
   is removed, uploaded, pulled and pushed while they are looked up one by one, and
   whatever an access in between commits. *)
ArrivesWhole ==
    [][\A i \in Sites, c \in Configs :
          rows[i][c] = "none" /\ rows'[i][c] # "none"
             => \A b \in Embeds[c] : rows'[i][b] = "blob"]_transferVars
================================================================================
