------------------------------- MODULE RemoteViews -------------------------------
(* The pages of a remote instance (RemoteAPI.tsx, RemoteViews.tsx, commons/api). They
   are the local pages under another address: APIContext gives them an api in which
   the functions that read an object have the local server ask the remote one. Any
   other function of the api asks the local instance itself, about the object that
   has the same identifier there; components that should not do so on a remote page
   look at api.remote.

   Of an instance is kept which objects it has, and which version of each; of a
   function whether it changes something, and where it goes. Capabilities are taken
   as given.                                                                        *)
EXTENDS Naturals, FiniteSets

CONSTANTS
    Local, Remotes,  \* the instances
    Hashes,          \* the objects
    MaxAsks,        \* bound: requests under way at a time
    MaxChanges       \* bound: the versions of an object

ASSUME RemotesAssumption ==
    /\ Local \notin Remotes
    /\ MaxAsks \in Nat \ {0} /\ MaxChanges \in Nat \ {0}

VARIABLES
    tried,  \* the function of the api the user tries
    place,  \* the page he is on: [at, of]
    held,   \* instance -> object -> its version, or 0 if it is not there
    asks,  \* requests under way: [from, of, to]
    seen    \* the answer on the page: the instance and the object it is of

remoteVars == <<tried, place, held, asks, seen>>

Instances == {Local} \cup Remotes
Places == [at : Instances, of : Hashes]
Unseen == [at |-> Local, of |-> "none"]

-------------------------------------------------------------------------------
(* The functions of the api. First those that read an object or lists of objects,
   and those that make, change or remove something that belongs to an object. The tabs
   of the plugins are on the page of a sample of any instance; they have functions of
   their own, which take the axios of the api and thereby ask the local instance. *)
ObjectReads ==
    {"getObject", "getObjectList", "getObjectCount", "getObjectTags",
     "getObjectComments", "getObjectRelations", "getObjectShares",
     "getObjectAttributes"}
HelpReads == {"getTags", "getAttributeDefinitions"}
FileReads == {"downloadFile", "requestFileDownloadLink", "requestZipFileDownloadLink"}
AnalysisReads == {"getKartonAnalysesList", "getKartonAnalysisStatus"}
ObjectChanges ==
    {"addObjectTag", "removeObjectTag", "addObjectComment", "removeObjectComment",
     "addObjectAttribute", "removeObjectAttribute", "addObjectFavorite",
     "removeObjectFavorite", "shareObjectWith", "enableSharing3rdParty"}
RelationChanges == {"addObjectRelation", "removeObjectRelation", "removeObject"}
AnalysisChanges == {"resubmitKartonAnalysis", "removeKartonAnalysisFromObject"}
Uploads == {"uploadFile", "uploadBlob", "uploadConfig"}
Transfers == {"pushObjectRemote", "pullObjectRemote"}
PluginReads == {"evalRegex"}
PluginChanges == {"deobfuscate"}

(* What the pages of the profile and of the settings ask for: there are none of a
   remote instance. *)
AccountCalls ==
    {"authLogin", "authRefresh", "authSetPassword", "authRequestPasswordChange",
     "authRecoverPassword", "authGroups", "oauthAuthenticate", "oauthCallback",
     "oauthRegisterProvider", "oauthGetProviders", "oauthGetSingleProvider",
     "oauthUpdateSingleProvider", "oauthRemoveSingleProvider", "oauthGetIdentities",
     "oauthGetLogoutLink", "apiKeyAdd", "apiKeyRemove"}
GroupCalls ==
    {"getGroups", "getGroup", "registerGroup", "updateGroup", "removeGroup",
     "addGroupMember", "removeGroupMember", "setGroupAdmin"}
UserCalls ==
    {"getUsers", "getPendingUsers", "acceptPendingUser", "rejectPendingUser", "getUser",
     "getUserProfile", "generateSetPasswordToken", "userRequestPasswordChange",
     "setUserDisabled", "createUser", "registerUser", "updateUser", "removeUser"}
DefinitionCalls ==
    {"getAttributeDefinition", "addAttributeDefinition", "updateAttributeDefinition",
     "removeAttributeDefinition", "getAttributePermissions", "setAttributePermission",
     "removeAttributePermission", "getConfigStats"}
QueryCalls == {"getQuickQueries", "addQuickQuery", "deleteQuickQuery"}

Changes == ObjectChanges \cup RelationChanges \cup AnalysisChanges \cup Uploads
              \cup PluginChanges
ShownReads == ObjectReads \cup HelpReads \cup FileReads \cup AnalysisReads \cup PluginReads
LocalPages == AccountCalls \cup GroupCalls \cup UserCalls \cup DefinitionCalls \cup QueryCalls
Functions == ShownReads \cup Changes \cup Transfers \cup LocalPages

(* remoteApi: the names that a remote page finds replaced. The link to a zipped file
   is not, although that was meant: it is given to a name nobody asks. Mutant: the
   shares are not replaced. *)
OverridesTooFew ==
    (ObjectReads \ {"getObjectShares"}) \cup {"downloadFile", "requestFileDownloadLink"}
Overrides == ObjectReads \cup (FileReads \ {"requestZipFileDownloadLink"})

(* api.remote in the components: what is not offered on a remote page (or not at
   all, on a local one). Nothing guards the tabs of the plugins. *)
Guarded ==
    {"addObjectTag", "addObjectComment", "removeObjectComment", "addObjectAttribute",
     "addObjectFavorite", "removeObjectFavorite", "shareObjectWith",
     "addObjectRelation", "removeObject", "pushObjectRemote"} \cup Uploads \cup {"getTags"}

OfferedAt(fn, at) ==
    IF at = Local THEN fn # "pullObjectRemote" ELSE fn \notin (Guarded \cup LocalPages)

(* Where a function goes, called on a page of an instance. *)
Target(fn, at) == IF fn \in Overrides THEN at ELSE Local

-------------------------------------------------------------------------------
RemoteInit ==
    /\ tried \in Functions
    /\ place \in Places
    /\ held \in [Instances -> [Hashes -> {0, 1}]]
    /\ asks = {}
    /\ seen = Unseen

(* To a page of another instance or object: it shows nothing yet, and answers to the
   one before are for nobody. *)
Visit(p) ==
    /\ p # place
    /\ place' = p
    /\ seen' = Unseen
    /\ asks' = IF tried \in ShownReads THEN {} ELSE asks
    /\ UNCHANGED <<tried, held>>

Ask ==
    /\ OfferedAt(tried, place.at)
    /\ Cardinality(asks) < MaxAsks
    /\ \E to \in IF tried = "pushObjectRemote" THEN Remotes ELSE {Target(tried, place.at)} :
          asks' = asks \cup {[from |-> place.at, of |-> place.of, to |-> to]}
    /\ UNCHANGED <<tried, place, held, seen>>

(* The instance does what it is asked for. It has no object of that identifier, or
   one: then that is read, changed, or removed. *)
Found(c) == held[c.to][c.of] > 0

Show(c) ==
    /\ tried \in ShownReads /\ Found(c)
    /\ seen' = [at |-> c.to, of |-> c.of]
    /\ UNCHANGED held

Change(c) ==
    /\ tried \in Changes /\ Found(c) /\ held[c.to][c.of] < MaxChanges
    /\ held' = [held EXCEPT ![c.to][c.of] = IF tried = "removeObject" THEN 0 ELSE @ + 1]
    /\ UNCHANGED seen

Upload(c) ==
    /\ tried \in Uploads /\ ~Found(c)
    /\ held' = [held EXCEPT ![c.to][c.of] = 1]
    /\ UNCHANGED seen

(* A pull or a push makes the object, or finds it. *)
Transfer(c) ==
    LET source == IF tried = "pullObjectRemote" THEN c.from ELSE Local
    IN  /\ tried \in Transfers /\ held[source][c.of] > 0
        /\ held' = [held EXCEPT ![c.to][c.of] = IF @ = 0 THEN 1 ELSE @]
        /\ UNCHANGED seen

Refused == UNCHANGED <<held, seen>>

Answered(c) ==
    /\ asks' = asks \ {c}
    /\ Show(c) \/ Change(c) \/ Upload(c) \/ Transfer(c) \/ Refused
    /\ UNCHANGED <<tried, place>>

RemoteNext ==
    \/ \E p \in Places : Visit(p)
    \/ Ask
    \/ \E c \in asks : Answered(c)

RemoteSpec == RemoteInit /\ [][RemoteNext]_remoteVars

-------------------------------------------------------------------------------
RemoteTypeOK ==
    /\ tried \in Functions
    /\ place \in Places
    /\ held \in [Instances -> [Hashes -> 0..MaxChanges]]
    /\ asks \subseteq [from : Instances, of : Hashes, to : Instances]
    /\ seen \in [at : Instances, of : Hashes \cup {"none"}]

(* What a page shows is of its instance, but for the analyses, the zipped file and the
   matches of a regular expression, which on a remote page are of the local object with
   the same hash, and for the tags and the definitions of attributes, which always are
   the local ones. *)
NotOfThePage ==
    HelpReads \cup AnalysisReads \cup PluginReads \cup {"requestZipFileDownloadLink"}

ShownOfItsInstance ==
    seen # Unseen /\ tried \notin NotOfThePage => seen = place

(* What docs/remotes-guide.rst says: the remote view is "limited to the read-only
   actions" (and the pull). The removal of a tag, an attribute or a relation, the
   switch of sharing with third parties, the analyses and the deobfuscation of a
   sample, which adds the result to the local one, do otherwise. *)
RemoteViewReadOnly ==
    [][\A c \in asks : held'[Local] # held[Local] /\ asks' = asks \ {c} =>
          c.from = Local \/ tried = "pullObjectRemote"]_remoteVars
================================================================================
