# TLA+ specifications of MWDB

This directory holds a formal model of MWDB: of its backend (`mwdb/`), of its web
client (`mwdb/web`), and of the plugins that are deployed with it
(`docker/plugins`), above all the threat library. The modules are checked with TLC on
small instances, and their most important properties are proved with TLAPS for
instances of any size. `PROJECT.json` maps every definition to the lines it models and
lists the runs, the theorems and the hazards of the code.

Contents: [the system](#1-the-system) · [the plan](#2-the-plan) ·
[the modules](#3-the-modules-and-the-code) · [the runs](#4-the-runs) ·
[fairness](#5-fairness) · [the proofs](#6-the-proofs) ·
[what the models found](#7-what-the-models-found) ·
[what is not modelled](#8-what-is-not-modelled) ·
[how to run](#9-how-to-run)

---

## 1. The system

MWDB is a repository of malware samples. A Flask application serves a REST API;
its state is in PostgreSQL (through SQLAlchemy), the content of files in an object
store or on disk, counters in Redis. Many worker threads and processes run
requests at the same time. There is **no lock in the application**: each request
is a database transaction (sometimes several) at READ COMMITTED, and correctness
under concurrency rests on unique constraints, on savepoints around inserts and on
"look, insert, look again" loops.

The web client is a React application in TypeScript. It has one thread, but its state
is spread over components that each fetch for themselves: **an answer arrives whenever
it arrives**, at a component that may have been given another subject by then, been
asked again, or be gone; and several tabs of a browser share one session in the local
storage. These two, transactions without locks and answers without an order, are where
most of the hard behaviour is.

### 1.1 Inventory: the backend

| component | state | operations | talks to |
|---|---|---|---|
| **Objects, permissions, relations** `model/object.py`, `model/object_permission.py`, `resources/share.py`, `resources/relations.py` | tables `object`, `relation`, `permission` (group, object, reason, related object and user) | `access`, `give_access`, `share_with`, `add_parent`, `remove_parent`, `uninherit_share`, object deletion with its cascades | groups and capabilities of users; every upload |
| **Upload, deletion** `resources/object.py`, `file.py`, `config.py`, `blob.py` and their models | tables `object`, `file`, `static_config`, `text_blob` | `_get_or_create` by content hash, embedding of blobs in configs, `create_object`, delete | storage, Karton, hooks, permissions |
| **File storage and download** `model/file.py`, `resources/download.py` | objects in S3 or on disk by hash | write before the commit, read by streaming or by range, download tokens | uploads, Karton (content is read when a task is sent) |
| **Karton analyses** `model/karton.py`, `resources/karton.py`, `core/karton.py` | tables `karton_analysis`, `karton_object` | `spawn_analysis`, `assign_analysis`, `remove_analysis` | Karton (external), uploads |
| **Hooks** `core/hooks.py`, `app.py` | the hooks a request has scheduled | schedule, run after a successful answer | plugins, Karton |
| **Users, groups** `model/user.py`, `model/group.py`, `resources/user.py`, `resources/group.py` | tables `user`, `group`, `member` | create, register, accept, reject, disable, delete, membership, default groups | permissions (private groups), OpenID |
| **Sessions, passwords** `resources/auth.py`, `core/auth.py` | `password_ver`, `identity_ver` in `user`; tokens are signed, not stored | login, set-password links, verification of a token | users |
| **OpenID Connect** `resources/oauth.py`, `model/oauth.py` | tables `openid_provider`, `openid_identity`, the provider's group | authorize, register, bind, unbind, group synchronisation | the provider (external), users and groups |
| **API keys** | table `api_key` | create, delete | sessions |
| **Attributes, tags, comments** | tables `attribute`, `attribute_definition`, `attribute_permission`, `tag`, `object_tag_table`, `comment` | get-or-create, definitions, permissions, cascades | uploads, hooks |
| **Remotes, rate limit, metrics, search, quick queries** | Redis counters; single rows | proxy, push and pull; counting in windows; query translation | uploads |
| **Threat library** `docker/plugins/threatlib` | tables `threatlib_threat`, `threatlib_sample`; a tag and an attribute mirrored on every linked file; a git repository with a manifest | REST requests of curators; `threatlib-sync` (pull, ingest, repair, export, commit and push) | files, attributes, people who commit to the repository |
| **PHP deobfuscation, YARA-X, normalisation** | none of their own | send a file, upload a child | uploads, hooks; each of the first two has a tab in the web client |

### 1.2 Inventory: the web client

| component | state | operations | talks to |
|---|---|---|---|
| **Sessions and login** `commons/auth/provider.tsx`, `AppRoutes.tsx`, `commons/ui/RequiresAuth.tsx`, `RequiresCapability.tsx`, `Views/OAuth*`, `UserLoginView` | the session in the local storage; in each tab a copy without the token and the header of its requests; in the session storage what a tab wanted from a provider | log in, refresh (each minute and on 403), log out (also on 401), storage events, redirects of guarded routes, exchange of the code of a provider | other tabs, the server, the provider |
| **Search and suggestions** `RecentView/common` (`luceneLexer.ts`, `QueryInput.tsx`, `useQuerySuggestions.ts`) | the text, the lexer's modes and brackets, the promise of the attribute definitions | annotate a query, find the field being typed, suggest names, apply a suggestion | the lists |
| **Lists of recent objects** `RecentView` | pages, two counters, the count, the query in the address | change the query, scroll, retry | search |
| **Pages of objects** `ShowObject` and its boxes, `SamplePreview`, tabs | the object and its parts, each fetched by its box; page numbers; preview | load, poll analyses, all buttons that change something | sessions, lists, plugins |
| **Profile and settings** `Profile`, `Settings` | the entity of the page, lists by pages | forms, removals, memberships | sessions |
| **Forms for new things** `Upload`, `ConfigUpload`, `AttributeDefine`, … | what has been typed | submit, redirect | pages |
| **Relations plot** `Views/RelationsPlotView.tsx`, `DagreD3Plot.tsx` | the graph, its expanded nodes, the same in the address | click, answer, draw | pages of objects |
| **Remote instances** `Remote` | an API context that replaces part of the API | every function of a page; pull, push | remote instances through the local one |
| **Rich attributes** `RichAttribute` | the contexts of a template and the paths they have looked up | sections, tags, lambdas, search links | search |
| **Plugin tabs** `docker/plugins/phpdeobf/components`, `yarax_regex/components` | the state of a run; the expression, its timer, its matches | run, type, change the sample, leave | the plugins' endpoints |
| **Application, widgets** `commons/ui`, `commons/config`, `App.tsx` | configuration of the server, toasts | render | all of them |

### 1.3 What makes each component correct, and what is hard

* **Sharing.** Access to a parent implies access to its children, at all times:
  `give_access` stops at every object the group already sees, so one gap hides a
  whole subtree from later shares. Removing a relation takes away what was
  inherited along it and nothing else. Hard: the recursive walk with one visited
  set over diamonds and cycles; a conflicting insert that rolls back the request's
  whole transaction; walks of several requests over the same objects; inserts that
  wait for each other in a circle.
* **Uploads and analyses.** However many uploads of one content race, one row is
  made; it counts as new for one of them; its content is in storage; it gets its
  analysis; nobody waits for ever. Hard: the row, the content, the analysis and the
  task at Karton are written in four steps by two commits, anything may fail
  between them, and the next upload is no longer "new".
* **Accounts.** Every account has its private group and is in it; an ended session
  stays ended whoever gets the login later; the synchronisation with a provider
  changes the groups it may. Hard: requests that check first and write in a later
  transaction, and names that are used again.
* **Threat library.** The mirror on files, the tables and the repository are three
  copies of one fact, kept in step by a process that may die anywhere while users
  and teammates change two of the copies.
* **Sessions in the browser.** No two tabs act as two users once told of each other; a
  tab shows the user whose token it sends. Hard: interceptors that see the session of the
  first rendering, refreshes whose answer crosses a login in another tab, storage events
  that come between a request and its answer.
* **Views.** What is shown is of the subject of the page, all of it, and once; buttons
  come back; what the user has just changed is shown changed. Hard: answers for an earlier
  subject, a reload that answers before the change, counters kept beside the data they
  count, a busy flag set anew by every handler, a page number that outlives its list.
* **Search bar.** Three tables describe one language and have to agree at every prefix of a
  query; suggestions are functions on the text they were made for.
* **Remote pages.** They are the local pages with some functions replaced: each function not
  thought of acts on another instance than the one shown.
* **Pulls and pushes.** What comes to an instance comes whole. Hard: the blobs of a config are
  looked up and fetched one by one while others remove them, upload them as another type, or
  insert them too; and a look-up may commit.

The hazards of `PROJECT.json` name the lines where each of these bites; every
property below is aimed at some of them.

---

## 2. The plan

| # | module | state |
|---|---|---|
| 1 | `Sharing` (requests one at a time), `SharingProofs`, `UninheritSteps` and `UninheritWalk` (the recursion of a removal, call by call and as a function, against its description) | done |
| 2 | `SharingTx`, `SharingTxProofs` (shares and links as concurrent transactions) | done; removal of a relation as a concurrent transaction is open |
| 3 | `ThreatSync`, `ThreatSyncProofs` (plugin, sync process, git) | done |
| 4 | `Accounts`, `AccountsProofs` (users, groups, sessions, OpenID) | done |
| 5 | `Uploads`, `UploadsProofs` (upload, storage, Karton, hooks, deletion) | done |
| 6 | `WebSession`, `LoginFlow`, `WebLoginProofs` (who is logged in, and where the user is sent) | done |
| 7 | `QueryLexer`, `QuerySuggestions`, `RecentList` (search) | done |
| 8 | `ObjectData`, `EntityPage` with `PageHandlers` and `EntityPageProofs`, `PagedLists`, `PageFetches`, `RelationsPlot` (pages) | done |
| 9 | `RemoteViews`, `RemoteTransfers`, `TemplatePaths`, `PluginTabs` (remote pages, pulls and pushes, rich attributes, plugins); `WebViewsProofs` for these and the parts of 7 and 8 | done |
| 10 | `Metadata` (attribute definitions and values, tags, comments, their permissions and cascades against deletion) | open |
| 11 | `Downloads` (ranges and hash pathing as pure operators, tokens), `RateLimit` (counters by window) | open |
| 12 | configs with several embedded blobs inserted in any order (deadlock), normalisation hook and deobfuscation child, numeric ranges of the search language | open |

Abstract specifications: `LatestAnswer` is what a part of a page promises that shows
something about a changing subject; `QuerySuggestions` is shown to implement it. Worth
stating later: what a *get-or-create store* promises (one row per key, new once), for
`Uploads` and `Metadata` to implement; `Sharing` itself as what `SharingTx` would
implement if requests were serialisable. The run `tx_lost` shows where they are not, so
that refinement could only be claimed for requests without a conflict.

Proofs: every safety property of the runs is proved but `SameOutcomes`. What is left of it, that
every described outcome is reached by some order of the relations, would need a prover for
induction over the recursion.

---

## 3. The modules and the code

Every module is parameterised by `CONSTANTS`; an `MC…` module (where the values need
definitions) or a `.cfg` gives them values for TLC. Operators named in the comments as
*mutants* are wrong versions of a definition and are not used by any specification:
replacing the definition by its mutant makes the property named in `PROJECT.json` fail,
which shows that the property depends on that code.

### `Sharing`: objects, relations, permissions, one request at a time

State: the rows of `object`, `group`, `user`, `relation`, and
`perm[g][o]`, the row of `permission` of a group and an object with its reason and
the object and user it is related to.

| action | code |
|---|---|
| `Open` | any request through `Object.access`, which shares with the groups of `share_queried_objects` |
| `Upload`, `UploadUnder` | `ObjectUploader.create_object`, `get_shares_for_upload`, `_get_or_create`, with and without a parent |
| `Share` | `ShareResource.put` |
| `AddParent`, `RemoveParent` | `ObjectChildResource.put`, `.delete` with `add_parent`, `remove_parent`, `uninherit_share` |
| `DeleteObject`, `DeleteGroup`, `DeleteUser` | the handlers with the cascades and `SET NULL`s of the foreign keys |

`give_access` is a reachability (`GiveAccess`): the walk goes on to the children of
an object only where the permission was just created. `uninherit_share` is described
as a set of outcomes (`Uninherit`) because creation times, which order its walk, are
left out.

### `UninheritSteps` and `UninheritWalk`: the recursion of `uninherit_share`

`UninheritSteps` is the recursion call by call, for the permissions of one group (`column`).
State: the calls whose loop over the children is under way (`calls`, each with its object, the
devisor it goes on with and the children to do), and the one set of visited objects. Relations
come one by one (`AddRelation`) until one is removed.

| action | code |
|---|---|
| `RemoveRelation` | `remove_parent` for the share of one group: the first call |
| `CallChild` | the loop calls itself for a child: it returns at once (visited, not related to the share, or given the same by another parent) or its own loop begins (`Call`, `Others`, `NewDevisors`) |
| `Finish` | the loop is over: the share is deleted or remapped to the devisor |

A caller's share is read from the column: it does not change while its loop runs. The lists of
children and parents are sets, whose members come in any order, since creation times are left
out. `RemovalEnds` says that the last call leaves one of the outcomes of `Sharing!Uninherit`.

`UninheritWalk` has the recursion once more as a function over lists in a fixed order, in the
same states. `SameOutcomes` says that over all orders of the relations its results are
exactly the outcomes of `Uninherit`: none is missing either. This module has `RECURSIVE`
operators and no theorem.

### `SharingTx`: the statements of concurrent shares and links

State: committed `relation` and `permission` rows, and per worker the statement it
is at, the rows it has inserted, the groups still to do, the queue and visited set
of `give_access`, the children collections its session has loaded, and its answer. A
read sees committed and own rows; an insert waits for another transaction's row of
the same key (`Free`) and fails if that commits (`PermissionConflict`).
`ObjectPermission.create` answers with `db.session.rollback()`, which in SQLAlchemy
1.4 rolls back the whole transaction, not a savepoint: the model drops all the rows
of the request and walks on, as the code does. `BreakDeadlock` is PostgreSQL's
detector: one of a circle of waiting transactions fails. `lost` is a history variable: the
permissions that such rollbacks took. The code keeps no such record; only properties read it.

### `Uploads`: get-or-create, storage, Karton, deletion, hooks

State: the committed row of each content hash (its *life* stands for the primary
key: the same content after a deletion is a new row), the contents in storage,
`karton_analysis` and `karton_object`, the number of tasks sent, one record per
request, and a log of what happened to each row, which only properties read.

| action | code |
|---|---|
| `Begin` | a request arrives: upload (with or without an analysis), delete, reanalyze, assign, remove an analysis |
| `LookupForUpload`, `Insert`, `Take`, `Reuse` | `Object._get_or_create`: look, insert in a savepoint, on `IntegrityError` look again; `ObjectTypeConflictError`; for a config first the blob it embeds |
| `ReadAnalysis`, `Link` | `assign_analysis` with `KartonAnalysis.get_or_create`, which **commits** |
| `Store` | `File.get_or_create` writes the content |
| `Commit`, `Created` | `create_object` commits, then `on_created` |
| `Send`, `Record` | `spawn_analysis`: the task goes to Karton, then its row is committed |
| `DeleteRow`, `Unassign`, `DropAnalysis` | the deletion; `remove_analysis` in its two steps |
| `Answer` | the response is built, then the hooks run |
| `Break` | storage or Karton is unavailable or the worker dies, at any point |

### `Accounts`: users, groups, sessions, OpenID

A handler is one action, but the three that check first and write in a later
transaction (set password, bind an identity, register with a provider) are requests
in the hands of a worker that may die: `CheckBind`/`Bind`, `CheckRegister`/
`CreateIdentified`/`Identify`, `VerifyLink`/`SetPassword`, `Fail`. Versions and row
ids are numbers never used before, so a login taken again is another account. The
claims of the provider are any set of names.

### `ThreatSync`: the threat library, its sync and git

State: tables and mirror (`db`), the head of the remote branch, the run of the sync
(`pc`, the commit it pulled, what is left of its phase, what it will write), a
running `DELETE` of a threat, and budgets. `SyncStep` is one step of `runner.py`
(`Pull`, `IngestSample`, `IngestReadme`, `UnlinkDeleted`, `RepairMirror`,
`ExportThreat`, `CommitAndPush`, which starts over when somebody pushed); `RestStep`
a request of the plugin; `HumanStep` a commit of a teammate; `Crash` ends a run
anywhere, `Fault` fails one file of it.

### `WebSession`: the session in several tabs

State: the session in the local storage, its copy and the token's owner in each tab, the
storage events not handled yet, requests under way with the session of the rendering they
were made in, and whose tokens have ended. The actions are those of
`commons/auth/provider.tsx`: `SubmitLogin`, `Refresh`, `Logout`, `Reload`, `Forbidden` (the
interceptor of 403), the answers `Granted`, `Unauthorized` and `Lost`,
`SynchronizeSessionState` on a storage event; and on the server `TokenEnds` and
`CapabilitiesChange`. The interceptors keep what they saw at the first rendering.

Only a write is an event for the other tabs. `Store` is `updateSession`'s: a token made
within the second of the stored one is the same value, for which the browser sends no
event. `Read` is `getStoredAuthSession`'s, which writes only when it removes a session that
has ended; a tab reads when it is told, when it is loaded (`Reload`) and at every rendering
(`Render`: the argument of `useState` is evaluated each time and used the first time), and
in the last case goes on with its copy and its header.

### `LoginFlow`: routes, guards and the way through a provider

State: who looks, the route, where the user came from (`location.state.prevLocation`), the
browser's way back (`began`), what the tab kept before it left for a provider (`kept`, by
the state parameter), the one answer it waits for. Guards of the routes are taken from the
table of `AppRoutes.tsx`; `Redirect` is what a guard renders, `Authorize` leaves for the
provider, `Exchange` and `InvalidState` are the two ways of the effect of
`OAuthAuthorizeView`, `Authorized`/`NotAuthorized` its answers. The session itself is
`WebSession`'s: here it comes and goes.

### `QueryLexer`: the query under the cursor

A step reads one token of a type the lexer knows in its mode. `annotateQuery` (open
brackets, state machine, annotations) and `getCurrentField` (its own bracket stack, the
field path) are two walks; the tables `Lexemes`, `AllowedStates` are the code's.

### `QuerySuggestions` and `LatestAnswer`

A call of `fetchSuggestions` for each text, made invalid by the next one, and one promise
for the definitions all calls wait for. A suggestion is known by the text it was made for.
`SuggestionsAreLatest` says that this implements `LatestAnswer` (subject = text, answer =
suggestions, waiting = the spinner): what is shown is for the latest subject, or the user
is told to wait; an answer for an earlier subject leaves no trace.

### `RecentList`: pages as the user scrolls

The reducer with `pageToLoad` and `loadedPages`, the effect that asks for the next page and
cancels the one before, the count with its own request. A page is known by the query it
was asked with and the page it follows.

### `ObjectData`, `EntityPage`, `PageHandlers`: pages

`ObjectData`: whose data the parts of an object page are, with `load` replacing everything,
`update` merging, boxes fetching when the id of the shown object changes, the Karton box
polling, and nothing ever cancelled. `PageHandlers` is a table: for each handler of the web
client that asks for a change, what it does before the request, after its answer (and
whether it waits for a reload first) and after its failure. `EntityPage` runs one entry
against versions on the server, with the request under way twice and the user going
elsewhere: `Go` (the address), `OpenModal` and `CloseModal`, `Confirm` (the button),
`Answered` (the server's answer or failure, and what the handler does then) and `Reply` (of
a fetch of the page).

Three things of a page differ, and an entry says which are the same for it. The *address*
names an entity. The *entity* the page has got is the one its buttons change. What is
*shown* of the change came with the entity, or apart from it (`"apart"`: comments, shares,
attributes, analyses, permissions), and may be of yet another:

* a box that fetches its own part reloads it of the entity the page has got (`"own"`);
  `updateObject`, which the boxes of relations and favorites call, fetches the whole object
  of the address (`ShowObject.tsx:149`). A whole entity that replaces another takes the parts
  fetched apart with it; of another entity they are fetched anew, of the same one they are not
  (`missed`).
* two parts are made from the first entity and never again (`"first"`): the flag of
  `Share3rdPartyBox.tsx:19`, which only its handler sets, and the permissions of an attribute,
  fetched when their view is mounted (`AttributePermissionsView.tsx:48-51`) and after a change.
  Since going to another object does not unmount them, they may show another entity than the
  page: `wandered` records that the user went from one to another.

A page is `"many"` if there is one for each entity; that of a profile `"hides"` until its
own entity is there, with its views `"inside"`.

### `PagedLists`, `PageFetches`, `RelationsPlot`, `PluginTabs`, `TemplatePaths`, `RemoteViews`, `RemoteTransfers`

* `PagedLists`: lists fetched whole and shown by pages; the page number is a state of its
  own, and each list moves it back differently. `OnPage` and the pages of relations, where
  parents and children share them, are pure operators.
* `PageFetches`: views that only show what they fetch, again a table: whether a view fetches
  anew when its subject changes, drops late answers, needs several requests, can be asked for
  more.
* `RelationsPlot`: clicks, answers in any order, and drawing, during which the plot is a copy
  that takes no clicks and after which a click is handled as of the rendering drawn.
* `PluginTabs`: the deobfuscation with its abort controller; the regular expression with its
  timer, its evaluations, and the banner of an unavailable service.
* `TemplatePaths`: contexts, sections and tags of a template; the path a link searches for
  against the place the value has. A link records why it may not find it (`why`). Positions are
  sequences of keys and indices (`IsPosition`); the elements of arrays are at `Indices`. The name of a
  renderer or lambda means a key of the view if there is one, so `Renderer` and `Collapse` ask for
  `~Exists` and also come with the `$` before the name.
* `RemoteViews`: which functions of the API are replaced on a remote page (`RemoteAPI`),
  which components look at `api.remote`, and what a function does at which instance. The tabs
  of the plugins have functions of their own, which use the `axios` of the API and so ask
  the local instance wherever they are shown.
* `RemoteTransfers`: pulls and pushes (`mwdb/resources/remotes.py`), each in a transaction.
  `rows` has the type each object is stored as at each instance (a hash may be a file at one
  and a blob at another), `jobs` the requests under way with the embedded blobs that are to be
  looked up, found, or inserted and not yet committed. `FindBlob` is `TextBlob.access`, which
  commits if it has to grant the blob to a user who shares what he asks for; `PullBlob` fetches
  and inserts one; `EndPull` inserts the config, links the blobs and commits; `GiveUp` is any
  failure. Whoever inserts what another request has inserted waits for its end
  (`Reserved`). `UserRemoves` takes an object away while a request counts on it (`lost`: the
  relation to it then fails). Uploads by users and the upload at the other instance that
  ends a push are one step.

### `MCWebViews`: the parts of one page, checked one by one

These twelve parts share no state: the variable `part` chooses one at the start, the
others rest. One run checks them all, which saves nothing but the start of eleven others; the
number of states is the sum of theirs, not the product.

---

## 4. The runs

| run | instance | distinct states | what it shows |
|---|---|---|---|
| `sharing_users` | 2 users, one in a group with `share_queried_objects`, 2 objects, any graph of ≤ 3 relations, symmetry | 3,903 | `TablesSound`, `GrantsAreFinal` for every request |
| `sharing_graph` | 1 user, 2 groups, 4 objects, every acyclic graph | 4,796 | `InheritanceClosure`, `RemovalsTakeTheirs` |
| `uninherit` | all columns on all graphs of 3 objects and acyclic ones of 4, ≤ 4 relations | 49,023 | `SameOutcomes`, `RemovalEnds`: recursion = description |
| `tx_shares` | 3 workers sharing four objects with a diamond, or adding the same new relation while others link what is linked | 104,293 | `SharedExactly`, `AllFinish` |
| `tx_lost` | 2 workers, any two requests, a chain | – | **violation** of `AnsweredIsDone` |
| `uploads` | 3 requests, a content that is a file or a blob, a config that embeds it, 1 fault | 720,928 | `TablesSound`, `NewOnlyOnce`, `NeverAnalysedWhy`, `AllAnswered` |
| `accounts` | 2 logins (symmetric), a custom group, a provider in MIXED or FULL mode, 1 two-step request at a time, 4 versions | 401,981 | `AccountsSound`, `EndedStaysEnded`, `SyncStaysInside` |
| `threat_sync` | a directory that may change its category, a name used for a directory and a flat file, one commit, one request, one fault | 307,484 | `MirrorSound`, `NoResurrection`, `FilesNeverVanish`, `Settles` |
| `web_session` | 2 tabs, 2 users, one of whom may lose his token or change capabilities, one login under way per tab | 324,178 | `SessionSound`, `TabsAgree` |
| `web_views` | the twelve parts, each on its own instance | 233,606 | the properties of the views below |
| `web_pages` | every handler, 2 entities, the request under way twice, one fetch beside it | 1,069,137 | `ButtonsSound`, `ShowsOwnChanges` |
| `web_remote` | the local and two remote instances, one hash, every function of the API | – | **violation** of `RemoteViewReadOnly` |

### The properties of the backend

A property whose name is in **bold** is a conjunction of the named parts given with it.

* **`TablesSound`** of `Sharing` (`TypeOK`, `NoDanglingRow`): relations and permissions name
  rows that exist, through all cascades.
* `InheritanceClosure`: a group that sees a parent sees its children.
* **`RemovalsTakeTheirs`** (`LostOnlyByRemoval`, `ExplicitPermissionStays`): a group loses an
  object only with the object or the group, or with a relation that gave it the very
  permission, and only when no remaining parent shares it; on acyclic graphs the uploader's
  own permission and an explicit share survive the removal of any relation. In a cycle they
  do not (section 7).
* `GrantsAreFinal`: uploads, shares and new relations never rewrite what a group has.
* `RemovalEnds`, `SameOutcomes`: the recursion of a removal, call by call in any order, ends in
  a described outcome; as a function over all orders of the relations it has exactly those.
* **`SharedExactly`** (`TypeOK`, `NothingExtra`, `ClosedAtRest`, `SuccessKept`): concurrent
  shares leave permissions no wider than what was asked and follows from it; at rest, but for
  the rows that a rollback after a conflict took, they are closed under the relations, and
  a request that answered with success has had its effect.
* `AllFinish`, `AllAnswered`: every request ends, those included that wait for others.
* **`TablesSound`** of `Uploads` (`TypeOK`, `ContentBehindRow`): every file that can be found
  has its content in storage, except one uploaded together with an analysis, whose row
  `assign_analysis` commits first, until that upload has answered.
* `NewOnlyOnce`: a row is handed to Karton by `on_created` at most once and announced as
  new at most once.
* `NeverAnalysedWhy`: an object nothing is being done to has an analysis, unless it came
  as an embedded blob, its creator failed after the commit, its analysis was removed, or
  the analysis was deleted by a removal that took it for unused. The four exceptions are
  exactly the ways in which the code leaves an object unanalysed.
* **`AccountsSound`** (`TypeOK`, `OwnGroup`, `BoundIsMember`): every account has its private
  immutable group; every bound account is in its provider's group.
* `EndedStaysEnded`: a session ended by a new password, by disabling or by deletion is
  never accepted again, even when the login is taken by somebody else.
* `SyncStaysInside`: synchronisation changes memberships of the one who logs in only, and
  in MIXED mode only of groups linked to the provider.
* **`MirrorSound`** (`TypeOK`, `MirrorCovers`): every linked file has the tag and attribute
  of each threat it belongs to.
* `NoResurrection`: a sample deleted in MWDB is not brought back from the repository.
* `FilesNeverVanish`: a committed file leaves the repository only if MWDB has held it.
  The instance commits once and rewrites nothing; a rewritten file can be lost (section 7).
* **`Settles`** (`Converges`, `Quiet`): when the disturbances are over, repository, tables and
  mirror come to agree, and the bot stops committing.

### The properties of the web client

* **`SessionSound`** (`SessionTypeOK`, `OneUser`): tabs that have handled the events of the
  storage send the token that is stored, or one that has ended when none is: no two tabs
  act as two users for longer. Mere reads tell nobody, so both tabs must agree most of the time.
* `TabsAgree`: again and again a tab that is logged in shows the user it acts as, with the
  capabilities he has, however its refreshes cross those of other tabs.
* `ExchangedOnce`: however often the user comes back to the callback's address, a state is
  given to the server at most once and never again.
* `ReturnsWhereWanted`: who asked for a guarded page in vain and logs in at once gets there.
* **`QueryAnnotated`** (`TablesAgree`, `BracketsAgree`, `InnermostHighlighted`): at every prefix
  of a query, the tables of tokens and states fit together, the two walks agree on the open
  brackets, and the innermost one is highlighted.
* **`FieldCompleted`** (`FieldWhereExpected`, `PartialIsTheEnd`): completion is offered exactly
  where a field is wanted and replaces what was typed of it, except after an array reference.
* `SuggestionsAreLatest`: the refinement of `LatestAnswer`.
* **`PagesOfTheQuery`** (`OneLoad`, `PagesInOrder`, `LaterPagesMatch`): one live request at a
  time, its page the next one, none missing or twice, all behind the first of the query
  that is asked now.
* `NothingMissing`: once everything is answered, an object page shows the object of its
  address with all its parts, unless an answer crossed the user's way or failed.
* **`ButtonsSound`** (`TypeOK`, `LockedWhileRunning`, `RunsOnce`): buttons are disabled only
  while a request is under way (but for the five handlers of `LockedForGood`, section 7), and
  what must not be asked for twice is not.
* `ShowsOwnChanges`: a page at rest shows the entity of its address at least as new as the user's
  last change that it was told of, unless what arrived last was for another address, older, or a
  failure. The two parts that keep what they show of the first entity do so until the user
  wanders to another one; after that, what they show still has the changes made to the entity it is of.
* **`GraphOfTheClicks`** (`OrderLeavesNoTrace`, `AddressShowsGraph`): the graph is that of the
  unfolded objects whatever the order of answers, and the address leads to it again for a user
  who does not click while an object is fetched.
* **`PagesComplete`** (`RelationsOnceEach`, `PageHasItems`): for all numbers of parents and
  children each is on exactly one page; a list that is not empty is not shown empty, but for
  the pending users and a box of relations that was overtaken.
* `SettledOnSubject`, `LateAnswersDropped`: a view settles on its subject, with all it was
  asked to show, unless answers overtook each other; the view with a flag never takes a late
  one at all.
* `LandsOnItsSample`, `MatchesOfInput`: a deobfuscation appears on its sample only; matches at
  rest are those of the expression in the input on the sample shown, and the spinner is
  there exactly while an evaluation is.
* `SearchFindsValue`: a link searches for the place of the value shown, unless one of four
  recorded reasons holds or a key has a dot.
* `ShownOfItsInstance`: what a page reads is of its instance; the reads that are not are listed in
  `NotOfThePage`: tags, definitions, analyses, the zipped file, and the matches of the
  regular expression tab.
* `ArrivesWhole`: a config never comes to an instance without the blobs it embeds, as blobs,
  whatever is removed, uploaded, pulled and pushed while they are looked up one by one, and
  whatever a look-up commits in between. Afterwards a blob may be removed; that is the user's.
* **`AllWaitsEnd`** (`SpinnerEnds`, `LoadingEnds`, `AnalysesSettle`, `ButtonComesBack`,
  `FetchesEnd`, `RedirectsEnd`): whatever a page makes the user wait for comes, or says that
  it does not.

### Bounds, and why they are enough

* **Graphs.** A diamond, a shortcut and a cycle need three objects, a diamond below the
  removed relation needs four; each is an instance. One group is enough for what the walk
  does to a column, since `give_access` and `uninherit_share` treat groups one by one; two
  groups show that they do not disturb each other. `MaxRelations` never cuts a diamond.
  For the closure, the references, what removals take, and the outcome of the recursion, the bound is
  lifted by the proofs.
* **Workers and requests.** The races of `_get_or_create` and of conflicting inserts are
  between two transactions; a third one can change the outcome for either. Three of each
  are checked. `Uploads` was checked once by hand with four requests in three slots
  (safety only, 5,170,000 states). The safety of `SharingTx` and of `Uploads` is proved for any
  number of requests, graph and objects. `MaxRequests` bounds arrivals, so that runs end (deadlock
  checking is off for that reason); the failed request that is repeated is two of the three.
* **Faults.** One fault anywhere, since recovery is the next request or run; the second
  fault would be a second run of the same recovery.
* **Accounts.** `MaxClock` 4 allows two accounts with a new password each or an
  account, its deletion and the login taken again. One session at a time is enough for
  `EndedStaysEnded`, which speaks of each session alone.
* **Threat sync.** A file is its content, so two contents make duplicates and edits;
  paths of one threat in two categories make a move; a name in both layouts makes the
  conflict of `check_layout`. Runs with one commit and two requests (1,980,000 states), and
  with two requests and a fault but no commit (130,000) were made by hand without an error.
* **Sessions.** Two tabs and two users make every crossing of a login in one tab with a
  refresh, a logout or a read in the other; a third tab only handles the same events. `OneUser` is
  proved for any number of tabs and users.
* **Views.** Every race of an answer is between two subjects, or twice the same one with
  another between (two `Objects`, `Samples`, `Looked`, `MaxMoves` 2, `MaxTurns` 3, `MaxWaiting`
  3 requests). Three queries and two pages make a page of an older query between two of a newer
  one; `MaxCalls` 3 a call that waits while two later ones start. `MaxTokens` 7 reaches every
  state of the query machine with a range inside of a subquery. `PerPage` 2 with up to five
  items has parents that end in the middle and at the end of a page, and every shorter list.
  `MCShape` has a list in a list and a key with a dot, `MaxOpen` 3 contexts the nesting for
  both. One remote instance, a config that embeds two contents, one of which may also be a file,
  and two requests make a look-up that commits between two others, a blob removed, inserted twice,
  or of another type, and a push against a pull of the same; a second remote would only be
  another place to fetch from. Two requests of a handler and one fetch beside them are what makes a reload late,
  early or superfluous; more versions than one would only count them.
* **Deadlock** is not checked for runs whose arrivals are bounded or where everybody may
  rest; that waiting ends is stated as liveness instead.

---

## 5. Fairness

* `SharingTx`, `Uploads`: weak fairness of the step of each worker. The server thread
  executes a request until it returns; a worker that waits for another transaction is not
  enabled, so nothing is assumed about locks. That a killed worker's request ends is an
  action (`Break`, `BreakDeadlock`), not an assumption. No fairness on `Begin` or `Break`.
* `ThreatSync`: weak fairness of `SyncStep` (the container runs the sync in an endless
  loop with a sleep, and restarts it) and of `DeleteNext` (a request that deletes a threat
  goes on). People and requests owe nothing; their number is bounded, so "when the
  disturbance is over" is reached.
* **Web client.** Every request ends, by its answer, a failure, or the timeout of axios
  (`commons/api/index.tsx:119`; the few requests made without one end with the server's or the
  proxy's): weak fairness of "answered or failed". Timers and intervals run, the browser
  delivers storage events, and the router renders redirects: weak fairness of `Debounced`,
  `PollAnalyses`, `Refresh`, `SynchronizeSessionState`, `Redirect`. Where a request is repeated
  for ever (the refresh each minute, the poll every ten seconds) strong fairness says that of
  infinitely many one is answered and not lost. The user owes nothing.
* `Sharing`, `Accounts`, `UninheritSteps`, `UninheritWalk`, `EntityPage`, `RelationsPlot`, `PagedLists`,
  `TemplatePaths`, `RemoteViews`, `RemoteTransfers`, `QueryLexer`: safety only, no fairness.

---

## 6. The proofs

All proofs are checked by TLAPS from nothing, with no assumption beyond those on the
constants, and in three theorems a hypothesis that their statement names (`Separate`,
`StrictOrder` and `NothingNewAtKnownPaths`, below). Most assumptions say what kind of values the constants are and that nulls
are none of them (`NullAssumption`, `UploadsAssumption`, `ClockAssumption`, `SessionAssumption`,
`ListAssumption`, `SuggestAssumption`, `DataAssumption`, `FetchesAssumption`, `PagesAssumption`,
`TabsAssumption`, `RemotesAssumption`, `TransfersAssumption`, `PageAssumption`, `LexAssumption`, `KeysAssumption`), `FlowAssumption`
also which routes are guarded (those of `App.tsx`), `PlotAssumption` that there are finitely many nodes,
`ShapeAssumption` that each part of a value is inside of another, those of an array at indices, and `RequestsAssumption` that `SharingTx` starts from finitely many
objects and closed permissions, which is what `ClosureHolds` says of requests before. Three say
more: `UsersAssumption` has
the private groups of two users different, since a private group has the name of its login
and names are unique; `NamesAssumption` has the logins, the custom groups, `public` and the
provider's group of different names; `PathsAssumption` closes the set of paths of an instance:
with a file of a directory its README is a path too, and with a directory in two categories
each of its files is one in both.

### `SharingProofs`

* `ReferencesHold`: `Spec => []TablesSound`. The inductive invariant `Whole` has, besides the
  types, the closure and `NoDanglingRow`, that the private group of each user is there (`Owned`): an
  upload gives the new object to it, and the row must not dangle. The walks are
  reachabilities along relations of existing objects, so what they reach exists.
* `ClosureHolds`: `Spec => []InheritanceClosure`. The closure is inductive only together
  with the types: each action's new permissions are `GiveAccess` and `Uninherit` of old
  closed columns. `GiveAccess` keeps a column closed because the walk stops only at objects
  whose descendants the group sees already. That is the induction hypothesis, and the
  reason why one gap would spread. The removal keeps it by the next lemma.
* `UninheritOutcome`: for every graph, every order and every devisor, the removal of
  `p -> c` deletes a permission only where it inherits the one of `p`, and where every
  parent that shares with the group loses it as well or is `p` by the removed relation.
* `GrantsStay`: `Spec => GrantsAreFinal`. Each step that takes no relation, object or user
  away is a `GiveAccess`, which never touches a permission that is there (`FinalStep`).
* `RemovalsTakeOnlyTheirs`: `Spec /\ [][rels' \subseteq Before]_vars => RemovalsTakeTheirs` for every
  strict order `Before` of the objects. The second conjunct says that no object is made its own
  ancestor; without it the property is false (section 7), and it is what the run
  `sharing_graph` assumes with `<` as the order. The order is one for the whole behaviour:
  that the graph is acyclic at each moment is not enough, since an object that was left with
  a permission inherited from `r` may be made a parent of `r` later, and removing it takes
  `r`'s own. The invariant `Forward` adds to `Whole` that every inherited permission is
  *rooted*: it names an object before its own, and that object has the permission by itself
  (`related_object_id` is its own). Shares and links keep that since the walk goes forward
  and hands down the root (`RootedGiveAccess`); a devisor is a parent, so its root comes before the
  object it is handed to (`RootedMakeInherited`); and the walk of a removal starts after the
  root, so that it never comes back to it (`WalkForward`). That is also why nothing an object
  has by itself is deleted or rewritten (`UninheritForward`).

* `RecursionIsUninherit`: `StepSpec => []RemovalEnds`, for any graph, cycles included, any permissions and
  any order of parents and children. The other theorems treat a removal as one step with an
  outcome of `Uninherit`; this one is why they may. The invariant `Walked` says what the calls
  have done so far by three values that only the proof knows: the objects whose loop was begun
  (`looped`), the devisor each head chose (`dev`), and the head a moved object is below (`head`). An object
  visited and not looped is one that kept its permission for good reason (`VisitedKnown`); loops
  hand down a devisor exactly outside of the deleted objects and leave no child behind when they
  end (`LoopsKnown`); a moved object is reached from its head through moved ones
  (`PlacesKnown`); and the column is changed where a loop has ended and nowhere else (`ColumnKnown`).
  When the stack is empty, `dev` and `head` give the function that `Uninherit` asks for (`WalkIsOver`).

### `SharingTxProofs`

* `ConcurrentSharesExact`: `Spec => []SharedExactly`, for any graph and number of requests, if the
  requests are `Separate`: all of them share or link what is linked already, or all of them link
  and at most one relation is new. A share and a new relation at once do not see each other's rows
  (write skew), and then the closure does fail (section 7).

The invariant `IInv` has for each request where it is (`Placed`), that the collections of
children its session loaded are still the children (`KidsKnown`), that what it has visited is
visible to the group, but for what was lost (`VisitedKnown`), that below a row it inserted the
children have theirs or are in its queue (`Owed`), and that each group it was asked for has the
object, is still to do, or the request failed (`DueKept`). Of all together it says that
committed rows are closed but for what was lost (`CommittedClosed`): this is what a commit
needs from `Owed`. While a relation is new, one request at a time has rows or a loaded
collection (`OneAtATime`), because the others wait for its row of `relation`. `NothingExtra` needs
the fixpoint argument `AllWithin`: every set that holds the initial and the asked permissions
and is closed under the relations a request sees holds what the request inserts.

### `UploadsProofs`

* `ContentHolds`: `Spec => []TablesSound`.
* `NewOnce`: `Spec => NewOnlyOnce`.
* `ReasonsForNoAnalysis`: `Spec => []NeverAnalysedWhy`.

The inductive invariant `Inductive` adds to types and contents what a request knows:
`Placed` (which row it works with and where it is), `Owned` (the rows it has inserted
have the *next* life of their object, all others one that was), `Truthful` (a row
it created has the type of the upload, and past the write its content is stored),
`Alone` (two requests never hold rows of one object: the unique index) and `Below`
(nothing was announced that is not a life yet). `Owned` and `Alone` together are what
the unique index and the savepoint give; with them a commit of one request cannot
disturb what another knows (lemma `Others`), so each action has to be shown to keep
only its own request's part (lemma `Preserved`, one lemma per action). `NewOnce` needs a
second invariant on top, `Once`: while a request holds a row as new, nobody else
does, it has not been announced, and not been submitted unless the request is
past that. The only step that can break it is the insert (lemma `OnceTaken`): the
new row has a life above every life anybody has heard of. `ReasonsForNoAnalysis` has its own,
`Owed`: a row without an analysis and without a recorded reason is the new row of a request that
has yet to send it to Karton or to record that it has (`Owes`). `OwedKept` reduces each step
to what it does to one object; the cases with content are the failures after the commit, which
record *aborted*, and the removals, which record *unlinked* and *swept*.

### `AccountsProofs`

* `AccountsInGroups`: `Spec => []AccountsSound`.
* `EndedForGood`: `Spec => []EndedStaysEnded`.
* `SyncChangesItsOwn`: `Spec => SyncStaysInside`.

The invariant `Inv` adds to the three parts of `AccountsSound` that the provider's group is
there with the provider and immutable (`ProviderGroupFixed`, or group management could
take a bound account out of it), that every version and row id in use is one the clock has given out
(`VersionsUsed`), that no ended session fits the account its login has now
(`EndedMatchNothing`), and that a request between its two transactions still fits
(`RequestsFit`). `VersionsUsed` is why a login that is taken again is nobody's old session.

### `ThreatSyncProofs`

* `MirrorKept`: `Spec => []MirrorSound`. Until somebody drifts, every function of the service
  keeps `Covered` (one lemma each: `UnlinkKeeps` and `SetCategoryKeeps` are the ones with
  content, since they take a tag away only where no other link of the file needs it), and
  the sound database it needs for that: each link is of a threat that is there (`LinksFit`).
* `StaysDeleted`: `Spec => []NoResurrection`. The argument is `GoneFits`: what was removed in
  MWDB is in the manifest, or nowhere in the repository. A run links only paths the manifest
  it pulled does not have, requests and commits leave the manifest alone (`RunFits`), so it
  links nothing that is gone (lemma `NewIsNotGone`). A push makes a new manifest and keeps
  `GoneFits` because it writes back unasked only READMEs and paths that are not in the old
  one.
* `FilesStayHeld`: `Spec /\ NothingNewAtKnownPaths => FilesNeverVanish`, for `Rewrites` and
  without. The second conjunct says that people commit at a path of the manifest only a README
  or what MWDB has held; without it the property is false, since such a path is not read again
  (section 7), and in the run `threat_sync` it holds because people commit once and rewrite
  nothing. The invariant `HeldInv` adds to `Inv`, for all that is not a README: what is linked
  or exported has been held (`DbHeld`, `ExportsHeld`), and a run
  answers for each path of the commit it pulled: it still has to read it, it preserves it, or
  its content has been held; while nobody pushed, that commit is the remote (`PulledHeld`). So
  the one step that takes paths out, the push on top of the commit read, takes only what was
  held (lemma `TakesOnlyHeld`).

`Inv` also has what the export needs to write paths of the repository although a threat may
be deleted or change its category after it was read (`RowsFit`, lemma `ExportOfIsTree`). Three
lemmas say what any step leaves to show: of a request (`WrittenKeeps`), of a step of the run
that writes to the database (`AbsorbKeeps`), of the end of a run (`EndRunKeeps`); then there is
one per action.

### `WebLoginProofs`

* `OneUserActs`: `SessionSpec => []SessionSound`, for any number of tabs and users, by
  `SessionInv`, which adds that each request for a login names a user (`LoginsNamed`). A write
  of another value tells all other tabs (`UpdateKeeps`); a write of the same value and a read
  tell nobody, and leave the tabs that are up to date so (`ReadingKeeps`).
* `FlowTypes`, `StateExchangedOnce`, `ReturnsToWanted`: types, `ExchangedOnce` and
  `ReturnsWhereWanted` for every table of routes. `FlowInv` adds what is known of the one
  answer that is awaited (`AwaitedKnown`) and of the wanted page: as long as it counts, it is
  where the login page will navigate to (`WantedKept`).

### `WebViewsProofs`

* `PagesFollow`: `ListSpec => []PagesOfTheQuery`. `ListInv` adds how the two counters fit the
  pages and the live request (`CountersFit`).
* `OneCallIsValid`: at most one call may still show its answer, the one of the text in the bar.
* `LatestSuggestions`: `SuggestSpec => SuggestionsAreLatest`, the refinement of `LatestAnswer`:
  the initial state maps to an initial one, and each step to a step or a stutter, by
  `SuggestInv` (`ValidIsTheTexts`, `OfferedForThisText`).
* `PageGetsAll`: `DataSpec => []NothingMissing`. `DataInv` adds that a part which is not of the
  object of the address is among the requests under way, or an answer crossed or failed
  (`MissingIsAsked`); the requests are a bag, since one may be under way twice.
* `ViewsSettle`, `FlagDropsTheLate`: `FetchesSpec => []SettledOnSubject`, `FetchesSpec =>
  LateAnswersDropped`. `FetchesInv` adds that the last run of the effect asks for the subject
  (`LastAsksForIt`), that without an overtaking no older run is under way (`NothingOverdue`), and
  that behind a flag only the last run's answers count (`OnlyTheLast`).
* `MatchesSettle`, `AnswersLand`: `TabsSpec => []MatchesOfInput`, `TabsSpec => LandsOnItsSample`.
* `PagesShowTheirs`: `RemoteSpec => []ShownOfItsInstance`, for any number of remotes and objects.
  `RemoteInv` adds of each request where it came from and where it goes (`AskedOf`).
* `ConfigsArriveWhole`: `TransferSpec => ArrivesWhole`, for any number of instances, objects and
  requests. `TransferInv` says that what a pull has found is here as blobs as long as none of it is
  lost (`FoundStays`), and that each embedded blob is still to be looked up, found, or inserted
  (`EmbedsKept`); a push inserts nothing here (`PushKept`). The step with content is a commit in
  the middle: what another pull inserts cannot change the type of what this one has found, since
  an object is inserted only where none is (`BlobsStay`).
* `PagesShowAll`: `PagedSpec => []PagesComplete`, for all page sizes and numbers of items.
  `PageFits` says for each kind of list when its page number fits the items; the rest is
  arithmetic of pages (every item is on exactly one page).

* `QueriesAnnotated`, `NamesCompleted`: `LexSpec => []QueryAnnotated`, `LexSpec => []FieldCompleted`, for queries of
  any length. The two walks over the prefix are kept as state, so the invariant compares them as
  they go: the mode of the lexer is one of the state of the machine (`ModeOf`), and the field path is
  empty but where a name is being typed (`FieldFits`). The rest is that each row of the tables fits the
  next (`TableRow`).
* `GraphFollowsClicks`: `PlotSpec => []GraphOfTheClicks`, for any finite set of nodes. The code adds
  the parents and children of an expanded object one by one (a fold over a set); `ParentsAdded` and
  `ChildrenAdded` show that this is adding them all at once, in whatever order, by a smallest set for which it
  is not. Then the order of answers leaves no trace. `ClicksInAddress` is what the address needs: the clicks of a
  user who waits are in it, also in the one the drawn handlers know.
* `LinksFindValues`: `TemplateSpec => []SearchFindsValue`, for values of any shape and any nesting of sections. The
  invariant `TemplateInv` says of each context that the path it extends is that of its view
  (`PathOf`), unless a reason is recorded, and the same of the closures it has left for later
  (`Lefts`, `Laters`). `PathOf` is computed key by key; that it goes on from one
  position to the next (`PathOfStep`, `PathOfName`) is shown by sequences of partial paths and a
  shortest position at which they would differ. A renderer named like a key of the view would
  break it: `Renderer` and `Collapse` need the guard `~Exists` that the code's order of lookups gives.
* `PartsKeepTypes`: the variables of these parts keep their types.

### `EntityPageProofs`

* `ButtonsStaySound`: `Spec => []ButtonsSound`.
* `OwnChangesShown`: `Spec => []ShowsOwnChanges`.

Both are for every set of entities, and any number of runs of a handler and fetches at a time.
The proof does not go handler by handler: `HandlerSound` collects what the argument needs of an
entry of the table (a handler that disables its buttons releases them after each outcome or
leaves the page, but for the five known ones; a change that the page shows is reloaded or shown,
or the page is left; what keeps its first entity is shown at once or reloaded apart), and one
lemma per page shows it of the entries of `PageHandlers`
(`EntriesSound`). The invariant `PageInv` then has
that slots and fetches fit together (`AnswersFit`), which buttons may be disabled
(`ButtonsFit`, `Held`), that a page that was left finds none of its answers and one that keeps its
first entity knows no other until the user wanders (`InPlace`), and `Told`: what is shown has
the user's last change, or a fetch that it will
still take (`Awaited`) is under way. A new handler that forgets its reload would fail at
`EntriesSound`.

### Model-checked only

Liveness (`AllFinish`, `AllAnswered`, `Settles`, `TabsAgree`, `AllWaitsEnd`) is out of reach of
this prover. `SameOutcomes` is about `RECURSIVE` operators, which it cannot treat; one of its two
directions is proved of the calls themselves (`RecursionIsUninherit`), the other, that no described outcome is
superfluous, is checked on the small graphs only. Types are conjuncts of the invariants above; for the
parts of `MCWebViews` they are proved (`PartsKeepTypes`, `FlowTypes`) and not checked by a run.

---

## 7. What the models found

Recorded with runs (`findings` in `PROJECT.json`):

1. `tx_lost`: a conflicting insert rolls back the whole request, which then commits the
   rest and answers 200.
2. `web_remote`: on a page of a remote instance, removing a tag, an attribute or a relation,
   resubmitting and removing analyses, and third-party sharing act on the *local* object with
   the same hash; `docs/remotes-guide.rst:26` calls these pages read-only. So does the
   deobfuscation tab (`PhpDeobfTab.tsx:92`), whose answer makes a child of the local sample
   (`phpdeobf/resource.py:117-131`).

Stated as definitions in the modules, refuted by TLC when checked by hand, and left out of
the runs:

* `StrictlyClosedAtRest` (`SharingTx`): two shares of objects with a child in common meet at the
  child's row; the rollback takes what one of them had inserted, its walk does not go back to
  objects it has visited, and a child of a shared object stays unshared for good (the docstring
  of `give_access` says "Give access to group with recursive propagation").
* `NoOrphanPermission` (`Sharing`): removing the relation above a diamond can leave the object
  at the bottom with a permission that no parent backs.
* `MirrorInStep` (`ThreatSync`): a threat deleted while the sync links a file to it leaves tag
  and attribute behind.
* `NeverReverted` (`ThreatSync`): an edit of a file the bot had exported is overwritten, since
  a path of the manifest is never read again. The same happens to a file that is deleted and
  added again with another content.
* `OneAccountPerIdentity` (`Accounts`): two concurrent registrations bind two accounts to one
  identity.
* `LoggedOutStays` (`WebSession`): the answer of a refresh that was under way brings the
  session back after a logout (the comment at `provider.tsx:135` says "Clears session state").
* `ShowsItsEntity` (`EntityPage`): the box of third party sharing keeps the flag of the object it was
  mounted with, and the permissions of an attribute stay those of the first, when the user goes
  from one page to another without leaving; the buttons act on the entity of the page.
* `ShowsItsQuery` (`RecentList`): when the query changes while the first page is loading, the
  state is reset to what it was, no effect runs, and the page of the old query is shown under
  the new one (the comment at `RecentViewList.tsx:105` says "If query changes, reset state").

Seen while modelling; the models contain them, and properties are stated around them:

* **Sharing.** A share and a link running at the same time can miss each other: the share does
  not see the new relation, the link not the new permission (write skew); closure then fails
  until somebody shares again. `tx_shares` and the proof therefore have requests that are `Apart`
  from each other: they share, or they add one relation. On a cycle, the removal of the closing relation takes the uploader's own permission away.
  `make_inherited` takes the reason and object of the devisor but keeps the old user.
* **Uploads.** Blobs embedded in a config are created without `on_created`: no Karton task, no
  hook (`docs/karton-guide.rst:23` promises tasks for all new files, configs and blobs). An
  upload that fails after its commit is not new when repeated: it is never analysed on its
  own and hooks for new objects never run. `assign_analysis` commits in the middle of an
  upload; if the storage then fails, the row stays without content. `remove_analysis` may
  delete an analysis that was assigned to another object meanwhile, and two removals at once
  leave an analysis without objects. If an analysis is assigned before `spawn_analysis` has
  recorded it, the insert fails and the upload answers 500.
* **Accounts.** In FULL mode, a claim that is the login of somebody else makes the user a
  member of that private group, and no later login takes it back.
* **Session.** `isSessionValid` looks for the end in the first part of the token, which in the
  tokens of this server (`core/auth.py`, JWT) is a header without it: the browser removes only
  sessions of older servers as expired, and of others a request has to tell. A session removed
  at a rendering is still shown, and its token sent, by the tab that removed it. A tab opened before the first login never refreshes on a 403, since the
  interceptor knows no session; a logout by a 401 returns to the first location of the tab.
* **Search.** A failed request for the attribute definitions leaves its promise lost until the
  page is loaded again. Behind `name*` the completion cuts off the length of the name.
* **Buttons.** `PullRemote`, `PushRemote`, `ResetPassword`, `HandleRemoveAttribute` and
  `RequestPasswordChange` stay disabled after a failure (`LockedForGood`); `StoreTemplate` says
  that it succeeded after a failure. When the page loads the object it already has once more,
  the parts that boxes have fetched are gone until their next reload, since the effects that
  fetch them run on a change of its id only. The question about a capability stays open when the
  profile below it becomes another one.
* **Lists.** The box of relations says "No relations" and shows no pages when the user goes
  from a late page to an object with fewer, or removes two relations before the reload; the
  list of pending users stays on an empty page after its last row.
* **Plot.** A click while another object is fetched uses the address of the older rendering,
  and the earlier object is lost from the address.
* **Tabs.** The deobfuscation button stays busy after a change of the sample during a run, and
  a finished result stays on the next sample; so do the highlights of the last good
  expression and the banner of an unavailable service.
* **Fetching views.** Most take whatever answer comes last; a part of a long file may replace
  the whole of it; `loadAll` stays for the next sample; the tab of normalised code keeps former
  content after an error, where its comment (line 55) says that it hides.
* **Templates.** Links of `collapse` and `paginated` read the last path when React renders them;
  keys with dots are not escaped; explicit indices, `values`, `keys`, `entries`, `group` and a
  renderer at the end of a pipeline give links that find nothing.
* **Remote pages.** The zip link and the analyses shown are of the local object (the override
  has another name than the function); `downloadRemoteFile` ignores the range and the
  obfuscation asked for, while the preview always undoes the latter. The tabs of the plugins ask
  the local instance: the matches of the regular expression are in the local sample with that
  hash, if there is one.
* **Pulls.** If the user sees an embedded blob only because he shares what he asks for,
  `TextBlob.access` commits, and with it the blobs this pull has inserted: when it fails
  afterwards they stay, with no config that refers to them. A blob whose hash is stored as a file is
  refused with a message that speaks of a config.

---

## 8. What is not modelled

* **In the modelled parts of the backend.** `Sharing`: creation times, listings. `SharingTx`:
  removals and deletions. `Uploads`: tags, attributes, relations and share groups of the
  upload, a config with several new blobs, partial writes to disk, Karton switched off, the
  status of analyses; the double reads inside `KartonAnalysis.get_or_create` are one step.
  `Accounts`: group administrators, API keys, download tokens, mail, capability sets, renaming
  groups to logins, refresh of tokens. `ThreatSync`: parsing of names and metadata, symlinks,
  REST listings, uploads of one file and repairs of one file as several statements, concurrent
  service functions (`_get_or_create` of a threat), the count of flat samples.
  `RemoteTransfers`: shares, names and hooks of what is pulled; users' uploads statement by
  statement.
* **In the modelled parts of the client.** How things are rendered, wording, and validation of
  forms. The configuration of the server (`commons/config/provider.tsx`), which is fetched
  once; the template editor; the upload form's choice of groups (`useGroup.ts:8-38`, where late
  groups may replace the user's choice); pages of analyses that are loaded on demand and
  collapse at the next poll (`KartonAnalysisBox`); capabilities of a profile
  (`ProfileView.tsx:24-38`, which writes inherited capabilities into the private group); quick
  queries; toasts and other widgets.
* **Not yet.** Attributes, tags, comments, downloads, rate limit, hooks
  of plugins, search ranges: section 2. Known hazards of these, and of the modelled parts
  below the grain of the models, are: the same relation added twice (`object.py:288`); a
  threat deleted while a file is linked to it (`service.py:208`), two links to a flat threat
  (`service.py:134`), the repair of a mirror against an unlink (`runner.py:89`), an upload
  while the export runs (`export.py:84`); two configs that insert each other's blobs
  (`config.py:130`); an attribute inserted and removed at once (`attribute.py:95`); ranges at
  the end of a file (`file.py:277`); several limits of which a later one refuses
  (`rate_limit.py:105`); hooks that fail (`hooks.py:34`).
* **Not planned.** Metrics (nothing depends on them), mail and logging (input and output),
  migrations and batch commands (run alone), the insides of YARA-X and of the deobfuscator
  (no state; the latter rewrites syntax trees).

---

## 9. How to run

    tlc -workers 2 -config MCUploads_pass.cfg MCUploads
    tlapm UploadsProofs.tla

Each run takes less than five minutes on two cores. The pairs of module and
configuration are the `runs` of `PROJECT.json`; those with `"expect": "violation"` end
with a counterexample. The longest proofs are those of `WebViewsProofs` (four minutes) and
`SharingProofs` (two); `SharingTxProofs`, `UploadsProofs`, `ThreatSyncProofs` and
`EntityPageProofs` take about a minute each.
