------------------------------ MODULE Accounts ------------------------------
(***************************************************************************)
(* User accounts, their groups and what lets a user in: the password, the  *)
(* link to set it, the session token and the identity at an OpenID         *)
(* provider.                                                               *)
(*                                                                         *)
(* A handler is one transaction and one action, but for the three that     *)
(* check first and write later: setting a password (verify_set_password_   *)
(* token, then bcrypt, then commit), binding an identity, and registering  *)
(* with one, which commits the account before it commits the identity.     *)
(* These are requests, in the hands of a worker that may die.              *)
(*                                                                         *)
(* A version (password_ver, identity_ver) or a row id is a number that was *)
(* never used before. The provider is one; the rows of its settings and of *)
(* its own group come and go together.                                     *)
(***************************************************************************)
EXTENDS Integers, FiniteSets

CONSTANTS
    Logins,
    Custom,         \* names of groups that people make
    Public,         \* a default, immutable group
    ProviderGroup,  \* the name of the provider's own group
    Subs,           \* the identities the provider vouches for
    Workers,
    Modes,          \* the modes of group management that managers choose
    MaxClock,       \* how many versions and ids are ever used
    MaxSessions,    \* how many sessions are ever given out
    None

Names == Logins \cup Custom \cup {Public, ProviderGroup}

Account == [uid : Nat, pending : BOOLEAN, disabled : BOOLEAN, pw : Nat, ident : Nat]
Group == [private : BOOLEAN, default : BOOLEAN, immutable : BOOLEAN, linked : BOOLEAN]
Provider == [uid : Nat, mode : Modes, approval : BOOLEAN]
Session == [login : Logins, pw : Nat, ident : Nat]
Request == [kind : {"password", "bind", "register", "identify"},
            login : Logins \cup {None}, uid : Nat, sub : Subs \cup {None}, provider : Nat]

ASSUME NamesAssumption ==
    /\ Modes \subseteq {"NONE", "MIXED", "FULL"}
    /\ Logins \cap Custom = {}
    /\ Public \notin Logins \cup Custom
    /\ ProviderGroup \notin Logins \cup Custom \cup {Public}
    /\ None \notin Names \cup Subs
    /\ None \notin Account \cup Group \cup Provider \cup Request

ASSUME ClockAssumption == MaxClock \in Nat

VARIABLES
    accounts,   \* the account of a login
    groups,     \* the group of a name
    members,    \* who is in which group
    provider,   \* the settings of the provider
    identities, \* [sub, login]: the accounts bound to identities of it
    sessions,   \* the tokens given out
    requests,   \* what the workers are in the middle of
    ended,      \* sessions whose account was disabled, deleted or got another password
    clock       \* the last version or id used

vars == <<accounts, groups, members, provider, identities, sessions, requests, ended, clock>>
people == <<accounts, groups, members, provider, identities>>

TypeOK ==
    /\ accounts \in [Logins -> Account \cup {None}]
    /\ groups \in [Names -> Group \cup {None}]
    /\ members \subseteq Logins \X Names
    /\ \A m \in members : accounts[m[1]] # None /\ groups[m[2]] # None
    /\ provider \in Provider \cup {None}
    /\ identities \subseteq [sub : Subs, login : Logins]
    /\ sessions \subseteq Session /\ ended \subseteq Session
    /\ requests \in [Workers -> Request \cup {None}]
    /\ clock \in 0..MaxClock

Init ==
    /\ accounts = [l \in Logins |-> None]
    /\ groups = [n \in Names |->
                   IF n = Public
                   THEN [private |-> FALSE, default |-> TRUE, immutable |-> TRUE, linked |-> FALSE]
                   ELSE None]
    /\ members = {} /\ provider = None /\ identities = {}
    /\ sessions = {} /\ ended = {}
    /\ requests = [w \in Workers |-> None]
    /\ clock = 0

Exists(l) == accounts[l] # None
GroupsOf(l) == {n \in Names : <<l, n>> \in members}

(* A fresh number, for a version or an id. *)
Tick == clock < MaxClock /\ clock' = clock + 1

-----------------------------------------------------------------------------
(* Sessions. *)

(* verify_session_token and the check of require_auth. *)
Usable(s) ==
    /\ Exists(s.login)
    /\ accounts[s.login].pw = s.pw /\ accounts[s.login].ident = s.ident
    /\ ~accounts[s.login].disabled

SessionOf(l) == [login |-> l, pw |-> accounts[l].pw, ident |-> accounts[l].ident]

(* A token for the account of a login. *)
Issue(l) ==
    /\ sessions' = sessions \cup {SessionOf(l)}
    /\ Cardinality(sessions') <= MaxSessions

Ending(l) == ended' = ended \cup {s \in sessions : s.login = l}

-----------------------------------------------------------------------------
(* Accounts. *)

(* User.create: the private group, the account, the default groups. *)
Create(l, pending) ==
    /\ Tick
    /\ groups[l] = None
    /\ accounts' = [accounts EXCEPT ![l] =
          [uid |-> clock', pending |-> pending, disabled |-> FALSE, pw |-> 0, ident |-> clock']]
    /\ groups' = [groups EXCEPT ![l] =
          [private |-> TRUE, default |-> FALSE, immutable |-> TRUE, linked |-> FALSE]]
    /\ members' = members \cup
          {<<l, n>> : n \in {l} \cup {m \in Names : groups[m] # None /\ groups[m].default}}

(* RegisterResource.post and UserResource.post. *)
CreateUser(l, pending) ==
    /\ ~Exists(l)
    /\ Create(l, pending)
    /\ UNCHANGED <<provider, identities, sessions, requests, ended>>

Accept(l) ==
    /\ Exists(l) /\ accounts[l].pending
    /\ accounts' = [accounts EXCEPT ![l].pending = FALSE]
    /\ UNCHANGED <<groups, members, provider, identities, sessions, requests, ended, clock>>

(* UserResource.delete and the rejection of a pending registration: the    *)
(* account and the group with its name.                                    *)
DeleteUser(l) ==
    /\ Exists(l)
    /\ accounts' = [accounts EXCEPT ![l] = None]
    /\ groups' = [groups EXCEPT ![l] = None]
    /\ members' = {m \in members : m[1] # l /\ m[2] # l}
    /\ identities' = {i \in identities : i.login # l}
    /\ Ending(l)
    /\ UNCHANGED <<provider, sessions, requests, clock>>

(* Mutant: the sessions are not reset. *)
DisableOnly(l, disabled) ==
    /\ Exists(l) /\ ~accounts[l].pending
    /\ Tick
    /\ accounts' = [accounts EXCEPT ![l].disabled = disabled]
    /\ Ending(l)
    /\ UNCHANGED <<groups, members, provider, identities, sessions, requests>>

(* UserResource.put with the disabled flag: reset_sessions. *)
Disable(l, disabled) ==
    /\ Exists(l) /\ ~accounts[l].pending
    /\ Tick
    /\ accounts' = [accounts EXCEPT ![l].disabled = disabled, ![l].ident = clock']
    /\ Ending(l)
    /\ UNCHANGED <<groups, members, provider, identities, sessions, requests>>

(* LoginResource.post with the right password. *)
Login(l) ==
    /\ Exists(l) /\ accounts[l].pw # 0
    /\ ~accounts[l].pending /\ ~accounts[l].disabled
    /\ Issue(l)
    /\ UNCHANGED <<people, requests, ended, clock>>

-----------------------------------------------------------------------------
(* Groups. *)

CreateGroup(n) ==
    /\ groups[n] = None
    /\ groups' = [groups EXCEPT ![n] =
          [private |-> FALSE, default |-> FALSE, immutable |-> FALSE, linked |-> FALSE]]
    /\ UNCHANGED <<accounts, members, provider, identities, sessions, requests, ended, clock>>

Changeable(n) == groups[n] # None /\ ~groups[n].immutable

(* GroupResource.put: another name, a default group, a group of the        *)
(* provider's.                                                             *)
UpdateGroup(n, name, default, linked) ==
    /\ Changeable(n)
    /\ name = n \/ groups[name] = None
    /\ linked => provider # None
    /\ groups' = [[groups EXCEPT ![n] = None]
                    EXCEPT ![name] = [groups[n] EXCEPT !.default = default, !.linked = linked]]
    /\ members' = {<<m[1], IF m[2] = n THEN name ELSE m[2]>> : m \in members}
    /\ UNCHANGED <<accounts, provider, identities, sessions, requests, ended, clock>>

DeleteGroup(n) ==
    /\ Changeable(n)
    /\ groups' = [groups EXCEPT ![n] = None]
    /\ members' = {m \in members : m[2] # n}
    /\ UNCHANGED <<accounts, provider, identities, sessions, requests, ended, clock>>

AddMember(l, n) ==
    /\ Changeable(n)
    /\ Exists(l) /\ ~accounts[l].pending
    /\ members' = members \cup {<<l, n>>}
    /\ UNCHANGED <<accounts, groups, provider, identities, sessions, requests, ended, clock>>

RemoveMember(l, n) ==
    /\ Changeable(n)
    /\ Exists(l) /\ ~accounts[l].pending
    /\ members' = members \ {<<l, n>>}
    /\ UNCHANGED <<accounts, groups, provider, identities, sessions, requests, ended, clock>>

-----------------------------------------------------------------------------
(* The provider. *)

CreateProvider(mode, approval) ==
    /\ provider = None /\ groups[ProviderGroup] = None
    /\ Tick
    /\ provider' = [uid |-> clock', mode |-> mode, approval |-> approval]
    /\ groups' = [groups EXCEPT ![ProviderGroup] =
          [private |-> FALSE, default |-> FALSE, immutable |-> TRUE, linked |-> FALSE]]
    /\ UNCHANGED <<accounts, members, identities, sessions, requests, ended>>

UpdateProvider(mode, approval) ==
    /\ provider # None
    /\ provider' = [provider EXCEPT !.mode = mode, !.approval = approval]
    /\ UNCHANGED <<accounts, groups, members, identities, sessions, requests, ended, clock>>

DeleteProvider ==
    /\ provider # None
    /\ provider' = None /\ identities' = {}
    /\ groups' = [n \in Names |->
          IF n = ProviderGroup \/ groups[n] = None THEN None
          ELSE [groups[n] EXCEPT !.linked = FALSE]]
    /\ members' = {m \in members : m[2] # ProviderGroup}
    /\ UNCHANGED <<accounts, sessions, requests, ended, clock>>

(* What synchronize_oidc_groups may not take away. *)
Kept(g, n) == g.default \/ g.private \/ n = ProviderGroup

(* synchronize_oidc_groups: the groups as they are after the missing ones  *)
(* are made, and the groups of the user.                                   *)
SyncedGroups(claims) ==
    [n \in Names |->
       IF n \in claims /\ groups[n] = None
       THEN [private |-> FALSE, default |-> FALSE, immutable |-> FALSE, linked |-> TRUE]
       ELSE groups[n]]

(* Mutant: whatever the group, who is in the claims is added. *)
SyncedNamesAll(l, current, claims) ==
    LET g == SyncedGroups(claims)
        mine(n) == provider.mode = "FULL" \/ g[n].linked
    IN  (current \cup claims) \ {n \in current \ claims : mine(n) /\ ~Kept(g[n], n)}

SyncedNames(l, current, claims) ==
    LET g == SyncedGroups(claims)
        mine(n) == provider.mode = "FULL" \/ g[n].linked
    IN  (current \cup {n \in claims : mine(n)})
          \ {n \in current \ claims : mine(n) /\ ~Kept(g[n], n)}

(* The user has the groups current before. *)
Synchronize(l, current, claims) ==
    LET now == IF provider.mode = "NONE" THEN current ELSE SyncedNames(l, current, claims)
    IN  /\ groups' = IF provider.mode = "NONE" THEN groups ELSE SyncedGroups(claims)
        /\ members' = {m \in members : m[1] # l} \cup {<<l, n>> : n \in now}

(* OpenIDAuthorizeResource.post: an account with the identity logs in. *)
Authorize(l, sub, claims) ==
    /\ provider # None
    /\ [sub |-> sub, login |-> l] \in identities
    /\ ~accounts[l].pending /\ ~accounts[l].disabled
    /\ Synchronize(l, GroupsOf(l), claims)
    /\ Issue(l)
    /\ UNCHANGED <<accounts, provider, identities, requests, ended, clock>>

-----------------------------------------------------------------------------
(* Requests that check first. *)

Begin(w, r) == requests[w] = None /\ requests' = [requests EXCEPT ![w] = r]
Finish(w) == requests' = [requests EXCEPT ![w] = None]

(* ChangePasswordResource.post up to its check. A link holds the version  *)
(* of the password it was made for; any manager makes one at any time, so  *)
(* there is always one that fits.                                          *)
VerifyLink(w, l) ==
    /\ Exists(l)
    /\ Begin(w, [kind |-> "password", login |-> l, uid |-> accounts[l].uid,
                 sub |-> None, provider |-> 0])
    /\ UNCHANGED <<people, sessions, ended, clock>>

SetPassword(w) ==
    LET l == requests[w].login
    IN  /\ requests[w] # None /\ requests[w].kind = "password"
        /\ Exists(l) /\ accounts[l].uid = requests[w].uid
        /\ Tick
        /\ accounts' = [accounts EXCEPT ![l].pw = clock']
        /\ Ending(l)
        /\ Finish(w)
        /\ UNCHANGED <<groups, members, provider, identities, sessions>>

(* OpenIDBindAccountResource.post up to its check. *)
CheckBind(w, l, sub) ==
    /\ \E s \in sessions : s.login = l /\ Usable(s)
    /\ provider # None
    /\ \A i \in identities : i.sub # sub /\ i.login # l
    /\ Begin(w, [kind |-> "bind", login |-> l, uid |-> accounts[l].uid,
                 sub |-> sub, provider |-> provider.uid])
    /\ UNCHANGED <<people, sessions, ended, clock>>

(* ... the rest: an account that is in the provider's group is refused.    *)
Bind(w) ==
    LET r == requests[w]
    IN  /\ r # None /\ r.kind = "bind"
        /\ provider # None /\ provider.uid = r.provider
        /\ Exists(r.login) /\ accounts[r.login].uid = r.uid
        /\ <<r.login, ProviderGroup>> \notin members
        /\ members' = members \cup {<<r.login, ProviderGroup>>}
        /\ identities' = identities \cup {[sub |-> r.sub, login |-> r.login]}
        /\ Finish(w)
        /\ UNCHANGED <<accounts, groups, provider, sessions, ended, clock>>

(* OpenIDRegisterUserResource.post up to its check; create_user, which     *)
(* commits; and the rest.                                                  *)
CheckRegister(w, sub) ==
    /\ provider # None
    /\ \A i \in identities : i.sub # sub
    /\ Begin(w, [kind |-> "register", login |-> None, uid |-> 0,
                 sub |-> sub, provider |-> provider.uid])
    /\ UNCHANGED <<people, sessions, ended, clock>>

CreateIdentified(w, l) ==
    /\ requests[w] # None /\ requests[w].kind = "register"
    /\ provider # None
    /\ Create(l, provider.approval)
    /\ requests' = [requests EXCEPT ![w].kind = "identify", ![w].login = l, ![w].uid = clock']
    /\ UNCHANGED <<provider, identities, sessions, ended>>

(* Mutant: the account is not put into the provider's group. *)
IdentifyOutside(w, claims) ==
    LET r == requests[w]
    IN  /\ r # None /\ r.kind = "identify"
        /\ provider # None /\ provider.uid = r.provider
        /\ Exists(r.login) /\ accounts[r.login].uid = r.uid
        /\ Synchronize(r.login, GroupsOf(r.login), claims)
        /\ identities' = identities \cup {[sub |-> r.sub, login |-> r.login]}
        /\ IF provider.approval THEN UNCHANGED sessions ELSE Issue(r.login)
        /\ Finish(w)
        /\ UNCHANGED <<accounts, provider, ended, clock>>

Identify(w, claims) ==
    LET r == requests[w]
    IN  /\ r # None /\ r.kind = "identify"
        /\ provider # None /\ provider.uid = r.provider
        /\ Exists(r.login) /\ accounts[r.login].uid = r.uid
        /\ Synchronize(r.login, GroupsOf(r.login) \cup {ProviderGroup}, claims)
        /\ identities' = identities \cup {[sub |-> r.sub, login |-> r.login]}
        /\ IF provider.approval THEN UNCHANGED sessions ELSE Issue(r.login)
        /\ Finish(w)
        /\ UNCHANGED <<accounts, provider, ended, clock>>

(* A worker dies, or its request ends in an error: a row it refers to is   *)
(* gone, a name is taken, the account is a member already.                 *)
Fail(w) ==
    /\ requests[w] # None
    /\ Finish(w)
    /\ UNCHANGED <<people, sessions, ended, clock>>

Claims == SUBSET (Logins \cup Custom)

Next ==
    \/ \E l \in Logins, pending \in BOOLEAN : CreateUser(l, pending)
    \/ \E l \in Logins : Accept(l) \/ DeleteUser(l) \/ Login(l)
    \/ \E l \in Logins, disabled \in BOOLEAN : Disable(l, disabled)
    \/ \E n \in Custom : CreateGroup(n) \/ DeleteGroup(n)
    \/ \E n, name \in Custom, default, linked \in BOOLEAN : UpdateGroup(n, name, default, linked)
    \/ \E l \in Logins, n \in Names : AddMember(l, n) \/ RemoveMember(l, n)
    \/ \E mode \in Modes, approval \in BOOLEAN :
          CreateProvider(mode, approval) \/ UpdateProvider(mode, approval)
    \/ DeleteProvider
    \/ \E l \in Logins, sub \in Subs, claims \in Claims : Authorize(l, sub, claims)
    \/ \E w \in Workers :
          \/ \E l \in Logins : VerifyLink(w, l)
          \/ SetPassword(w) \/ Bind(w) \/ Fail(w)
          \/ \E l \in Logins, sub \in Subs : CheckBind(w, l, sub)
          \/ \E sub \in Subs : CheckRegister(w, sub)
          \/ \E l \in Logins : CreateIdentified(w, l)
          \/ \E claims \in Claims : Identify(w, claims)

Spec == Init /\ [][Next]_vars

-----------------------------------------------------------------------------
(* Every account is a member of the private group with its name, and such  *)
(* a group has an account: capabilities, "only me" uploads and the         *)
(* deletion of a user rely on it.                                          *)
OwnGroup ==
    \A l \in Logins :
        IF Exists(l)
        THEN groups[l] # None /\ groups[l].private /\ groups[l].immutable /\ <<l, l>> \in members
        ELSE groups[l] = None \/ ~groups[l].private

(* An account bound to an identity is in the group of its provider, which  *)
(* no group management takes it out of.                                    *)
BoundIsMember ==
    \A i \in identities :
        provider # None /\ Exists(i.login) /\ <<i.login, ProviderGroup>> \in members

(* A session that was ended by a new password, by disabling the account or *)
(* by deleting it stays ended, whatever happens to the account later and   *)
(* whoever gets its login.                                                 *)
EndedStaysEnded == \A s \in ended : ~Usable(s)

(* In MIXED mode a login changes the membership of groups linked to the    *)
(* provider only; in any mode it leaves other users' memberships alone.    *)
SyncStaysInside ==
    [][\A l \in Logins, sub \in Subs, claims \in Claims :
          Authorize(l, sub, claims) =>
            \A m \in (members \ members') \cup (members' \ members) :
               m[1] = l /\ (provider.mode = "FULL" \/ groups'[m[2]].linked)]_vars

(* An identity of the provider belongs to one account.                     *)
OneAccountPerIdentity ==
    \A i, j \in identities : i.sub = j.sub => i.login = j.login

(* Accounts and groups are well formed: types and references, the private  *)
(* group of every account, the provider's group of every bound one.        *)
AccountsSound == TypeOK /\ OwnGroup /\ BoundIsMember
=============================================================================
