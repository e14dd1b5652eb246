------------------------------- MODULE WebSession -------------------------------
(* Who is logged in, in a browser with several tabs (commons/auth/provider.tsx). The
   session is kept in the local storage all tabs share; a tab has a copy without
   the token in the state of its AuthProvider, and the token in the default header
   of its requests. A tab refreshes the session every minute and when it is refused
   something (403), logs out when a request of it is not authenticated (401), and
   follows the storage when another tab has changed it.

   The interceptors of 401 and 403 are made at the first rendering and see the
   session of that time; a refresh under way compares its answer with the session
   of the rendering it was made in. The tokens of a user count as one, and so do
   their ends: told by the token, so that the browser removes the session, or known
   to the server only.                                                           *)
EXTENDS Naturals, FiniteSets

CONSTANTS
    Users, Tabs,
    Changing,     \* bound: the users whose tokens end and capabilities change
    Nobody,       \* no login
    MaxCaps,      \* bound: changes of a user's capabilities
    MaxLogins     \* bound: logins under way

ASSUME SessionAssumption ==
    /\ Nobody \notin Users /\ Changing \subseteq Users
    /\ MaxCaps \in Nat
    /\ MaxLogins \in Nat \ {0}

VARIABLES
    stored,    \* the session in the local storage: [login, caps]
    session,   \* the one in the state of each tab
    header,    \* whose token a tab sends
    first,     \* whether a tab was logged in at its first rendering
    told,      \* the tabs that have an event of the storage to handle
    requests,  \* under way: [tab, kind, as, saw]
    ended,     \* the users whose tokens have ended
    caps       \* which set of capabilities each user has, counted

sessionVars == <<stored, session, header, first, told, requests, ended, caps>>

NoSession == [login |-> Nobody, caps |-> 0]
Sessions == [login : Users, caps : 0..MaxCaps]
Request == [tab : Tabs, kind : {"login", "refresh"}, as : Users \cup {Nobody},
            saw : Sessions \cup {NoSession}]

IsAuthenticated(t) == session[t] # NoSession

-------------------------------------------------------------------------------
(* isSessionValid: an expired session is not read from the storage but removed. *)
StoredAuthSessions == {stored} \cup {s \in {NoSession} : stored.login \in ended}

(* Another value in the storage is an event for all other tabs. A token made within
   the second of the stored one is the same value.                               *)
Store(t, s) ==
    /\ stored' = s
    /\ \/ {s, stored} # {NoSession} /\ told' = told \cup (Tabs \ {t})
       \/ s = stored /\ told' = told

(* A tab that reads the storage writes only what it removes. *)
Read(t, s) ==
    /\ stored' = s
    /\ told' = (told \ {t}) \cup {u \in Tabs \ {t} : s # stored}

(* The header is that of the stored session; the state is left alone if the
   rendering that sets it has seen the same.                                     *)
SetSession(t, s, saw) ==
    /\ header' = [header EXCEPT ![t] = s.login]
    /\ session' = [session EXCEPT ![t] = IF s # NoSession /\ s = saw THEN @ ELSE s]

(* Mutant: the other tabs are not told. *)
UpdateSessionHere(t, s, saw) == stored' = s /\ told' = told /\ SetSession(t, s, saw)

UpdateSession(t, s, saw) == Store(t, s) /\ SetSession(t, s, saw)

-------------------------------------------------------------------------------
SessionInit ==
    /\ \E u \in Users : stored \in {NoSession, [login |-> u, caps |-> 0]}
    /\ session = [t \in Tabs |-> stored]
    /\ header = [t \in Tabs |-> stored.login]
    /\ first = [t \in Tabs |-> stored # NoSession]
    /\ told = {}
    /\ requests = {}
    /\ ended = {}
    /\ caps = [u \in Users |-> 0]

(* Bound: no refresh while another of the same tab is under way. *)
RefreshesOf(t) == {r \in requests : r.tab = t /\ r.kind = "refresh"}

Send(r) == requests' = requests \cup {r}

(* The form of the login page, or the return from an identity provider. *)
SubmitLogin(t, u) ==
    /\ ~IsAuthenticated(t)
    /\ Cardinality({r \in requests : r.kind = "login"}) < MaxLogins
    /\ Send([tab |-> t, kind |-> "login", as |-> u, saw |-> NoSession])
    /\ UNCHANGED <<stored, session, header, first, told, ended, caps>>

RefreshAtFirst(t) ==     \* mutant: the timer is set at the first rendering only
    /\ first[t] /\ IsAuthenticated(t) /\ RefreshesOf(t) = {}
    /\ Send([tab |-> t, kind |-> "refresh", as |-> header[t], saw |-> session[t]])
    /\ UNCHANGED <<stored, session, header, first, told, ended, caps>>

Refresh(t) ==
    /\ IsAuthenticated(t) /\ RefreshesOf(t) = {}
    /\ Send([tab |-> t, kind |-> "refresh", as |-> header[t], saw |-> session[t]])
    /\ UNCHANGED <<stored, session, header, first, told, ended, caps>>

(* Another request is refused with 403: the refreshSession of the first rendering,
   which does nothing in a tab opened before the login, and compares with what
   equals no answer. (A late 401 of another request does what a late one of a
   refresh does, which stands for both.)                                         *)
Forbidden(t) ==
    /\ IsAuthenticated(t) /\ first[t] /\ RefreshesOf(t) = {}
    /\ Send([tab |-> t, kind |-> "refresh", as |-> header[t], saw |-> NoSession])
    /\ UNCHANGED <<stored, session, header, first, told, ended, caps>>

(* Answers. A login gives a good token; a refresh gives the capabilities of now. *)
Accepted(r) == r.kind = "login" \/ (r.as # Nobody /\ r.as \notin ended)

Granted(r) ==
    /\ Accepted(r)
    /\ requests' = requests \ {r}
    /\ UpdateSession(r.tab, [login |-> r.as, caps |-> caps[r.as]], r.saw)
    /\ ended' = ended \ {r.as}
    /\ UNCHANGED <<first, caps>>

(* 401: the tab logs out, whoever is logged in by now. *)
Unauthorized(r) ==
    /\ ~Accepted(r)
    /\ requests' = requests \ {r}
    /\ UpdateSession(r.tab, NoSession, NoSession)
    /\ UNCHANGED <<first, ended, caps>>

(* A wrong password, a network problem. *)
Lost(r) ==
    /\ requests' = requests \ {r}
    /\ UNCHANGED <<stored, session, header, first, told, ended, caps>>

Logout(t) ==
    /\ IsAuthenticated(t)
    /\ UpdateSession(t, NoSession, NoSession)
    /\ UNCHANGED <<first, requests, ended, caps>>

(* The storage event. *)
SynchronizeSessionState(t) ==
    /\ t \in told
    /\ \E s \in StoredAuthSessions :
          Read(t, s) /\ SetSession(t, s, NoSession)
    /\ UNCHANGED <<first, requests, ended, caps>>

(* The page is loaded again, by F5 or after the provider's page. *)
Reload(t) ==
    /\ \E s \in StoredAuthSessions :
          /\ Read(t, s)
          /\ SetSession(t, s, NoSession)
          /\ first' = [first EXCEPT ![t] = s # NoSession]
    /\ requests' = {r \in requests : r.tab # t}
    /\ UNCHANGED <<ended, caps>>

(* The storage is read at every rendering, although the state is only made from it at
   the first: a session found expired is removed and the tab goes on with its copy. *)
Render(t) ==
    /\ NoSession \in StoredAuthSessions \ {stored}
    /\ stored' = NoSession
    /\ told' = told \cup (Tabs \ {t})
    /\ UNCHANGED <<session, header, first, requests, ended, caps>>

(* On the server: tokens end, capabilities change. *)
TokenEnds(u) ==
    /\ u \notin ended
    /\ ended' = ended \cup {u}
    /\ UNCHANGED <<stored, session, header, first, told, requests, caps>>

CapabilitiesChange(u) ==
    /\ caps[u] < MaxCaps
    /\ caps' = [caps EXCEPT ![u] = @ + 1]
    /\ UNCHANGED <<stored, session, header, first, told, requests, ended>>

SessionNext ==
    \/ \E t \in Tabs, u \in Users : SubmitLogin(t, u)
    \/ \E t \in Tabs : Refresh(t) \/ Forbidden(t) \/ Logout(t) \/ Reload(t) \/ Render(t)
                         \/ SynchronizeSessionState(t)
    \/ \E r \in requests : Granted(r) \/ Unauthorized(r) \/ Lost(r)
    \/ \E u \in Changing : TokenEnds(u) \/ CapabilitiesChange(u)

(* The browser delivers storage events, the timer runs, and of the refreshes a tab
   keeps sending one is answered in the end.                                     *)
SessionFairness ==
    \A t \in Tabs :
       /\ WF_sessionVars(SynchronizeSessionState(t))
       /\ WF_sessionVars(Refresh(t))
       /\ SF_sessionVars(\E r \in RefreshesOf(t) : Granted(r) \/ Unauthorized(r))

SessionSpec == SessionInit /\ [][SessionNext]_sessionVars /\ SessionFairness

-------------------------------------------------------------------------------
SessionTypeOK ==
    /\ stored \in Sessions \cup {NoSession}
    /\ session \in [Tabs -> Sessions \cup {NoSession}]
    /\ header \in [Tabs -> Users \cup {Nobody}]
    /\ first \in [Tabs -> BOOLEAN]
    /\ told \subseteq Tabs
    /\ requests \subseteq Request
    /\ ended \subseteq Users
    /\ caps \in [Users -> 0..MaxCaps]

(* A tab that has handled the events of the storage sends the token that is stored, or
   one that has ended when none is: two tabs do not act as two users for longer than
   that, whichever of them logs in or out, refreshes, reads or is loaded again.   *)
OneUser ==
    \A t \in Tabs \ told :
        \/ header[t] = stored.login
        \/ stored = NoSession /\ header[t] \in ended

Agrees(t) ==
    IsAuthenticated(t) =>
        header[t] = session[t].login /\ session[t].caps = caps[session[t].login]

(* A tab that is logged in comes to show the user it acts as, with the capabilities
   he has, however the answers of its refreshes cross those of other tabs.       *)
TabsAgree == \A t \in Tabs : []<>Agrees(t)

(* "Clears session state": who has logged out is not logged in by an old answer. *)
LoggedOutStays ==
    [][\A t \in Tabs : stored = NoSession /\ stored' # NoSession =>
          \E r \in requests : r.kind = "login" /\ r \notin requests']_sessionVars

(* Between any logins, refreshes and events of other tabs, tabs that have been told act
   as the user of the stored session.                                             *)
SessionSound == SessionTypeOK /\ OneUser
================================================================================
