---------------------------- MODULE WebLoginProofs ----------------------------
(* Theorems about the sessions of the web client.

   WebSession: a tab which has handled the events of the storage sends the token that
   is stored, or one that has ended when none is, for any number of tabs, users, logins
   and refreshes under way. A tab that only reads tells nobody, so the tabs that have
   not been told since the last write have all read what it wrote; that is inductive
   once a login is known to be one of somebody.

   LoginFlow: a state is given to the server once at most however often the user comes
   back to the callback's address, and who asked for a guarded page and logs in at once
   gets to that page; for any routes, capabilities and states.                     *)
EXTENDS WebSession, LoginFlow, TLAPS

(* The form of the login page names a user. *)
LoginsNamed == \A r \in requests : r.kind = "login" => r.as \in Users

SessionInv == SessionTypeOK /\ LoginsNamed /\ OneUser

-------------------------------------------------------------------------------
(* What SetSession makes of a session is one, and the header is its user's. *)
LEMMA SetKeeps ==
    ASSUME SessionTypeOK,
           NEW t \in Tabs, NEW s \in Sessions \cup {NoSession}, NEW saw,
           SetSession(t, s, saw)
    PROVE  /\ session' \in [Tabs -> Sessions \cup {NoSession}]
           /\ header' \in [Tabs -> Users \cup {Nobody}]
           /\ header'[t] = s.login
           /\ \A u \in Tabs \ {t} : header'[u] = header[u]
<1>1. s.login \in Users \cup {Nobody}
  BY DEF Sessions, NoSession
<1>2. QED
  BY <1>1 DEF SetSession, SessionTypeOK

(* A session written by UpdateSession; tokens it makes good again were not of a tab
   that is up to date.                                                            *)
LEMMA UpdateKeeps ==
    ASSUME SessionTypeOK, OneUser,
           NEW t \in Tabs, NEW s \in Sessions \cup {NoSession}, NEW saw,
           UpdateSession(t, s, saw),
           ended \subseteq ended' \cup {s.login}
    PROVE  /\ stored' \in Sessions \cup {NoSession}
           /\ session' \in [Tabs -> Sessions \cup {NoSession}]
           /\ header' \in [Tabs -> Users \cup {Nobody}]
           /\ told' \subseteq Tabs
           /\ OneUser'
<1>1. /\ stored' = s /\ SetSession(t, s, saw)
      /\ \/ told' = told \cup (Tabs \ {t})
         \/ s = stored /\ told' = told
  BY DEF UpdateSession, Store
<1>2. /\ header' \in [Tabs -> Users \cup {Nobody}]
      /\ session' \in [Tabs -> Sessions \cup {NoSession}]
      /\ header'[t] = s.login
      /\ \A u \in Tabs \ {t} : header'[u] = header[u]
  BY <1>1, SetKeeps
<1>3. ASSUME NEW u \in Tabs, u \notin told'
      PROVE  \/ header'[u] = stored'.login
             \/ stored' = NoSession /\ header'[u] \in ended'
  <2>1. CASE u = t
    BY <1>1, <1>2, <2>1
  <2>2. CASE u # t
    <3>1. s = stored /\ u \notin told /\ header'[u] = header[u]
      BY <1>1, <1>2, <1>3, <2>2
    <3>2. QED
      BY <1>1, <3>1 DEF OneUser
  <2>3. QED
    BY <2>1, <2>2
<1>4. QED
  BY <1>1, <1>2, <1>3 DEF SessionTypeOK, OneUser

(* A session read from the storage, which is the stored one or, ended, none. *)
LEMMA ReadingKeeps ==
    ASSUME SessionTypeOK, OneUser, ended' = ended,
           NEW t \in Tabs, NEW s \in StoredAuthSessions,
           Read(t, s), SetSession(t, s, NoSession)
    PROVE  /\ stored' \in Sessions \cup {NoSession}
           /\ session' \in [Tabs -> Sessions \cup {NoSession}]
           /\ header' \in [Tabs -> Users \cup {Nobody}]
           /\ told' \subseteq Tabs
           /\ OneUser'
<1>1. s \in Sessions \cup {NoSession}
  BY DEF StoredAuthSessions, SessionTypeOK
<1>2. /\ stored' = s
      /\ told' = (told \ {t}) \cup {u \in Tabs \ {t} : s # stored}
  BY DEF Read
<1>3. /\ header' \in [Tabs -> Users \cup {Nobody}]
      /\ session' \in [Tabs -> Sessions \cup {NoSession}]
      /\ header'[t] = s.login
      /\ \A u \in Tabs \ {t} : header'[u] = header[u]
  BY <1>1, SetKeeps
<1>4. ASSUME NEW u \in Tabs, u \notin told'
      PROVE  \/ header'[u] = stored'.login
             \/ stored' = NoSession /\ header'[u] \in ended'
  <2>1. CASE u = t
    BY <1>2, <1>3, <2>1
  <2>2. CASE u # t
    <3>1. s = stored /\ u \notin told /\ header'[u] = header[u]
      BY <1>2, <1>3, <1>4, <2>2
    <3>2. QED
      BY <1>2, <3>1 DEF OneUser
  <2>3. QED
    BY <2>1, <2>2
<1>5. QED
  BY <1>1, <1>2, <1>3, <1>4 DEF SessionTypeOK, OneUser

-------------------------------------------------------------------------------
LEMMA SessionInitially == SessionInit => SessionInv
<1> SUFFICES ASSUME SessionInit PROVE SessionInv
  OBVIOUS
<1>1. stored \in Sessions \cup {NoSession}
  BY SessionAssumption DEF SessionInit, Sessions, NoSession
<1>2. stored.login \in Users \cup {Nobody}
  BY <1>1 DEF Sessions, NoSession
<1>3. caps \in [Users -> 0..MaxCaps]
  BY SessionAssumption DEF SessionInit
<1>4. SessionTypeOK
  BY <1>1, <1>2, <1>3 DEF SessionInit, SessionTypeOK
<1>5. LoginsNamed /\ OneUser
  BY DEF SessionInit, LoginsNamed, OneUser
<1>6. QED
  BY <1>4, <1>5 DEF SessionInv

LEMMA SessionStep == SessionInv /\ [SessionNext]_sessionVars => SessionInv'
<1> SUFFICES ASSUME SessionInv, [SessionNext]_sessionVars
             PROVE  SessionInv'
  OBVIOUS
<1> USE DEF SessionInv
<1>1. ASSUME NEW t \in Tabs, NEW u \in Users, SubmitLogin(t, u)
      PROVE  SessionInv'
  <2> DEFINE r == [tab |-> t, kind |-> "login", as |-> u, saw |-> NoSession]
  <2>1. r \in Request /\ r.as \in Users
    BY DEF Request
  <2>2. requests' = requests \cup {r}
    BY <1>1 DEF SubmitLogin, Send
  <2>3. SessionTypeOK' /\ LoginsNamed'
    BY <1>1, <2>1, <2>2 DEF SessionTypeOK, SubmitLogin, LoginsNamed
  <2>4. OneUser'
    BY <1>1 DEF SubmitLogin, OneUser
  <2>5. QED
    BY <2>3, <2>4
<1>2. ASSUME NEW t \in Tabs, Refresh(t) \/ Forbidden(t)
      PROVE  SessionInv'
  <2> DEFINE ask(saw) == [tab |-> t, kind |-> "refresh", as |-> header[t], saw |-> saw]
  <2>1. PICK saw \in Sessions \cup {NoSession} : requests' = requests \cup {ask(saw)}
    BY <1>2 DEF Refresh, Forbidden, Send, SessionTypeOK
  <2>2. ask(saw) \in Request /\ ask(saw).kind # "login"
    BY DEF Request, SessionTypeOK
  <2>3. SessionTypeOK' /\ LoginsNamed'
    BY <1>2, <2>1, <2>2 DEF SessionTypeOK, Refresh, Forbidden, LoginsNamed
  <2>4. OneUser'
    BY <1>2 DEF Refresh, Forbidden, OneUser
  <2>5. QED
    BY <2>3, <2>4
<1>3. ASSUME NEW r \in requests, Granted(r)
      PROVE  SessionInv'
  <2>1. r.tab \in Tabs /\ r.as \in Users
    BY <1>3 DEF SessionTypeOK, Request, LoginsNamed, Granted, Accepted
  <2> DEFINE s == [login |-> r.as, caps |-> caps[r.as]]
  <2>2. s \in Sessions
    BY <2>1 DEF SessionTypeOK, Sessions
  <2>3. UpdateSession(r.tab, s, r.saw)
    BY <1>3 DEF Granted
  <2>4. /\ requests' = requests \ {r} /\ ended' = ended \ {r.as}
        /\ first' = first /\ caps' = caps
    BY <1>3 DEF Granted
  <2>5. ended \subseteq ended' \cup {s.login}
    BY <2>4 DEF s
  <2> HIDE DEF s
  <2>6. QED
    BY <2>1, <2>2, <2>3, <2>4, <2>5, UpdateKeeps DEF SessionTypeOK, LoginsNamed
<1>4. ASSUME NEW r \in requests, Unauthorized(r)
      PROVE  SessionInv'
  <2>1. r.tab \in Tabs
    BY DEF SessionTypeOK, Request
  <2>2. /\ UpdateSession(r.tab, NoSession, NoSession)
        /\ requests' = requests \ {r} /\ ended' = ended
        /\ first' = first /\ caps' = caps
    BY <1>4 DEF Unauthorized
  <2>3. QED
    BY <2>1, <2>2, UpdateKeeps DEF SessionTypeOK, LoginsNamed
<1>5. ASSUME NEW r \in requests, Lost(r)
      PROVE  SessionInv'
  BY <1>5 DEF Lost, SessionTypeOK, LoginsNamed, OneUser
<1>6. ASSUME NEW t \in Tabs, Logout(t)
      PROVE  SessionInv'
  BY <1>6, UpdateKeeps DEF Logout, SessionTypeOK, LoginsNamed
<1>7. ASSUME NEW t \in Tabs, SynchronizeSessionState(t)
      PROVE  SessionInv'
  <2>1. PICK s \in StoredAuthSessions :
           Read(t, s) /\ SetSession(t, s, NoSession)
    BY <1>7 DEF SynchronizeSessionState
  <2>2. QED
    BY <1>7, <2>1, ReadingKeeps DEF SynchronizeSessionState, SessionTypeOK, LoginsNamed
<1>8. ASSUME NEW t \in Tabs, Reload(t)
      PROVE  SessionInv'
  <2>1. PICK s \in StoredAuthSessions :
           /\ Read(t, s) /\ SetSession(t, s, NoSession)
           /\ first' = [first EXCEPT ![t] = s # NoSession]
    BY <1>8 DEF Reload
  <2>2. first' \in [Tabs -> BOOLEAN]
    BY <2>1 DEF SessionTypeOK
  <2>3. /\ requests' \subseteq requests /\ ended' = ended /\ caps' = caps
    BY <1>8 DEF Reload
  <2>4. QED
    BY <2>1, <2>2, <2>3, ReadingKeeps DEF SessionTypeOK, LoginsNamed
<1>9. ASSUME NEW t \in Tabs, Render(t)
       PROVE  SessionInv'
  <2>1. stored.login \in ended /\ stored' = NoSession
    BY <1>9 DEF Render, StoredAuthSessions
  <2>2. SessionTypeOK' /\ LoginsNamed'
    BY <1>9, <2>1 DEF Render, SessionTypeOK, LoginsNamed
  <2>3. ASSUME NEW u \in Tabs, u \notin told'
        PROVE  header'[u] \in ended'
    BY <1>9, <2>1, <2>3 DEF Render, OneUser
  <2>4. QED
    BY <2>1, <2>2, <2>3 DEF OneUser
<1>10. ASSUME NEW u \in Changing, TokenEnds(u)
      PROVE  SessionInv'
  BY <1>10, SessionAssumption DEF TokenEnds, SessionTypeOK, LoginsNamed, OneUser
<1>11. ASSUME NEW u \in Changing, CapabilitiesChange(u)
       PROVE  SessionInv'
  <2>1. u \in Users
    BY SessionAssumption
  <2>2. caps' = [caps EXCEPT ![u] = @ + 1] /\ caps[u] < MaxCaps
    BY <1>11 DEF CapabilitiesChange
  <2>3. caps' \in [Users -> 0..MaxCaps]
    BY <2>1, <2>2, SessionAssumption DEF SessionTypeOK
  <2>4. QED
    BY <1>11, <2>3 DEF CapabilitiesChange, SessionTypeOK, LoginsNamed, OneUser
<1>12. CASE UNCHANGED sessionVars
  BY <1>12 DEF sessionVars, SessionTypeOK, LoginsNamed, OneUser
<1>13. QED
  BY <1>1, <1>2, <1>3, <1>4, <1>5, <1>6, <1>7, <1>8, <1>9, <1>10, <1>11, <1>12
     DEF SessionNext

-------------------------------------------------------------------------------
(* The storage, the tabs and the requests keep their types, and two tabs that have
   handled what they were told do not act as two users: they send the stored token or,
   when there is none, nothing or one that has ended.                             *)
THEOREM OneUserActs == SessionSpec => []SessionSound
<1>1. SessionInv => SessionSound
  BY DEF SessionInv, SessionSound
<1>2. QED
  BY <1>1, SessionInitially, SessionStep, PTL DEF SessionSpec

-------------------------------------------------------------------------------
(* What the page that waits for an answer has kept for it. *)
AwaitedKnown ==
    /\ awaited.is = "login" => awaited.for \in Routes \cup {Absent}
    /\ awaited.is = "authorize" => returning \in States

(* While a guarded page is wanted its address is kept by the login page, or by the
   login that is under way.                                                        *)
WantedKept ==
    wanted # Absent =>
        /\ viewer = Absent /\ route = "/login" /\ prev = wanted
        /\ awaited \in {Nothing, [is |-> "login", for |-> wanted]}

FlowInv == FlowTypeOK /\ AwaitedKnown /\ ExchangedOnce /\ WantedKept

-------------------------------------------------------------------------------
LEMMA KnownRoutes ==
    /\ {"/", "/login", "/oauth/callback", "/profile/oauth"} \subseteq Routes
    /\ \A r \in {"/login", "/oauth/callback"} : ~RequiresAuth(r) /\ ~RequiresCapability(r)
    /\ \A r \in Routes : RequiresCapability(r) => RequiresAuth(r)
BY FlowAssumption DEF Routes, RequiresAuth, RequiresCapability

LEMMA FlowInitially == FlowInit => FlowInv
<1> SUFFICES ASSUME FlowInit PROVE FlowInv
  OBVIOUS
<1>1. FlowTypeOK
  BY DEF FlowInit, FlowTypeOK, Nothing
<1>2. AwaitedKnown /\ WantedKept
  BY DEF FlowInit, AwaitedKnown, WantedKept, Nothing
<1>3. ExchangedOnce
  BY DEF FlowInit, ExchangedOnce
<1>4. QED
  BY <1>1, <1>2, <1>3 DEF FlowInv

(* Of the steps: those that only move the user or end what he waits for. *)
LEMMA Unexchanged ==
    ASSUME ExchangedOnce, UNCHANGED <<kept, exchanged>>
    PROVE  ExchangedOnce'
BY DEF ExchangedOnce

LEMMA FlowStep == FlowInv /\ [FlowNext]_flowVars => FlowInv'
<1> SUFFICES ASSUME FlowInv, [FlowNext]_flowVars
             PROVE  FlowInv'
  OBVIOUS
<1> USE DEF FlowInv
<1>1. CASE Redirect
  <2>1. viewer = Absent => RequiresAuth(route) /\ route # "/login"
    BY <1>1, KnownRoutes DEF Redirect, Shown
  <2>2. wanted # Absent => FALSE
    BY <2>1 DEF WantedKept
  <2>3. route' \in {"/", "/login"} /\ prev' \in {route, Absent}
    BY <1>1 DEF Redirect, Guard, Navigate
  <2>4. FlowTypeOK'
    BY <1>1, <2>3, KnownRoutes DEF Redirect, FlowTypeOK
  <2>5. AwaitedKnown'
    BY <1>1 DEF Redirect, AwaitedKnown
  <2>6. WantedKept'
    BY <1>1, <2>1, <2>2 DEF Redirect, Guard, Navigate, WantedKept
  <2>7. QED
    BY <1>1, <2>4, <2>5, <2>6, Unexchanged DEF Redirect
<1>2. ASSUME NEW r \in Routes, Go(r)
      PROVE  FlowInv'
  <2>1. FlowTypeOK' /\ AwaitedKnown' /\ WantedKept'
    BY <1>2 DEF Go, Navigate, FlowTypeOK, AwaitedKnown, WantedKept
  <2>2. QED
    BY <1>2, <2>1, Unexchanged DEF Go
<1>3. CASE FlowLogout
  <2>1. FlowTypeOK' /\ AwaitedKnown' /\ WantedKept'
    BY <1>3, KnownRoutes DEF FlowLogout, Navigate, FlowTypeOK, AwaitedKnown, WantedKept
  <2>2. QED
    BY <1>3, <2>1, Unexchanged DEF FlowLogout
<1>4. CASE SessionChanges
  <2>1. FlowTypeOK' /\ AwaitedKnown' /\ WantedKept'
    BY <1>4 DEF SessionChanges, FlowTypeOK, AwaitedKnown, WantedKept
  <2>2. QED
    BY <1>4, <2>1, Unexchanged DEF SessionChanges
<1>5. CASE TryLogin
  <2>1. FlowTypeOK' /\ AwaitedKnown'
    BY <1>5 DEF TryLogin, FlowTypeOK, AwaitedKnown
  <2>2. WantedKept'
    BY <1>5 DEF TryLogin, WantedKept
  <2>3. QED
    BY <1>5, <2>1, <2>2, Unexchanged DEF TryLogin
<1>6. CASE LoggedIn
  <2>1. route' \in Routes /\ prev' = Absent
    BY <1>6, KnownRoutes DEF LoggedIn, Navigate, AwaitedKnown
  <2>2. FlowTypeOK' /\ AwaitedKnown' /\ WantedKept'
    BY <1>6, <2>1 DEF LoggedIn, FlowTypeOK, AwaitedKnown, WantedKept, Nothing
  <2>3. QED
    BY <1>6, <2>2, Unexchanged DEF LoggedIn
<1>7. CASE NotLoggedIn
  <2>1. FlowTypeOK' /\ AwaitedKnown'
    BY <1>7 DEF NotLoggedIn, FlowTypeOK, AwaitedKnown, Nothing
  <2>2. WantedKept'
    BY <1>7 DEF NotLoggedIn, WantedKept
  <2>3. QED
    BY <1>7, <2>1, <2>2, Unexchanged DEF NotLoggedIn
<1>8. ASSUME NEW s \in States, Callback(s)
      PROVE  FlowInv'
  <2>1. FlowTypeOK' /\ AwaitedKnown' /\ WantedKept'
    BY <1>8, KnownRoutes DEF Callback, FlowTypeOK, AwaitedKnown, WantedKept
  <2>2. QED
    BY <1>8, <2>1, Unexchanged DEF Callback
<1>9. ASSUME NEW s \in States, NEW a \in Actions, Authenticate(s, a)
      PROVE  FlowInv'
  <2>1. FlowTypeOK' /\ AwaitedKnown' /\ WantedKept'
    BY <1>9 DEF Authenticate, FlowTypeOK, AwaitedKnown, WantedKept
  <2>2. ExchangedOnce'
    <3>1. kept' = [kept EXCEPT ![s] = a] /\ exchanged' = exchanged /\ exchanged[s] = 0
      BY <1>9 DEF Authenticate
    <3>2. QED
      BY <3>1 DEF ExchangedOnce, FlowTypeOK
  <2>3. QED
    BY <2>1, <2>2
<1>10. CASE InvalidState
  <2>1. FlowTypeOK' /\ AwaitedKnown'
    BY <1>10, KnownRoutes DEF InvalidState, Navigate, FlowTypeOK, AwaitedKnown, Nothing
  <2>2. WantedKept'
    BY <1>10 DEF InvalidState, WantedKept, Nothing
  <2>3. QED
    BY <1>10, <2>1, <2>2, Unexchanged DEF InvalidState
<1>11. CASE Exchange
  <2>1. returning \in States /\ kept[returning] \in Actions \cup {Absent}
    BY <1>11 DEF Exchange, AwaitedKnown, FlowTypeOK
  <2>2. /\ kept' = [kept EXCEPT ![returning] = Absent]
        /\ exchanged' = [exchanged EXCEPT ![returning] = @ + 1]
        /\ kept[returning] # Absent
    BY <1>11 DEF Exchange, TakenOut
  <2>3. exchanged[returning] = 0
    BY <2>1, <2>2 DEF ExchangedOnce, FlowTypeOK
  <2>4. ExchangedOnce'
    BY <2>1, <2>2, <2>3 DEF ExchangedOnce, FlowTypeOK
  <2>5. kept' \in [States -> Actions \cup {Absent}] /\ exchanged' \in [States -> Nat]
    BY <2>1, <2>2 DEF FlowTypeOK
  <2>6. FlowTypeOK' /\ AwaitedKnown'
    BY <1>11, <2>1, <2>5 DEF Exchange, FlowTypeOK, AwaitedKnown
  <2>7. WantedKept'
    BY <1>11 DEF Exchange, WantedKept, Nothing
  <2>8. QED
    BY <2>4, <2>6, <2>7
<1>12. CASE Expired
  <2>1. returning \in States
    BY <1>12 DEF Expired, AwaitedKnown
  <2>2. kept' = [kept EXCEPT ![returning] = Absent] /\ exchanged' = exchanged
    BY <1>12 DEF Expired, TakenOut
  <2>3. ExchangedOnce' /\ kept' \in [States -> Actions \cup {Absent}]
    BY <2>1, <2>2 DEF ExchangedOnce, FlowTypeOK
  <2>4. route' \in Routes /\ prev' = Absent
    BY <1>12, KnownRoutes DEF Expired, Navigate
  <2>5. FlowTypeOK' /\ AwaitedKnown'
    BY <1>12, <2>3, <2>4 DEF Expired, FlowTypeOK, AwaitedKnown, Nothing
  <2>6. WantedKept'
    BY <1>12 DEF Expired, WantedKept, Nothing
  <2>7. QED
    BY <2>3, <2>5, <2>6
<1>13. CASE Authorized \/ NotAuthorized
  <2>1. /\ route' \in Routes /\ prev' = Absent /\ awaited' = Nothing
        /\ viewer' \in {Absent} \cup SUBSET Capabilities
        /\ UNCHANGED <<began, kept, returning, exchanged, wanted>>
    BY <1>13, KnownRoutes DEF Authorized, NotAuthorized, Navigate, FlowTypeOK
  <2>2. FlowTypeOK' /\ AwaitedKnown'
    BY <2>1 DEF FlowTypeOK, AwaitedKnown, Nothing
  <2>3. WantedKept'
    BY <1>13, <2>1 DEF Authorized, NotAuthorized, WantedKept, Nothing
  <2>4. QED
    BY <2>1, <2>2, <2>3, Unexchanged
<1>14. CASE UNCHANGED flowVars
  BY <1>14 DEF flowVars, FlowTypeOK, AwaitedKnown, ExchangedOnce, WantedKept
<1>15. QED
  BY <1>1, <1>2, <1>3, <1>4, <1>5, <1>6, <1>7, <1>8, <1>9, <1>10, <1>11, <1>12, <1>13,
     <1>14 DEF FlowNext

-------------------------------------------------------------------------------
(* Addresses, the session storage and what is awaited keep their types. *)
THEOREM FlowTypes == FlowSpec => []FlowTypeOK
<1>1. FlowInv => FlowTypeOK
  BY DEF FlowInv
<1>2. QED
  BY <1>1, FlowInitially, FlowStep, PTL DEF FlowSpec

(* A state is exchanged for a session once, and then is not kept any more. *)
THEOREM StateExchangedOnce == FlowSpec => []ExchangedOnce
<1>1. FlowInv => ExchangedOnce
  BY DEF FlowInv
<1>2. QED
  BY <1>1, FlowInitially, FlowStep, PTL DEF FlowSpec

(* The page that was wanted in vain is where a login leads. *)
THEOREM ReturnsToWanted == FlowSpec => ReturnsWhereWanted
<1> DEFINE Leads ==
      awaited.is = "login" /\ awaited' = Nothing /\ viewer' # Absent /\ wanted # Absent
         => route' = wanted
<1>1. FlowInv /\ [FlowNext]_flowVars => [Leads]_flowVars
  <2> SUFFICES ASSUME FlowInv, FlowNext, awaited.is = "login", awaited' = Nothing,
                      viewer' # Absent, wanted # Absent
               PROVE  route' = wanted
    OBVIOUS
  <2>1. viewer = Absent /\ awaited = [is |-> "login", for |-> wanted]
    BY DEF FlowInv, WantedKept, Nothing
  <2>2. CASE LoggedIn
    BY <2>1, <2>2 DEF LoggedIn, Navigate
  <2>3. CASE NotLoggedIn
    BY <2>1, <2>3 DEF NotLoggedIn
  <2>4. awaited # Nothing
    BY DEF Nothing
  <2>5. CASE \/ Redirect \/ FlowLogout \/ SessionChanges \/ TryLogin
             \/ \E r \in Routes : Go(r)
    BY <2>4, <2>5 DEF Redirect, FlowLogout, SessionChanges, TryLogin, Go
  <2>6. CASE \E s \in States : Callback(s) \/ \E a \in Actions : Authenticate(s, a)
    BY <2>4, <2>6 DEF Callback, Authenticate, Nothing
  <2>7. CASE InvalidState \/ Exchange \/ Expired \/ Authorized \/ NotAuthorized
    BY <2>7 DEF InvalidState, Exchange, Expired, Authorized, NotAuthorized
  <2>8. QED
    BY <2>2, <2>3, <2>5, <2>6, <2>7 DEF FlowNext
<1>2. QED
  BY <1>1, FlowInitially, FlowStep, PTL DEF FlowSpec, ReturnsWhereWanted
================================================================================
