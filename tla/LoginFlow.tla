-------------------------------- MODULE LoginFlow --------------------------------
(* The addresses of the web client in one tab: the guards of the routes
   (AppRoutes.tsx, RequiresAuth.tsx, RequiresCapability.tsx), the login page, and the
   way through an identity provider and back (authenticate.ts, ProfileOAuth.tsx,
   OAuthAuthorizeView.tsx). A redirect keeps in the state of the new location where
   the user came from; before it leaves for a provider the tab keeps in its session
   storage what it wanted there, and takes it out when it is back.

   The session itself is WebSession's; here it comes, changes and goes at any time. *)
EXTENDS Naturals, FiniteSets

CONSTANTS
    Capabilities,  \* those that guard a route
    AppRoutes,     \* route -> "public", "auth" or the capability it requires
    Absent,        \* no session, no location to return to
    States,        \* the states a provider is given, each once
    Expires        \* whether five minutes can pass at a provider's

ASSUME FlowAssumption ==
    /\ {"/", "/login", "/oauth/callback", "/profile/oauth"} \subseteq DOMAIN AppRoutes
    /\ \A r \in DOMAIN AppRoutes : AppRoutes[r] \in {"public", "auth"} \cup Capabilities
    /\ AppRoutes["/"] = "auth" /\ AppRoutes["/profile/oauth"] = "auth"
    /\ AppRoutes["/login"] = "public" /\ AppRoutes["/oauth/callback"] = "public"
    /\ {"public", "auth"} \cap Capabilities = {}

VARIABLES
    viewer,     \* the capabilities of who is logged in, or Absent
    route,      \* the address; "provider" while the user is at a provider's
    prev,       \* location.state.prevLocation, or Absent
    began,      \* the route of the first rendering, which logout remembers
    kept,       \* sessionStorage: state -> the action begun with it, or Absent
    awaited,    \* what is under way: [is, for], for the route or the action of it
    returning,  \* the state with which the callback page has been opened, or Absent
    exchanged,  \* how often each state has been given to the server
    wanted      \* the guarded page the user has last asked for in vain, or Absent

flowVars ==
    <<viewer, route, prev, began, kept, awaited, returning, exchanged, wanted>>

Routes == DOMAIN AppRoutes
Actions == {"authorize", "register", "bind_account"}
Nothing == [is |-> "nothing", for |-> Absent]

-------------------------------------------------------------------------------
(* What the guards show, and where they send those they do not let in. *)
RequiresAuth(r) == AppRoutes[r] # "public"
RequiresCapability(r) == AppRoutes[r] \in Capabilities

Shown(r) ==
    /\ RequiresAuth(r) => viewer # Absent
    /\ RequiresCapability(r) => AppRoutes[r] \in viewer
    /\ r = "/login" => viewer = Absent

(* Navigate to the route r, with p as the location to return to. *)
Navigate(r, p) == route' = r /\ prev' = p

(* Mutant: where who is sent to the login came from is forgotten. *)
GuardForgets ==
    IF RequiresAuth(route) /\ viewer = Absent THEN Navigate("/login", Absent)
    ELSE Navigate("/", Absent)

Guard ==
    IF RequiresAuth(route) /\ viewer = Absent THEN Navigate("/login", route)
    ELSE Navigate("/", Absent)

-------------------------------------------------------------------------------
FlowInit ==
    /\ viewer \in {Absent} \cup SUBSET Capabilities
    /\ route \in Routes \ {"/oauth/callback"}
    /\ prev = Absent
    /\ began = route
    /\ kept = [s \in States |-> Absent]
    /\ awaited = Nothing
    /\ returning = Absent
    /\ exchanged = [s \in States |-> 0]
    /\ wanted = Absent

Settled == route \in Routes /\ Shown(route)

(* The router renders the route; a guard sends the user elsewhere. *)
Redirect ==
    /\ route \in Routes /\ ~Shown(route)
    /\ Guard
    /\ wanted' = IF viewer = Absent /\ awaited = Nothing THEN route ELSE wanted
    /\ UNCHANGED <<viewer, began, kept, awaited, returning, exchanged>>

(* The user follows a link; what his page has asked for stays under way. *)
Go(r) ==
    /\ Settled /\ r # "/oauth/callback"
    /\ awaited.is # "authorize"
    /\ Navigate(r, Absent)
    /\ wanted' = Absent
    /\ UNCHANGED <<viewer, began, kept, awaited, returning, exchanged>>

(* logout remembers the location of the rendering it was made in: the present one
   for the button, the first one for the interceptor of 401.                     *)
FlowLogout ==
    /\ viewer # Absent /\ route \in Routes
    /\ viewer' = Absent
    /\ \E from \in {route, began} : Navigate("/login", from)
    /\ wanted' = Absent
    /\ UNCHANGED <<began, kept, awaited, returning, exchanged>>

(* Another tab logs in or out, or a refresh brings other capabilities. *)
SessionChanges ==
    /\ route \in Routes
    /\ \E s \in {Absent} \cup SUBSET Capabilities : s # viewer /\ viewer' = s
    /\ wanted' = Absent
    /\ UNCHANGED <<route, prev, began, kept, awaited, returning, exchanged>>

(* tryLogin, and its answers: back to where the user came from. *)
TryLogin ==
    /\ route = "/login" /\ Settled /\ awaited = Nothing
    /\ awaited' = [is |-> "login", for |-> prev]
    /\ UNCHANGED <<viewer, route, prev, began, kept, returning, exchanged, wanted>>

LoggedIn ==
    /\ awaited.is = "login"
    /\ \E s \in SUBSET Capabilities : viewer' = s
    /\ Navigate(IF awaited.for # Absent THEN awaited.for ELSE "/", Absent)
    /\ awaited' = Nothing
    /\ wanted' = Absent
    /\ UNCHANGED <<began, kept, returning, exchanged>>

NotLoggedIn ==
    /\ awaited.is = "login"
    /\ awaited' = Nothing
    /\ UNCHANGED <<viewer, route, prev, began, kept, returning, exchanged, wanted>>

(* authenticate, bindProvider: the server gives a state, the tab keeps the action
   with it and leaves.                                                           *)
Authenticate(s, action) ==
    /\ Settled /\ awaited = Nothing
    /\ route = IF action = "bind_account" THEN "/profile/oauth" ELSE "/login"
    /\ kept[s] = Absent /\ exchanged[s] = 0 /\ returning # s
    /\ kept' = [kept EXCEPT ![s] = action]
    /\ route' = "provider" /\ prev' = Absent
    /\ wanted' = Absent
    /\ UNCHANGED <<viewer, began, awaited, returning, exchanged>>

(* The provider sends the browser back, or the callback's address is opened again:
   the application starts anew, with the session that is stored by then.          *)
Callback(s) ==
    /\ route = "provider" \/ (Settled /\ returning = s)
    /\ route' = "/oauth/callback" /\ prev' = Absent /\ began' = "/oauth/callback"
    /\ \E c \in {Absent} \cup SUBSET Capabilities : viewer' = c
    /\ returning' = s
    /\ awaited' = [is |-> "authorize", for |-> Absent]
    /\ wanted' = Absent
    /\ UNCHANGED <<kept, exchanged>>

(* authorize, when the page is mounted. *)
InvalidState ==
    /\ awaited.is = "authorize" /\ kept[returning] = Absent
    /\ Navigate("/", Absent)
    /\ awaited' = Nothing
    /\ UNCHANGED <<viewer, began, kept, returning, exchanged, wanted>>

(* Mutant: the action is taken out only when the server has answered. *)
TakenOutLater == kept
TakenOut == [kept EXCEPT ![returning] = Absent]

Exchange ==
    /\ awaited.is = "authorize" /\ kept[returning] # Absent
    /\ kept' = TakenOut
    /\ exchanged' = [exchanged EXCEPT ![returning] = @ + 1]
    /\ awaited' = [is |-> "exchange", for |-> kept[returning]]
    /\ UNCHANGED <<viewer, route, prev, began, returning, wanted>>

Expired ==
    /\ Expires /\ awaited.is = "authorize" /\ kept[returning] # Absent
    /\ kept' = TakenOut
    /\ Navigate(IF kept[returning] = "bind_account" THEN "/profile/oauth" ELSE "/login",
                Absent)
    /\ awaited' = Nothing
    /\ UNCHANGED <<viewer, began, returning, exchanged, wanted>>

(* The answer: an identity bound, a registration that waits for acceptance, or a
   session; a failure. (The login page then may propose to register.)             *)
Authorized ==
    /\ awaited.is = "exchange"
    /\ \/ /\ awaited.for = "bind_account"
          /\ Navigate("/profile/oauth", Absent) /\ UNCHANGED viewer
       \/ /\ awaited.for = "register"
          /\ Navigate("/login", Absent) /\ UNCHANGED viewer
       \/ /\ awaited.for # "bind_account"
          /\ \E s \in SUBSET Capabilities : viewer' = s /\ Navigate("/", Absent)
    /\ awaited' = Nothing
    /\ UNCHANGED <<began, kept, returning, exchanged, wanted>>

NotAuthorized ==
    /\ awaited.is = "exchange"
    /\ Navigate(IF awaited.for = "bind_account" THEN "/profile/oauth" ELSE "/login", Absent)
    /\ awaited' = Nothing
    /\ UNCHANGED <<viewer, began, kept, returning, exchanged, wanted>>

FlowNext ==
    \/ Redirect
    \/ \E r \in Routes : Go(r)
    \/ FlowLogout \/ SessionChanges
    \/ TryLogin \/ LoggedIn \/ NotLoggedIn
    \/ \E s \in States : Callback(s) \/ \E a \in Actions : Authenticate(s, a)
    \/ InvalidState \/ Exchange \/ Expired \/ Authorized \/ NotAuthorized

(* The router renders; what is asked for is answered. *)
FlowFairness ==
    /\ WF_flowVars(Redirect)
    /\ WF_flowVars(InvalidState \/ Exchange \/ Expired)
    /\ WF_flowVars(Authorized \/ NotAuthorized)

FlowSpec == FlowInit /\ [][FlowNext]_flowVars /\ FlowFairness

-------------------------------------------------------------------------------
FlowTypeOK ==
    /\ viewer \in {Absent} \cup SUBSET Capabilities
    /\ route \in Routes \cup {"provider"}
    /\ prev \in Routes \cup {Absent}
    /\ began \in Routes
    /\ kept \in [States -> Actions \cup {Absent}]
    /\ awaited \in [is : {"nothing", "login", "authorize", "exchange"},
                 for : Actions \cup Routes \cup {Absent}]
    /\ returning \in States \cup {Absent}
    /\ exchanged \in [States -> Nat]
    /\ wanted \in Routes \cup {Absent}

(* However often the user comes back to the callback's address, a state is given to
   the server once at most, and never again.                                      *)
ExchangedOnce ==
    \A s \in States : exchanged[s] =< 1 /\ (exchanged[s] = 1 => kept[s] = Absent)

(* who asked for a guarded page in vain, and logs in at once, gets to that page. *)
ReturnsWhereWanted ==
    [][awaited.is = "login" /\ awaited' = Nothing /\ viewer' # Absent /\ wanted # Absent
         => route' = wanted]_flowVars

(* No two guards send the user back and forth: he arrives at a page he may see, or
   his session changes again.                                                    *)
RedirectsEnd == []<>(Settled \/ route = "provider")
================================================================================
