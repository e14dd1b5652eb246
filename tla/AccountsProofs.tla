----------------------------- MODULE AccountsProofs -----------------------------
(* Theorems about Accounts, for any logins, groups, identities, workers, modes and
   any number of versions: accounts keep their private group, accounts bound to an
   identity stay in the provider's group, and a session that was ended is never
   accepted again. The last needs to know of versions what the code relies on: a
   number once used for an account or kept in a session is not used again.        *)
EXTENDS Accounts, TLAPS

(* The provider's group is there with the provider and cannot be changed. *)
ProviderGroupFixed ==
    provider # None => groups[ProviderGroup] # None /\ groups[ProviderGroup].immutable

(* Versions in use are at most the last one. *)
VersionsUsed ==
    /\ \A l \in Logins : Exists(l) => accounts[l].pw =< clock /\ accounts[l].ident =< clock
    /\ \A s \in sessions \cup ended : s.pw =< clock /\ s.ident =< clock

(* The session holds the present versions of an account. *)
Matches(s) ==
    Exists(s.login) /\ accounts[s.login].pw = s.pw /\ accounts[s.login].ident = s.ident

EndedMatchNothing == \A s \in ended : ~Matches(s)

(* Requests for an account name it, and those for an identity that. *)
RequestsFit ==
    /\ requests \in [Workers -> Request \cup {None}]
    /\ \A w \in Workers : requests[w] # None =>
          /\ requests[w].kind # "register" => requests[w].login \in Logins
          /\ requests[w].kind # "password" => requests[w].sub \in Subs

MembersExist == \A m \in members : accounts[m[1]] # None /\ groups[m[2]] # None

Inv ==
    /\ TypeOK /\ OwnGroup /\ BoundIsMember
    /\ ProviderGroupFixed /\ VersionsUsed /\ EndedMatchNothing /\ RequestsFit

-------------------------------------------------------------------------------
LEMMA Distinct ==
    /\ Logins \subseteq Names /\ Custom \subseteq Names
    /\ ProviderGroup \in Names /\ Public \in Names
    /\ \A l \in Logins : l # ProviderGroup /\ l # Public
    /\ \A n \in Custom : n \notin Logins /\ n # ProviderGroup
    /\ None \notin Names /\ None \notin Subs /\ None \notin Account
    /\ None \notin Group /\ None \notin Provider /\ None \notin Request
BY NamesAssumption DEF Names

LEMMA Initially == Init => Inv
<1> SUFFICES ASSUME Init PROVE Inv
  OBVIOUS
<1>1. groups \in [Names -> Group \cup {None}]
  <2>1. [private |-> FALSE, default |-> TRUE, immutable |-> TRUE, linked |-> FALSE] \in Group
    BY DEF Group
  <2>2. QED
    BY <2>1 DEF Init
<1>2. TypeOK
  BY <1>1, ClockAssumption DEF Init, TypeOK
<1>3. \A l \in Logins : ~Exists(l) /\ groups[l] = None
  BY Distinct DEF Init, Exists
<1>4. OwnGroup
  BY <1>3 DEF OwnGroup
<1>5. QED
  BY <1>2, <1>3, <1>4
  DEF Init, Inv, BoundIsMember, ProviderGroupFixed, VersionsUsed, EndedMatchNothing, RequestsFit

-------------------------------------------------------------------------------
(* What synchronize_oidc_groups does to the groups and to the members. *)
LEMMA Synchronized ==
    ASSUME TypeOK, provider # None,
           NEW l \in Logins, NEW current \in SUBSET Names,
           NEW claims \in Claims, Synchronize(l, current, claims)
    PROVE  /\ groups' \in [Names -> Group \cup {None}]
           /\ \A n \in Names : groups[n] # None => groups'[n] = groups[n]
           /\ \A n \in Names : n \notin claims => groups'[n] = groups[n]
           /\ \A n \in Names : groups[n] = None /\ groups'[n] # None => ~groups'[n].private
           /\ members' \subseteq Logins \X Names
           /\ \A m \in members' : m \in members \/ m[1] = l
           /\ \A m \in members : m[1] # l => m \in members'
           /\ \A n \in Names : <<l, n>> \in members'
                 => n \in current \/ groups'[n] # None
           /\ \A n \in current : n = ProviderGroup \/ (groups[n] # None /\ groups[n].private)
                 => <<l, n>> \in members'
<1> DEFINE now == IF provider.mode = "NONE" THEN current ELSE SyncedNames(l, current, claims)
           made == [private |-> FALSE, default |-> FALSE, immutable |-> FALSE, linked |-> TRUE]
<1>1. claims \subseteq Names /\ ProviderGroup \in Names
  BY Distinct DEF Claims
<1>2. made \in Group /\ made # None /\ ~made.private
  <2>1. made \in Group /\ ~made.private
    BY DEF Group
  <2>2. QED
    BY <2>1, Distinct
<1>3. groups \in [Names -> Group \cup {None}] /\ members \subseteq Logins \X Names
  BY DEF TypeOK
<1>4. \A n \in Names : SyncedGroups(claims)[n] =
          IF n \in claims /\ groups[n] = None THEN made ELSE groups[n]
  BY DEF SyncedGroups
<1>5. SyncedGroups(claims) \in [Names -> Group \cup {None}]
  BY <1>2, <1>3 DEF SyncedGroups
<1>6. /\ groups' = IF provider.mode = "NONE" THEN groups ELSE SyncedGroups(claims)
      /\ members' = {m \in members : m[1] # l} \cup {<<l, n>> : n \in now}
  BY DEF Synchronize
<1>7. now \subseteq Names
  BY <1>1 DEF SyncedNames
<1>8. \A n \in now : n \in current \/ groups'[n] # None
  <2>1. CASE provider.mode = "NONE"
    BY <2>1
  <2>2. CASE provider.mode # "NONE"
    <3>1. \A n \in now : n \in current \/ n \in claims
      BY <2>2 DEF SyncedNames
    <3>2. QED
      BY <1>1, <1>2, <1>4, <1>6, <2>2, <3>1
  <2>3. QED
    BY <2>1, <2>2
<1>9. \A n \in current : n = ProviderGroup \/ (groups[n] # None /\ groups[n].private)
          => n \in now
  <2>1. CASE provider.mode = "NONE"
    BY <2>1
  <2>2. CASE provider.mode # "NONE"
    <3>1. SUFFICES ASSUME NEW n \in current,
                          n = ProviderGroup \/ (groups[n] # None /\ groups[n].private)
                   PROVE  n \in SyncedNames(l, current, claims)
      BY <2>2
    <3>2. n \in Names /\ Kept(SyncedGroups(claims)[n], n)
      BY <1>4, <3>1 DEF Kept
    <3>3. QED
      BY <3>2 DEF SyncedNames
  <2>3. QED
    BY <2>1, <2>2
<1> HIDE DEF now, made
<1>10. /\ members' \subseteq Logins \X Names
       /\ \A m \in members' : m \in members \/ m[1] = l
       /\ \A m \in members : m[1] # l => m \in members'
       /\ \A n \in Names : <<l, n>> \in members' <=> n \in now
  BY <1>3, <1>6, <1>7
<1>11. groups' \in [Names -> Group \cup {None}]
  BY <1>3, <1>5, <1>6
<1>12. \A n \in Names : /\ groups[n] # None => groups'[n] = groups[n]
                        /\ n \notin claims => groups'[n] = groups[n]
  BY <1>4, <1>6
<1>13. \A n \in Names : groups[n] = None /\ groups'[n] # None => ~groups'[n].private
  BY <1>2, <1>4, <1>6
<1>14. QED
  BY <1>8, <1>9, <1>10, <1>11, <1>12, <1>13

-------------------------------------------------------------------------------
LEMMA Fresh ==
    ASSUME TypeOK, Tick
    PROVE  clock' \in 0..MaxClock /\ clock' = clock + 1 /\ clock \in Nat
BY ClockAssumption DEF TypeOK, Tick

(* User.create. *)
LEMMA Created ==
    ASSUME Inv, NEW l \in Logins, NEW pending \in BOOLEAN, Create(l, pending), ~Exists(l)
    PROVE  /\ accounts' \in [Logins -> Account \cup {None}]
           /\ accounts'[l] # None /\ accounts'[l].pw = 0 /\ accounts'[l].ident = clock'
           /\ \A k \in Logins : k # l => accounts'[k] = accounts[k]
           /\ groups' \in [Names -> Group \cup {None}]
           /\ groups'[l] # None /\ groups'[l].private /\ groups'[l].immutable
           /\ \A n \in Names : n # l => groups'[n] = groups[n]
           /\ members \subseteq members' /\ <<l, l>> \in members'
           /\ members' \subseteq Logins \X Names
           /\ \A m \in members' \ members : m[1] = l /\ groups'[m[2]] # None
           /\ clock' \in 0..MaxClock /\ clock' = clock + 1 /\ clock \in Nat
<1> DEFINE a == [uid |-> clock', pending |-> pending, disabled |-> FALSE,
                 pw |-> 0, ident |-> clock']
           g == [private |-> TRUE, default |-> FALSE, immutable |-> TRUE, linked |-> FALSE]
           ns == {l} \cup {m \in Names : groups[m] # None /\ groups[m].default}
<1>1. clock' \in 0..MaxClock /\ clock' = clock + 1 /\ clock \in Nat
  BY Fresh DEF Inv, Create
<1>2. a \in Account /\ a # None /\ g \in Group /\ g # None
  <2>1. a \in Account /\ g \in Group
    BY <1>1 DEF Account, Group
  <2>2. QED
    BY <2>1, Distinct
<1>3. /\ accounts \in [Logins -> Account \cup {None}]
      /\ groups \in [Names -> Group \cup {None}]
      /\ members \subseteq Logins \X Names
  BY DEF Inv, TypeOK
<1>4. /\ accounts' = [accounts EXCEPT ![l] = a]
      /\ groups' = [groups EXCEPT ![l] = g]
      /\ members' = members \cup {<<l, n>> : n \in ns}
  BY DEF Create
<1>5. l \in Names /\ ns \subseteq Names
  BY Distinct
<1>6. \A n \in ns : groups'[n] # None
  BY <1>2, <1>3, <1>4, <1>5
<1>7. a.pw = 0 /\ a.ident = clock' /\ g.private /\ g.immutable
  OBVIOUS
<1>8. l \in ns
  OBVIOUS
<1> HIDE DEF a, g, ns
<1>9. /\ members \subseteq members' /\ <<l, l>> \in members'
      /\ members' \subseteq Logins \X Names
  BY <1>3, <1>4, <1>5, <1>8
<1>10. \A m \in members' \ members : m[1] = l /\ groups'[m[2]] # None
  BY <1>4, <1>6
<1>11. /\ accounts' \in [Logins -> Account \cup {None}]
       /\ accounts'[l] = a /\ \A k \in Logins : k # l => accounts'[k] = accounts[k]
  BY <1>2, <1>3, <1>4
<1>12. /\ groups' \in [Names -> Group \cup {None}]
       /\ groups'[l] = g /\ \A n \in Names : n # l => groups'[n] = groups[n]
  BY <1>2, <1>3, <1>4, <1>5
<1>13. QED
  BY <1>1, <1>2, <1>7, <1>9, <1>10, <1>11, <1>12

(* A new account fits to the rest of the invariant. *)
LEMMA CreateFits ==
    ASSUME Inv, NEW l \in Logins, NEW pending \in BOOLEAN, Create(l, pending), ~Exists(l),
           UNCHANGED <<provider, identities, sessions, ended>>,
           RequestsFit'
    PROVE  Inv'
<1>1. /\ accounts' \in [Logins -> Account \cup {None}]
      /\ accounts'[l] # None /\ accounts'[l].pw = 0 /\ accounts'[l].ident = clock'
      /\ \A k \in Logins : k # l => accounts'[k] = accounts[k]
      /\ groups' \in [Names -> Group \cup {None}]
      /\ groups'[l] # None /\ groups'[l].private /\ groups'[l].immutable
      /\ \A n \in Names : n # l => groups'[n] = groups[n]
      /\ members \subseteq members' /\ <<l, l>> \in members'
      /\ members' \subseteq Logins \X Names
      /\ \A m \in members' \ members : m[1] = l /\ groups'[m[2]] # None
      /\ clock' \in 0..MaxClock /\ clock' = clock + 1 /\ clock \in Nat
  BY Created
<1>2. MembersExist'
  <2> SUFFICES ASSUME NEW m \in members' PROVE accounts'[m[1]] # None /\ groups'[m[2]] # None
    BY DEF MembersExist
  <2>1. CASE m \in members
    BY <1>1, <2>1 DEF Inv, TypeOK
  <2>2. CASE m \notin members
    BY <1>1, <2>2
  <2>3. QED
    BY <2>1, <2>2
<1>3. TypeOK'
  BY <1>1, <1>2 DEF Inv, TypeOK, MembersExist, RequestsFit
<1>4. OwnGroup'
  <2> SUFFICES ASSUME NEW k \in Logins
               PROVE  IF accounts'[k] # None
                      THEN groups'[k] # None /\ groups'[k].private /\ groups'[k].immutable
                           /\ <<k, k>> \in members'
                      ELSE groups'[k] = None \/ ~groups'[k].private
    BY DEF OwnGroup, Exists
  <2>1. CASE k = l
    BY <1>1, <2>1
  <2>2. CASE k # l
    BY <1>1, <2>2, Distinct DEF Inv, OwnGroup, Exists
  <2>3. QED
    BY <2>1, <2>2
<1>5. BoundIsMember' /\ ProviderGroupFixed'
  BY <1>1, Distinct DEF Inv, TypeOK, BoundIsMember, Exists, ProviderGroupFixed
<1>6. VersionsUsed'
  <2>1. \A s \in sessions \cup ended : s.pw \in Nat /\ s.ident \in Nat
    BY DEF Inv, TypeOK, Session
  <2>2. \A s \in sessions' \cup ended' : s.pw =< clock' /\ s.ident =< clock'
    BY <1>1, <2>1 DEF Inv, VersionsUsed
  <2>3. \A k \in Logins : Exists(k)' => accounts'[k].pw =< clock' /\ accounts'[k].ident =< clock'
    <3>1. \A k \in Logins : accounts[k] # None => accounts[k].pw \in Nat /\ accounts[k].ident \in Nat
      BY DEF Inv, TypeOK, Account
    <3>2. QED
      BY <1>1, <3>1 DEF Inv, VersionsUsed, Exists
  <2>4. QED
    BY <2>2, <2>3 DEF VersionsUsed
<1>7. EndedMatchNothing'
  <2> SUFFICES ASSUME NEW s \in ended PROVE ~Matches(s)'
    BY DEF EndedMatchNothing
  <2>1. s \in Session /\ s.ident =< clock /\ ~Matches(s)
    BY DEF Inv, TypeOK, VersionsUsed, EndedMatchNothing
  <2>2. s.login \in Logins /\ s.ident \in Nat
    BY <2>1 DEF Session
  <2>3. QED
    BY <1>1, <2>1, <2>2 DEF Matches, Exists
<1>8. QED
  BY <1>3, <1>4, <1>5, <1>6, <1>7 DEF Inv

(* Another state of an account: the same versions, or a fresh one of the two. *)
LEMMA ChangedFits ==
    ASSUME Inv, NEW l \in Logins, Exists(l), NEW a \in Account,
           accounts' = [accounts EXCEPT ![l] = a],
           \/ /\ a.pw = accounts[l].pw /\ a.ident = accounts[l].ident
              /\ UNCHANGED <<clock, ended>>
           \/ /\ Tick /\ Ending(l)
              /\ \/ a.pw = clock' /\ a.ident = accounts[l].ident
                 \/ a.pw = accounts[l].pw /\ a.ident = clock',
           UNCHANGED <<groups, members, provider, identities, sessions>>,
           RequestsFit'
    PROVE  Inv'
<1>1. /\ accounts \in [Logins -> Account \cup {None}] /\ accounts[l] \in Account
      /\ clock \in Nat
  BY DEF Inv, TypeOK, Exists
<1>2. /\ accounts' \in [Logins -> Account \cup {None}]
      /\ accounts'[l] = a /\ a # None
      /\ \A k \in Logins : k # l => accounts'[k] = accounts[k]
  BY <1>1, Distinct
<1>3. \A k \in Logins : Exists(k)' <=> Exists(k)
  BY <1>2 DEF Exists
<1>4. clock' \in 0..MaxClock /\ clock' >= clock
  BY <1>1, Fresh DEF Inv, TypeOK
<1>5. ended' \subseteq Session /\ ended' \subseteq ended \cup sessions
  BY DEF Inv, TypeOK, Ending
<1>6. TypeOK'
  <2>1. MembersExist'
    BY <1>3 DEF Inv, TypeOK, MembersExist, Exists
  <2>2. QED
    BY <1>2, <1>4, <1>5, <2>1 DEF Inv, TypeOK, MembersExist, RequestsFit
<1>7. OwnGroup' /\ BoundIsMember' /\ ProviderGroupFixed'
  <2>1. OwnGroup'
    BY <1>3 DEF Inv, OwnGroup
  <2>2. BoundIsMember'
    BY <1>3 DEF Inv, TypeOK, BoundIsMember
  <2>3. QED
    BY <2>1, <2>2 DEF Inv, ProviderGroupFixed
<1>8. VersionsUsed'
  <2>1. \A s \in sessions' \cup ended' : s.pw =< clock' /\ s.ident =< clock'
    <3>1. \A s \in sessions' \cup ended' : s \in Session /\ s.pw =< clock /\ s.ident =< clock
      BY <1>5 DEF Inv, TypeOK, VersionsUsed
    <3>2. QED
      BY <1>1, <1>4, <3>1 DEF Session
  <2>2. \A k \in Logins : Exists(k)' => accounts'[k].pw =< clock' /\ accounts'[k].ident =< clock'
    <3> SUFFICES ASSUME NEW k \in Logins, Exists(k)'
                 PROVE  accounts'[k].pw =< clock' /\ accounts'[k].ident =< clock'
      OBVIOUS
    <3>1. /\ accounts[k].pw =< clock /\ accounts[k].ident =< clock
          /\ accounts[k].pw \in Nat /\ accounts[k].ident \in Nat
      BY <1>1, <1>3 DEF Inv, VersionsUsed, Exists, Account
    <3>2. CASE k # l
      BY <1>1, <1>2, <1>4, <3>1, <3>2
    <3>3. CASE k = l
      BY <1>1, <1>2, <1>4, <3>1, <3>3
    <3>4. QED
      BY <3>2, <3>3
  <2>3. QED
    BY <2>1, <2>2 DEF VersionsUsed
<1>9. EndedMatchNothing'
  <2> SUFFICES ASSUME NEW s \in ended' PROVE ~Matches(s)'
    BY DEF EndedMatchNothing
  <2>1. s \in Session /\ s.pw =< clock /\ s.ident =< clock
    BY <1>5 DEF Inv, TypeOK, VersionsUsed
  <2>2. s.login \in Logins /\ s.pw \in Nat /\ s.ident \in Nat
    BY <2>1 DEF Session
  <2>3. CASE s.login # l
    <3>1. s \in ended
      BY <2>3 DEF Ending
    <3>2. QED
      BY <1>2, <2>2, <2>3, <3>1 DEF Inv, EndedMatchNothing, Matches, Exists
  <2>4. CASE s.login = l /\ clock' = clock + 1 /\ (a.pw = clock' \/ a.ident = clock')
    BY <1>1, <1>2, <2>1, <2>2, <2>4 DEF Matches
  <2>5. CASE s.login = l /\ ended' = ended /\ a.pw = accounts[l].pw
             /\ a.ident = accounts[l].ident
    BY <1>2, <2>5 DEF Inv, EndedMatchNothing, Matches, Exists
  <2>6. QED
    BY <2>3, <2>4, <2>5, Fresh DEF Inv
<1>10. QED
  BY <1>6, <1>7, <1>8, <1>9 DEF Inv

(* An account and its private group are deleted. *)
LEMMA DeletedFits ==
    ASSUME Inv, NEW l \in Logins, DeleteUser(l)
    PROVE  Inv'
<1>1. /\ accounts \in [Logins -> Account \cup {None}]
      /\ groups \in [Names -> Group \cup {None}]
      /\ members \subseteq Logins \X Names /\ MembersExist
      /\ l \in Names
  BY Distinct DEF Inv, TypeOK, MembersExist, RequestsFit
<1>2. /\ accounts' \in [Logins -> Account \cup {None}] /\ accounts'[l] = None
      /\ \A k \in Logins : k # l => accounts'[k] = accounts[k]
      /\ groups' \in [Names -> Group \cup {None}] /\ groups'[l] = None
      /\ \A n \in Names : n # l => groups'[n] = groups[n]
  BY <1>1 DEF DeleteUser
<1>3. /\ members' = {m \in members : m[1] # l /\ m[2] # l}
      /\ identities' = {i \in identities : i.login # l}
      /\ ended' \subseteq ended \cup sessions /\ ended \subseteq ended'
      /\ \A s \in ended' : s \in ended \/ s.login = l
      /\ UNCHANGED <<provider, sessions, requests, clock>>
  BY DEF DeleteUser, Ending
<1>4. MembersExist'
  BY <1>1, <1>2, <1>3 DEF MembersExist
<1>5. TypeOK'
  BY <1>2, <1>3, <1>4 DEF Inv, TypeOK, MembersExist, RequestsFit
<1>6. OwnGroup'
  <2> SUFFICES ASSUME NEW k \in Logins
               PROVE  IF accounts'[k] # None
                      THEN groups'[k] # None /\ groups'[k].private /\ groups'[k].immutable
                           /\ <<k, k>> \in members'
                      ELSE groups'[k] = None \/ ~groups'[k].private
    BY DEF OwnGroup, Exists
  <2>1. CASE k = l
    BY <1>2, <2>1
  <2>2. CASE k # l
    <3>1. k \in Names /\ accounts'[k] = accounts[k] /\ groups'[k] = groups[k]
      BY <1>2, <2>2, Distinct
    <3>2. <<k, k>> \in members => <<k, k>> \in members'
      BY <1>3, <2>2
    <3>3. QED
      BY <3>1, <3>2 DEF Inv, OwnGroup, Exists
  <2>3. QED
    BY <2>1, <2>2
<1>7. BoundIsMember' /\ ProviderGroupFixed'
  <2>1. l # ProviderGroup /\ ProviderGroup \in Names
    BY Distinct
  <2>2. ProviderGroupFixed'
    BY <1>2, <1>3, <2>1 DEF Inv, ProviderGroupFixed
  <2>3. ASSUME NEW i \in identities'
        PROVE  provider' # None /\ Exists(i.login)' /\ <<i.login, ProviderGroup>> \in members'
    <3>1. /\ i \in identities /\ i.login # l /\ i.login \in Logins
          /\ provider # None /\ accounts[i.login] # None
          /\ <<i.login, ProviderGroup>> \in members
      BY <1>3, <2>3 DEF Inv, TypeOK, BoundIsMember, Exists
    <3>2. QED
      BY <1>2, <1>3, <2>1, <3>1 DEF Exists
  <2>4. QED
    BY <2>2, <2>3 DEF BoundIsMember
<1>8. VersionsUsed'
  BY <1>2, <1>3 DEF Inv, VersionsUsed, Exists
<1>9. EndedMatchNothing'
  <2> SUFFICES ASSUME NEW s \in ended' PROVE ~Matches(s)'
    BY DEF EndedMatchNothing
  <2>1. s.login \in Logins
    BY <1>3 DEF Inv, TypeOK, Session
  <2>2. QED
    BY <1>2, <1>3, <2>1 DEF Inv, EndedMatchNothing, Matches, Exists
<1>10. QED
  BY <1>5, <1>6, <1>7, <1>8, <1>9 DEF Inv, DeleteUser, RequestsFit

(* A step that leaves the accounts alone and gives out a token at most. *)
LEMMA TokensFit ==
    ASSUME Inv, UNCHANGED <<accounts, ended, clock>>,
           \/ sessions' = sessions
           \/ \E l \in Logins : Exists(l) /\ Issue(l)
    PROVE  VersionsUsed' /\ EndedMatchNothing' /\ sessions' \subseteq Session
<1>1. sessions' \subseteq sessions \cup {SessionOf(l) : l \in {k \in Logins : Exists(k)}}
  BY DEF Issue
<1>2. \A l \in Logins : Exists(l) =>
          /\ SessionOf(l) \in Session
          /\ SessionOf(l).pw =< clock /\ SessionOf(l).ident =< clock
  <2> SUFFICES ASSUME NEW l \in Logins, Exists(l)
               PROVE  /\ SessionOf(l) \in Session
                      /\ SessionOf(l).pw =< clock /\ SessionOf(l).ident =< clock
    OBVIOUS
  <2>1. accounts[l] \in Account /\ accounts[l].pw =< clock /\ accounts[l].ident =< clock
    BY DEF Inv, TypeOK, VersionsUsed, Exists
  <2>2. QED
    BY <2>1 DEF SessionOf, Session, Account
<1>3. \A s \in sessions' : s \in Session /\ s.pw =< clock /\ s.ident =< clock
  BY <1>1, <1>2 DEF Inv, TypeOK, VersionsUsed
<1>4. VersionsUsed'
  BY <1>3 DEF Inv, VersionsUsed, Exists
<1>5. EndedMatchNothing'
  BY DEF Inv, EndedMatchNothing, Matches, Exists
<1>6. QED
  BY <1>3, <1>4, <1>5

(* Private groups stay what they are, with their owners, and no other is made. *)
LEMMA OwnGroupKept ==
    ASSUME Inv, accounts' = accounts,
           \A l \in Logins : groups[l] # None /\ groups[l].private /\ groups[l].immutable
              => groups'[l] # None /\ groups'[l].private /\ groups'[l].immutable,
           \A l \in Logins : groups'[l] # None /\ groups'[l].private
              => groups[l] # None /\ groups[l].private,
           \A l \in Logins : <<l, l>> \in members /\ groups[l].private /\ groups[l].immutable
              => <<l, l>> \in members'
    PROVE  OwnGroup'
BY DEF Inv, OwnGroup, Exists

(* The type of the groups, what TokensFit and OwnGroupKept say, and the rest. *)
LEMMA GroupsFit ==
    ASSUME Inv, UNCHANGED <<accounts, ended, clock>>,
           VersionsUsed' /\ EndedMatchNothing' /\ sessions' \subseteq Session, OwnGroup',
           groups' \in [Names -> Group \cup {None}], members' \subseteq Logins \X Names,
           MembersExist', provider' \in Provider \cup {None},
           identities' \subseteq [sub : Subs, login : Logins],
           RequestsFit',
           BoundIsMember', ProviderGroupFixed'
    PROVE  Inv'
BY DEF Inv, TypeOK, MembersExist, RequestsFit

(* People make, change and delete groups of their own and move members. *)
LEMMA CustomGroupsFit ==
    ASSUME Inv,
           \/ \E n \in Custom : CreateGroup(n) \/ DeleteGroup(n)
           \/ \E n, name \in Custom, default, linked \in BOOLEAN :
                 UpdateGroup(n, name, default, linked)
    PROVE  Inv'
<1>1. /\ accounts \in [Logins -> Account \cup {None}]
      /\ groups \in [Names -> Group \cup {None}]
      /\ members \subseteq Logins \X Names /\ MembersExist
  BY DEF Inv, TypeOK, MembersExist, RequestsFit
<1>2. PICK n \in Custom, name \in Custom :
          \/ CreateGroup(n)
          \/ DeleteGroup(n)
          \/ \E default, linked \in BOOLEAN : UpdateGroup(n, name, default, linked)
  OBVIOUS
<1>3. /\ UNCHANGED <<accounts, provider, identities, sessions, requests, ended>>
      /\ clock' = clock
  BY <1>2 DEF CreateGroup, DeleteGroup, UpdateGroup
<1>4. /\ groups' \in [Names -> Group \cup {None}]
      /\ \A m \in Names : m \notin Custom => groups'[m] = groups[m]
      /\ members' \subseteq Logins \X Names
      /\ \A m \in members : m[2] \notin Custom => m \in members'
      /\ MembersExist'
  <2>1. CASE CreateGroup(n)
    <3> DEFINE g == [private |-> FALSE, default |-> FALSE, immutable |-> FALSE, linked |-> FALSE]
    <3>1. g \in Group /\ g # None
      <4>1. g \in Group
        BY DEF Group
      <4>2. QED
        BY <4>1, Distinct
    <3>2. groups' = [groups EXCEPT ![n] = g] /\ members' = members
      BY <2>1 DEF CreateGroup
    <3> HIDE DEF g
    <3>3. QED
      BY <1>1, <1>3, <3>1, <3>2, Distinct DEF MembersExist
  <2>2. CASE DeleteGroup(n)
    <3>1. /\ groups' = [groups EXCEPT ![n] = None]
          /\ members' = {m \in members : m[2] # n}
      BY <2>2 DEF DeleteGroup
    <3>2. QED
      BY <1>1, <1>3, <3>1, Distinct DEF MembersExist
  <2>3. ASSUME NEW default \in BOOLEAN, NEW linked \in BOOLEAN,
               UpdateGroup(n, name, default, linked)
        PROVE  /\ groups' \in [Names -> Group \cup {None}]
               /\ \A m \in Names : m \notin Custom => groups'[m] = groups[m]
               /\ members' \subseteq Logins \X Names
               /\ \A m \in members : m[2] \notin Custom => m \in members'
               /\ MembersExist'
    <3> DEFINE g == [groups[n] EXCEPT !.default = default, !.linked = linked]
    <3>0. n \in Names /\ name \in Names
      BY Distinct
    <3>1. g \in Group /\ g # None
      <4>1. groups[n] \in Group
        BY <1>1, <2>3, <3>0 DEF UpdateGroup, Changeable
      <4>2. g \in Group
        BY <4>1 DEF Group
      <4>3. QED
        BY <4>2, Distinct
    <3>2. /\ groups' = [[groups EXCEPT ![n] = None] EXCEPT ![name] = g]
          /\ members' = {<<m[1], IF m[2] = n THEN name ELSE m[2]>> : m \in members}
      BY <2>3 DEF UpdateGroup
    <3> HIDE DEF g
    <3>3. /\ groups' \in [Names -> Group \cup {None}] /\ groups'[name] = g
          /\ \A m \in Names : m # n /\ m # name => groups'[m] = groups[m]
      BY <1>1, <3>0, <3>1, <3>2
    <3>4. members' \subseteq Logins \X Names
      BY <1>1, <3>0, <3>2
    <3>5. \A m \in members : m[2] \notin Custom => m \in members'
      <4> SUFFICES ASSUME NEW m \in members, m[2] \notin Custom PROVE m \in members'
        OBVIOUS
      <4>1. m = <<m[1], m[2]>> /\ m[2] # n
        BY <1>1
      <4>2. QED
        BY <3>2, <4>1
    <3>6. MembersExist'
      <4> SUFFICES ASSUME NEW k \in members'
                   PROVE  accounts'[k[1]] # None /\ groups'[k[2]] # None
        BY DEF MembersExist
      <4>1. PICK m \in members : k = <<m[1], IF m[2] = n THEN name ELSE m[2]>>
        BY <3>2
      <4>2. accounts[m[1]] # None /\ groups[m[2]] # None /\ m[2] \in Names
        BY <1>1 DEF MembersExist
      <4>3. k[1] = m[1] /\ k[2] = IF m[2] = n THEN name ELSE m[2]
        BY <4>1
      <4>4. groups'[k[2]] # None
        BY <3>1, <3>3, <4>2, <4>3
      <4>5. QED
        BY <1>3, <4>2, <4>3, <4>4
    <3>7. QED
      BY <3>3, <3>4, <3>5, <3>6
  <2>4. QED
    BY <1>2, <2>1, <2>2, <2>3
<1>5. OwnGroup'
  <2>1. \A l \in Logins : groups'[l] = groups[l] /\ (<<l, l>> \in members => <<l, l>> \in members')
    BY <1>4, Distinct
  <2>2. QED
    BY <1>3, <2>1, OwnGroupKept
<1>6. BoundIsMember' /\ ProviderGroupFixed'
  <2>1. ProviderGroup \in Names /\ ProviderGroup \notin Custom
    BY Distinct
  <2>2. \A i \in identities : <<i.login, ProviderGroup>> \in members'
    BY <1>4, <2>1 DEF Inv, BoundIsMember
  <2>3. QED
    BY <1>3, <1>4, <2>1, <2>2 DEF Inv, BoundIsMember, ProviderGroupFixed, Exists
<1>7. VersionsUsed' /\ EndedMatchNothing' /\ sessions' \subseteq Session
  BY <1>3, TokensFit
<1>8. QED
  BY <1>3, <1>4, <1>5, <1>6, <1>7, GroupsFit DEF Inv, TypeOK, RequestsFit

LEMMA MembershipFits ==
    ASSUME Inv, NEW l \in Logins, NEW n \in Names, AddMember(l, n) \/ RemoveMember(l, n)
    PROVE  Inv'
<1>1. /\ UNCHANGED <<accounts, groups, provider, identities, sessions, requests, ended>>
      /\ clock' = clock
      /\ groups[n] # None /\ ~groups[n].immutable /\ Exists(l)
      /\ members' \in {members \cup {<<l, n>>}, members \ {<<l, n>>}}
  BY DEF AddMember, RemoveMember, Changeable
<1>2. members' \subseteq Logins \X Names /\ MembersExist'
  BY <1>1 DEF Inv, TypeOK, MembersExist, Exists
<1>3. \A k \in Logins, m \in Names :
          <<k, m>> \in members /\ groups[m].immutable => <<k, m>> \in members'
  BY <1>1
<1>4. OwnGroup'
  BY <1>1, <1>3, Distinct, OwnGroupKept
<1>5. BoundIsMember' /\ ProviderGroupFixed'
  BY <1>1, <1>3, Distinct
  DEF Inv, TypeOK, BoundIsMember, ProviderGroupFixed, Exists
<1>6. VersionsUsed' /\ EndedMatchNothing' /\ sessions' \subseteq Session
  BY <1>1, TokensFit
<1>7. QED
  BY <1>1, <1>2, <1>4, <1>5, <1>6, GroupsFit DEF Inv, TypeOK, RequestsFit

LEMMA ProviderFits ==
    ASSUME Inv,
           \/ DeleteProvider
           \/ \E mode \in Modes, approval \in BOOLEAN :
                 CreateProvider(mode, approval) \/ UpdateProvider(mode, approval)
    PROVE  Inv'
<1>1. /\ groups \in [Names -> Group \cup {None}]
      /\ members \subseteq Logins \X Names /\ MembersExist
      /\ ProviderGroup \in Names /\ \A l \in Logins : l \in Names /\ l # ProviderGroup
  BY Distinct DEF Inv, TypeOK, MembersExist, RequestsFit
<1>2. CASE DeleteProvider
  <2>1. /\ UNCHANGED <<accounts, sessions, requests, ended, clock>>
        /\ provider' = None /\ identities' = {}
        /\ members' = {m \in members : m[2] # ProviderGroup}
        /\ groups' = [n \in Names |->
              IF n = ProviderGroup \/ groups[n] = None THEN None
              ELSE [groups[n] EXCEPT !.linked = FALSE]]
    BY <1>2 DEF DeleteProvider
  <2>2. \A n \in Names : n # ProviderGroup /\ groups[n] # None =>
            /\ groups'[n] \in Group /\ groups'[n] # None
            /\ groups'[n].private = groups[n].private
            /\ groups'[n].immutable = groups[n].immutable
    <3> SUFFICES ASSUME NEW n \in Names, n # ProviderGroup, groups[n] # None
                 PROVE  /\ groups'[n] \in Group /\ groups'[n] # None
                        /\ groups'[n].private = groups[n].private
                        /\ groups'[n].immutable = groups[n].immutable
      OBVIOUS
    <3>1. groups[n] \in Group /\ groups'[n] = [groups[n] EXCEPT !.linked = FALSE]
      BY <1>1, <2>1
    <3>2. groups'[n] \in Group
      BY <3>1 DEF Group
    <3>3. QED
      BY <3>1, <3>2, Distinct DEF Group
  <2>3. \A n \in Names : n = ProviderGroup \/ groups[n] = None => groups'[n] = None
    BY <2>1
  <2>4. groups' \in [Names -> Group \cup {None}]
    <3>1. \A n \in Names : groups'[n] \in Group \cup {None}
      BY <2>2, <2>3
    <3>2. QED
      BY <2>1, <3>1
  <2>5. OwnGroup'
    BY <1>1, <2>1, <2>2, <2>3, OwnGroupKept
  <2>6. members' \subseteq Logins \X Names /\ MembersExist'
    BY <1>1, <2>1, <2>2 DEF MembersExist
  <2>7. BoundIsMember' /\ ProviderGroupFixed'
    BY <2>1 DEF BoundIsMember, ProviderGroupFixed
  <2>8. VersionsUsed' /\ EndedMatchNothing' /\ sessions' \subseteq Session
    BY <2>1, TokensFit
  <2>9. QED
    BY <2>1, <2>4, <2>5, <2>6, <2>7, <2>8, GroupsFit DEF Inv, TypeOK, RequestsFit
<1>3. ASSUME NEW mode \in Modes, NEW approval \in BOOLEAN, UpdateProvider(mode, approval)
      PROVE  Inv'
  <2>1. /\ UNCHANGED <<accounts, groups, members, identities, sessions, requests, ended>>
        /\ clock' = clock /\ provider # None
        /\ provider' = [provider EXCEPT !.mode = mode, !.approval = approval]
    BY <1>3 DEF UpdateProvider
  <2>2. provider' \in Provider /\ provider' # None
    <3>1. provider \in Provider
      BY <2>1 DEF Inv, TypeOK
    <3>2. provider' \in Provider
      BY <2>1, <3>1 DEF Provider
    <3>3. QED
      BY <3>2, Distinct
  <2>3. OwnGroup'
    BY <2>1, OwnGroupKept
  <2>4. BoundIsMember' /\ ProviderGroupFixed' /\ MembersExist'
    BY <1>1, <2>1, <2>2
    DEF Inv, BoundIsMember, ProviderGroupFixed, MembersExist, Exists
  <2>5. VersionsUsed' /\ EndedMatchNothing' /\ sessions' \subseteq Session
    BY <2>1, TokensFit
  <2>6. QED
    BY <2>1, <2>2, <2>3, <2>4, <2>5, GroupsFit DEF Inv, TypeOK, RequestsFit
<1>4. ASSUME NEW mode \in Modes, NEW approval \in BOOLEAN, CreateProvider(mode, approval)
      PROVE  Inv'
  <2> DEFINE g == [private |-> FALSE, default |-> FALSE, immutable |-> TRUE, linked |-> FALSE]
             p == [uid |-> clock', mode |-> mode, approval |-> approval]
  <2>1. /\ UNCHANGED <<accounts, members, identities, sessions, requests, ended>>
        /\ provider = None /\ groups[ProviderGroup] = None
        /\ provider' = p /\ groups' = [groups EXCEPT ![ProviderGroup] = g]
    BY <1>4 DEF CreateProvider
  <2>2. clock' \in 0..MaxClock /\ clock' = clock + 1 /\ clock \in Nat
    BY <1>4, Fresh DEF CreateProvider, Inv
  <2>3. p \in Provider /\ p # None /\ g \in Group /\ g # None /\ g.immutable
    <3>1. p \in Provider /\ g \in Group
      BY <2>2 DEF Provider, Group
    <3>2. QED
      BY <3>1, Distinct
  <2> HIDE DEF g, p
  <2>4. /\ groups' \in [Names -> Group \cup {None}] /\ groups'[ProviderGroup] = g
        /\ \A n \in Names : n # ProviderGroup => groups'[n] = groups[n]
    BY <1>1, <2>1, <2>3
  <2>5. OwnGroup'
    BY <1>1, <2>1, <2>4, OwnGroupKept
  <2>6. MembersExist'
    BY <1>1, <2>1, <2>4 DEF MembersExist
  <2>7. identities = {}
    BY <2>1 DEF Inv, BoundIsMember
  <2>8. BoundIsMember' /\ ProviderGroupFixed'
    BY <2>1, <2>3, <2>4, <2>7 DEF BoundIsMember, ProviderGroupFixed
  <2>9. VersionsUsed'
    <3>1. \A l \in Logins : accounts[l] # None => accounts[l].pw \in Nat /\ accounts[l].ident \in Nat
      BY DEF Inv, TypeOK, Account
    <3>2. \A s \in sessions \cup ended : s.pw \in Nat /\ s.ident \in Nat
      BY DEF Inv, TypeOK, Session
    <3>3. QED
      BY <2>1, <2>2, <3>1, <3>2 DEF Inv, VersionsUsed, Exists
  <2>10. EndedMatchNothing'
    BY <2>1 DEF Inv, EndedMatchNothing, Matches, Exists
  <2>11. QED
    BY <2>1, <2>2, <2>3, <2>4, <2>5, <2>6, <2>8, <2>9, <2>10 DEF Inv, TypeOK, MembersExist, RequestsFit
<1>5. QED
  BY <1>2, <1>3, <1>4

(* Steps that change no account, group or member. *)
LEMMA PeopleUnchangedFit ==
    ASSUME Inv, UNCHANGED <<people, ended, clock>>,
           RequestsFit',
           sessions' = sessions \/ \E l \in Logins : Exists(l) /\ Issue(l)
    PROVE  Inv'
<1>1. UNCHANGED <<accounts, groups, members, provider, identities, ended, clock>>
  BY DEF people
<1>2. VersionsUsed' /\ EndedMatchNothing' /\ sessions' \subseteq Session
  BY <1>1, TokensFit
<1>3. OwnGroup'
  BY <1>1, OwnGroupKept
<1>4. MembersExist' /\ BoundIsMember' /\ ProviderGroupFixed'
  BY <1>1 DEF Inv, TypeOK, MembersExist, BoundIsMember, ProviderGroupFixed, Exists
<1>5. QED
  BY <1>1, <1>2, <1>3, <1>4, GroupsFit DEF Inv, TypeOK, RequestsFit

(* A login with an identity, and the end of a registration with one: the groups of
   the account are synchronized and it is in the provider's.                      *)
LEMMA SynchronizedFits ==
    ASSUME Inv, NEW l \in Logins, Exists(l), provider # None,
           NEW current \in SUBSET Names, GroupsOf(l) \subseteq current,
           current \subseteq GroupsOf(l) \cup {ProviderGroup}, ProviderGroup \in current,
           NEW claims \in Claims, Synchronize(l, current, claims),
           UNCHANGED <<accounts, provider, ended, clock>>,
           sessions' = sessions \/ Issue(l),
           NEW sub \in Subs, identities' = identities \cup {[sub |-> sub, login |-> l]},
           RequestsFit'
    PROVE  Inv'
<1>1. /\ groups' \in [Names -> Group \cup {None}]
      /\ \A n \in Names : groups[n] # None => groups'[n] = groups[n]
      /\ \A n \in Names : n \notin claims => groups'[n] = groups[n]
      /\ \A n \in Names : groups[n] = None /\ groups'[n] # None => ~groups'[n].private
      /\ members' \subseteq Logins \X Names
      /\ \A m \in members' : m \in members \/ m[1] = l
      /\ \A m \in members : m[1] # l => m \in members'
      /\ \A n \in Names : <<l, n>> \in members' => n \in current \/ groups'[n] # None
      /\ \A n \in current : n = ProviderGroup \/ (groups[n] # None /\ groups[n].private)
            => <<l, n>> \in members'
  BY Synchronized DEF Inv
<1>2. /\ accounts \in [Logins -> Account \cup {None}]
      /\ members \subseteq Logins \X Names /\ MembersExist
      /\ groups[ProviderGroup] # None /\ groups[ProviderGroup].immutable
  BY DEF Inv, TypeOK, MembersExist, ProviderGroupFixed
<1>3. ProviderGroup \in Names /\ \A k \in Logins : k \in Names
  BY Distinct
<1>4. \A n \in current : groups'[n] # None
  <2>1. \A n \in GroupsOf(l) : n \in Names /\ groups[n] # None
    BY <1>2 DEF GroupsOf, MembersExist
  <2>2. QED
    BY <1>1, <1>2, <1>3, <2>1
<1>5. MembersExist'
  <2> SUFFICES ASSUME NEW m \in members'
               PROVE  accounts'[m[1]] # None /\ groups'[m[2]] # None
    BY DEF MembersExist
  <2>1. m[1] \in Logins /\ m[2] \in Names /\ m = <<m[1], m[2]>>
    BY <1>1
  <2>2. CASE m[1] = l
    <3>1. <<l, m[2]>> \in members'
      BY <2>1, <2>2
    <3>2. groups'[m[2]] # None
      BY <1>1, <1>4, <2>1, <3>1
    <3>3. QED
      BY <2>2, <3>2 DEF Exists
  <2>3. CASE m[1] # l
    BY <1>1, <1>2, <2>1, <2>3 DEF MembersExist
  <2>4. QED
    BY <2>2, <2>3
<1>6. OwnGroup'
  <2>1. \A k \in Logins : <<k, k>> \in members /\ groups[k].private => <<k, k>> \in members'
    <3> SUFFICES ASSUME NEW k \in Logins, <<k, k>> \in members, groups[k].private
                 PROVE  <<k, k>> \in members'
      OBVIOUS
    <3>1. CASE k = l
      <4>1. l \in GroupsOf(l) /\ groups[l] # None
        BY <1>2, <1>3, <3>1 DEF GroupsOf, MembersExist
      <4>2. QED
        BY <1>1, <3>1, <4>1
    <3>2. CASE k # l
      BY <1>1, <3>2
    <3>3. QED
      BY <3>1, <3>2
  <2>2. QED
    BY <1>1, <1>3, <2>1, OwnGroupKept
<1>7. BoundIsMember'
  <2>1. <<l, ProviderGroup>> \in members'
    BY <1>1
  <2>2. ASSUME NEW i \in identities
        PROVE  Exists(i.login) /\ <<i.login, ProviderGroup>> \in members'
    <3>1. Exists(i.login) /\ <<i.login, ProviderGroup>> \in members
      BY <2>2 DEF Inv, BoundIsMember
    <3>2. QED
      BY <1>1, <2>1, <3>1
  <2>3. QED
    BY <2>1, <2>2 DEF BoundIsMember, Exists
<1>8. ProviderGroupFixed'
  BY <1>1, <1>2, <1>3 DEF ProviderGroupFixed
<1>9. VersionsUsed' /\ EndedMatchNothing' /\ sessions' \subseteq Session
  BY TokensFit
<1>10. identities' \subseteq [sub : Subs, login : Logins]
  BY DEF Inv, TypeOK
<1>11. QED
  BY <1>1, <1>5, <1>6, <1>7, <1>8, <1>9, <1>10, GroupsFit DEF Inv, TypeOK, RequestsFit

LEMMA BeginsAndEnds ==
    ASSUME RequestsFit, NEW w \in Workers
    PROVE  /\ Finish(w) => RequestsFit'
           /\ \A r \in Request :
                 /\ Begin(w, r)
                 /\ r.kind # "register" => r.login \in Logins
                 /\ r.kind # "password" => r.sub \in Subs
                 => RequestsFit'
BY DEF RequestsFit, Finish, Begin

(* The steps of a worker. *)
LEMMA WorkerFits ==
    ASSUME Inv, NEW w \in Workers,
           \/ \E l \in Logins : VerifyLink(w, l) \/ CreateIdentified(w, l)
           \/ SetPassword(w) \/ Bind(w) \/ Fail(w)
           \/ \E l \in Logins, sub \in Subs : CheckBind(w, l, sub)
           \/ \E sub \in Subs : CheckRegister(w, sub)
           \/ \E claims \in Claims : Identify(w, claims)
    PROVE  Inv'
<1> USE BeginsAndEnds
<1>0. /\ TypeOK /\ RequestsFit /\ accounts \in [Logins -> Account \cup {None}]
      /\ requests[w] # None => requests[w] \in Request
      /\ provider # None => provider \in Provider
  BY DEF Inv, TypeOK
<1>1. ASSUME NEW l \in Logins, VerifyLink(w, l) PROVE Inv'
  <2> DEFINE r == [kind |-> "password", login |-> l, uid |-> accounts[l].uid,
                   sub |-> None, provider |-> 0]
  <2>1. accounts[l] \in Account
    BY <1>0, <1>1 DEF VerifyLink, Exists
  <2>2. r \in Request /\ r.kind = "password" /\ r.login \in Logins
    BY <2>1 DEF Request, Account
  <2>3. Begin(w, r) /\ UNCHANGED <<people, sessions, ended, clock>>
    BY <1>1 DEF VerifyLink
  <2> HIDE DEF r
  <2>4. QED
    BY <1>0, <2>2, <2>3, PeopleUnchangedFit
<1>2. ASSUME NEW l \in Logins, NEW sub \in Subs, CheckBind(w, l, sub) PROVE Inv'
  <2> DEFINE r == [kind |-> "bind", login |-> l, uid |-> accounts[l].uid,
                   sub |-> sub, provider |-> provider.uid]
  <2>1. accounts[l] \in Account /\ provider \in Provider
    BY <1>0, <1>2 DEF CheckBind, Usable, Exists
  <2>2. r \in Request /\ r.login \in Logins /\ r.sub \in Subs
    BY <2>1 DEF Request, Account, Provider
  <2>3. Begin(w, r) /\ UNCHANGED <<people, sessions, ended, clock>>
    BY <1>2 DEF CheckBind
  <2> HIDE DEF r
  <2>4. QED
    BY <1>0, <2>2, <2>3, PeopleUnchangedFit
<1>3. ASSUME NEW sub \in Subs, CheckRegister(w, sub) PROVE Inv'
  <2> DEFINE r == [kind |-> "register", login |-> None, uid |-> 0,
                   sub |-> sub, provider |-> provider.uid]
  <2>1. provider \in Provider
    BY <1>0, <1>3 DEF CheckRegister
  <2>2. r \in Request /\ r.kind = "register" /\ r.sub \in Subs
    BY <2>1 DEF Request, Provider
  <2>3. Begin(w, r) /\ UNCHANGED <<people, sessions, ended, clock>>
    BY <1>3 DEF CheckRegister
  <2> HIDE DEF r
  <2>4. QED
    BY <1>0, <2>2, <2>3, PeopleUnchangedFit
<1>4. CASE Fail(w)
  BY <1>0, <1>4, PeopleUnchangedFit DEF Fail
<1>5. CASE SetPassword(w)
  <2> DEFINE l == requests[w].login
             a == [accounts[l] EXCEPT !.pw = clock']
  <2>1. l \in Logins /\ Exists(l) /\ accounts[l] \in Account
    BY <1>0, <1>5 DEF SetPassword, RequestsFit, Exists
  <2>2. Tick /\ Ending(l) /\ accounts' = [accounts EXCEPT ![l] = a]
    BY <1>5 DEF SetPassword
  <2>3. clock' \in Nat
    BY <1>0, <2>2, Fresh
  <2>4. a \in Account /\ a.pw = clock' /\ a.ident = accounts[l].ident
    BY <2>1, <2>3 DEF Account
  <2>5. /\ UNCHANGED <<groups, members, provider, identities, sessions>>
        /\ RequestsFit'
    BY <1>0, <1>5 DEF SetPassword
  <2> HIDE DEF l, a
  <2>6. QED
    BY <2>1, <2>2, <2>4, <2>5, ChangedFits
<1>6. CASE Bind(w)
  <2> DEFINE l == requests[w].login
             i0 == [sub |-> requests[w].sub, login |-> l]
  <2>1. l \in Logins /\ Exists(l) /\ i0 \in [sub : Subs, login : Logins] /\ provider # None
    BY <1>0, <1>6 DEF Bind, RequestsFit
  <2>2. /\ members' = members \cup {<<l, ProviderGroup>>}
        /\ identities' = identities \cup {i0}
        /\ UNCHANGED <<accounts, groups, provider, sessions, ended, clock>>
        /\ RequestsFit'
    BY <1>0, <1>6 DEF Bind
  <2>3. i0.login = l
    OBVIOUS
  <2> HIDE DEF l, i0
  <2>4. members' \subseteq Logins \X Names /\ MembersExist'
    BY <2>1, <2>2, Distinct DEF Inv, TypeOK, MembersExist, ProviderGroupFixed, Exists
  <2>5. OwnGroup'
    BY <2>2, OwnGroupKept
  <2>6. BoundIsMember' /\ ProviderGroupFixed'
    BY <2>1, <2>2, <2>3 DEF Inv, BoundIsMember, ProviderGroupFixed, Exists
  <2>7. VersionsUsed' /\ EndedMatchNothing' /\ sessions' \subseteq Session
    BY <2>2, TokensFit
  <2>8. QED
    BY <2>1, <2>2, <2>4, <2>5, <2>6, <2>7, GroupsFit DEF Inv, TypeOK, RequestsFit
<1>7. ASSUME NEW l \in Logins, CreateIdentified(w, l) PROVE Inv'
  <2>1. /\ provider \in Provider /\ requests[w] # None
        /\ Create(l, provider.approval)
        /\ UNCHANGED <<provider, identities, sessions, ended>>
        /\ requests' = [requests EXCEPT ![w].kind = "identify", ![w].login = l,
                                        ![w].uid = clock']
    BY <1>0, <1>7 DEF CreateIdentified
  <2>2. ~Exists(l)
    <3>1. groups[l] = None
      BY <1>7 DEF CreateIdentified, Create
    <3>2. QED
      BY <3>1 DEF Inv, OwnGroup
  <2>3. RequestsFit'
    <3> DEFINE r == [requests[w] EXCEPT !.kind = "identify", !.login = l, !.uid = clock']
    <3>1. requests[w] \in Request /\ requests[w].sub \in Subs /\ clock' \in Nat
      <4>1. requests[w].kind = "register"
        BY <1>7 DEF CreateIdentified
      <4>2. Tick
        BY <2>1 DEF Create
      <4>3. QED
        BY <1>0, <2>1, <4>1, <4>2, Fresh DEF RequestsFit
    <3>2. /\ r \in Request /\ r.kind = "identify" /\ r.login = l
          /\ r.sub = requests[w].sub
      BY <3>1 DEF Request
    <3>3. requests' = [requests EXCEPT ![w] = r]
      BY <1>0, <2>1 DEF RequestsFit
    <3> HIDE DEF r
    <3>4. QED
      BY <1>0, <3>1, <3>2, <3>3 DEF RequestsFit
  <2>4. provider.approval \in BOOLEAN
    BY <2>1 DEF Provider
  <2>5. QED
    BY <2>1, <2>2, <2>3, <2>4, CreateFits
<1>8. ASSUME NEW claims \in Claims, Identify(w, claims) PROVE Inv'
  <2> DEFINE l == requests[w].login
             current == GroupsOf(l) \cup {ProviderGroup}
  <2>1. l \in Logins /\ Exists(l) /\ requests[w].sub \in Subs /\ provider # None
    BY <1>0, <1>8 DEF Identify, RequestsFit
  <2>2. current \in SUBSET Names
    BY Distinct DEF GroupsOf
  <2>3. /\ Synchronize(l, current, claims)
        /\ identities' = identities \cup {[sub |-> requests[w].sub, login |-> l]}
        /\ UNCHANGED <<accounts, provider, ended, clock>>
        /\ sessions' = sessions \/ Issue(l)
        /\ RequestsFit'
    BY <1>0, <1>8 DEF Identify
  <2>4. /\ GroupsOf(l) \subseteq current /\ ProviderGroup \in current
        /\ current \subseteq GroupsOf(l) \cup {ProviderGroup}
    OBVIOUS
  <2> HIDE DEF l, current
  <2>5. QED
    BY <2>1, <2>2, <2>3, <2>4, SynchronizedFits
<1>9. QED
  BY <1>1, <1>2, <1>3, <1>4, <1>5, <1>6, <1>7, <1>8

-------------------------------------------------------------------------------
LEMMA Step == Inv /\ [Next]_vars => Inv'
<1> SUFFICES ASSUME Inv, [Next]_vars PROVE Inv'
  OBVIOUS
<1>0. /\ TypeOK /\ RequestsFit /\ accounts \in [Logins -> Account \cup {None}]
  BY DEF Inv, TypeOK
<1>1. ASSUME NEW l \in Logins, NEW pending \in BOOLEAN, CreateUser(l, pending)
      PROVE  Inv'
  BY <1>0, <1>1, CreateFits DEF CreateUser, RequestsFit
<1>2. ASSUME NEW l \in Logins, Accept(l) PROVE Inv'
  <2> DEFINE a == [accounts[l] EXCEPT !.pending = FALSE]
  <2>1. Exists(l) /\ accounts[l] \in Account
    BY <1>0, <1>2 DEF Accept, Exists
  <2>2. a \in Account /\ a.pw = accounts[l].pw /\ a.ident = accounts[l].ident
    BY <2>1 DEF Account
  <2>3. /\ accounts' = [accounts EXCEPT ![l] = a]
        /\ UNCHANGED <<groups, members, provider, identities, sessions, ended, clock>>
        /\ RequestsFit'
    BY <1>0, <1>2 DEF Accept, RequestsFit
  <2> HIDE DEF a
  <2>4. QED
    BY <2>1, <2>2, <2>3, ChangedFits
<1>3. ASSUME NEW l \in Logins, NEW disabled \in BOOLEAN, Disable(l, disabled) PROVE Inv'
  <2> DEFINE a == [accounts[l] EXCEPT !.disabled = disabled, !.ident = clock']
  <2>1. Exists(l) /\ accounts[l] \in Account /\ Tick /\ Ending(l)
    BY <1>0, <1>3 DEF Disable, Exists
  <2>2. clock' \in Nat
    BY <1>0, <2>1, Fresh
  <2>3. a \in Account /\ a.pw = accounts[l].pw /\ a.ident = clock'
    BY <2>1, <2>2 DEF Account
  <2>4. /\ accounts' = [accounts EXCEPT ![l] = a]
        /\ UNCHANGED <<groups, members, provider, identities, sessions>>
        /\ RequestsFit'
    BY <1>0, <1>3 DEF Disable, RequestsFit
  <2> HIDE DEF a
  <2>5. QED
    BY <2>1, <2>3, <2>4, ChangedFits
<1>4. ASSUME NEW l \in Logins, Login(l) PROVE Inv'
  BY <1>0, <1>4, PeopleUnchangedFit DEF Login, RequestsFit
<1>5. ASSUME NEW l \in Logins, NEW sub \in Subs, NEW claims \in Claims,
             Authorize(l, sub, claims)
      PROVE  Inv'
  <2>1. [sub |-> sub, login |-> l] \in identities
    BY <1>5 DEF Authorize
  <2>2. Exists(l) /\ ProviderGroup \in GroupsOf(l) /\ provider # None
    BY <2>1, Distinct DEF Inv, BoundIsMember, GroupsOf
  <2>3. /\ Synchronize(l, GroupsOf(l), claims) /\ Issue(l)
        /\ UNCHANGED <<accounts, provider, ended, clock>>
        /\ identities' = identities \cup {[sub |-> sub, login |-> l]}
        /\ RequestsFit'
    BY <1>0, <1>5, <2>1 DEF Authorize, RequestsFit
  <2>4. GroupsOf(l) \in SUBSET Names
    BY DEF GroupsOf
  <2>5. QED
    BY <2>2, <2>3, <2>4, SynchronizedFits
<1>6. CASE UNCHANGED vars
  BY <1>0, <1>6, PeopleUnchangedFit DEF vars, people, RequestsFit
<1>7. QED
  BY <1>1, <1>2, <1>3, <1>4, <1>5, <1>6, DeletedFits, CustomGroupsFit, MembershipFits,
     ProviderFits, WorkerFits
  DEF Next

-------------------------------------------------------------------------------
(* Accounts, groups, tokens and requests keep their types; every account is a member
   of its private group, and no private group is without an account; who is bound to
   an identity is in the provider's group.                                        *)
THEOREM AccountsInGroups == Spec => []AccountsSound
<1>1. Inv => AccountsSound
  BY DEF Inv, AccountsSound
<1>2. QED
  BY <1>1, Initially, Step, PTL DEF Spec

(* What was ended by a new password, by disabling or deleting stays ended, also for
   an account made later with the same login.                                     *)
THEOREM EndedForGood == Spec => []EndedStaysEnded
<1>1. Inv => EndedStaysEnded
  BY DEF Inv, EndedMatchNothing, EndedStaysEnded, Matches, Usable
<1>2. QED
  BY <1>1, Initially, Step, PTL DEF Spec

(* A login by the provider changes only memberships of who logs in, and unless all
   groups are managed by the provider only in groups linked to it.                *)
THEOREM SyncChangesItsOwn == Spec => SyncStaysInside
<1> DEFINE Inside ==
      \A l \in Logins, sub \in Subs, claims \in Claims :
         Authorize(l, sub, claims) =>
           \A m \in (members \ members') \cup (members' \ members) :
              m[1] = l /\ (provider.mode = "FULL" \/ groups'[m[2]].linked)
<1>1. Inv => Inside
  <2> SUFFICES ASSUME Inv, NEW l \in Logins, NEW sub \in Subs, NEW claims \in Claims,
                      Authorize(l, sub, claims),
                      NEW m \in (members \ members') \cup (members' \ members)
               PROVE  m[1] = l /\ (provider.mode = "FULL" \/ groups'[m[2]].linked)
    OBVIOUS
  <2>1. Synchronize(l, GroupsOf(l), claims) /\ provider # None
    BY DEF Authorize
  <2>2. members \subseteq Logins \X Names /\ GroupsOf(l) \in SUBSET Names
    BY DEF Inv, TypeOK, GroupsOf
  <2>3. /\ members' \subseteq Logins \X Names
        /\ \A k \in members' : k \in members \/ k[1] = l
        /\ \A k \in members : k[1] # l => k \in members'
    BY <2>1, <2>2, Synchronized DEF Inv
  <2>4. m[1] = l /\ m = <<l, m[2]>> /\ m[2] \in Names
    BY <2>2, <2>3
  <2> DEFINE n == m[2]
             now == IF provider.mode = "NONE" THEN GroupsOf(l)
                    ELSE SyncedNames(l, GroupsOf(l), claims)
  <2>5. (n \in now) # (n \in GroupsOf(l))
    <3>1. m \in members <=> n \in GroupsOf(l)
      BY <2>4 DEF GroupsOf
    <3>2. members' = {k \in members : k[1] # l} \cup {<<l, k>> : k \in now}
      BY <2>1 DEF Synchronize
    <3> HIDE DEF n, now
    <3>3. m \in members' <=> n \in now
      BY <2>4, <3>2 DEF n
    <3>4. QED
      BY <3>1, <3>3
  <2>6. provider.mode # "NONE"
    BY <2>5
  <2>7. groups' = SyncedGroups(claims)
    BY <2>1, <2>6 DEF Synchronize
  <2>8. provider.mode = "FULL" \/ SyncedGroups(claims)[n].linked
    BY <2>5, <2>6 DEF SyncedNames
  <2>9. QED
    BY <2>4, <2>7, <2>8
<1>2. Inv /\ [Next]_vars => [Inside]_vars
  BY <1>1
<1>3. QED
  BY <1>2, Initially, Step, PTL DEF Spec, SyncStaysInside
================================================================================
