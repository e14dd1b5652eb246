------------------------------- MODULE EntityPage -------------------------------
(* A page of the web client and one of its handlers (PageHandlers.tla) against the
   server and the browser's history: a page fetches its entity when it is mounted
   and when its address changes, without cancelling the fetch before; a handler's
   request may be under way while the user goes elsewhere, asks again, or gets the
   answer to an older fetch.

   The state of an entity on the server is its version. The page has got an entity,
   the one that its handlers change; what they change of it is shown, which is fetched
   with it or apart from it. A handler runs in a slot; what it sets when it goes on is
   lost if its buttons ("form") are no longer there, but what it navigates to is not.
   The user has wandered when he went from entity to entity while a part of the page
   keeps what it shows of the first.                                             *)
EXTENDS Naturals, FiniteSets, PageHandlers

CONSTANTS
    Subjects,    \* the entities that have a page
    Away,        \* the address of any other page
    MaxVersion,  \* bound: changes of an entity
    MaxRunning,  \* bound: requests of the handler under way at a time
    MaxFetches   \* bound: fetches under way after the user went elsewhere, or when he
                 \* confirms

ASSUME PageAssumption ==
    /\ Subjects # {} /\ IsFiniteSet(Subjects)
    /\ Away \notin Subjects
    /\ MaxVersion \in Nat /\ MaxRunning \in Nat \ {0} /\ MaxFetches \in Nat \ {0}

VARIABLES
    focus,   \* the handler and its page: [does, fails, is]
    client,  \* the browser: [address, entity, shown, wandered, open, locked, fetches, slots]
    server,  \* the version of each entity
    due,     \* of each entity the version that the user's last change made, once
             \* its page, still there, has been told
    missed   \* whether what arrived last is not what the page was to show

pageVars == <<focus, client, server, due, missed>>

Slots == 1..MaxRunning
NoSlot == 0
Blank == [of |-> Away, version |-> 0]
Idle == [phase |-> "idle", target |-> Away, at |-> Away,
         form |-> FALSE, page |-> FALSE]

Focus ==
    UNION {{[does |-> h, fails |-> Pages[p].fails, is |-> Pages[p].is] : h \in Pages[p].does}
              : p \in DOMAIN Pages}

do == focus.does
IsShown == "shown" \in do.is
KeepsItsFirst == "first" \in do.is
Home == CHOOSE s \in Subjects : TRUE
Addresses == {Away} \cup (IF "many" \in focus.is THEN Subjects ELSE {Home})

-------------------------------------------------------------------------------
(* A fetch remembers the version at its start, whether its page is still mounted, the
   slot that waits for it, and whether it is for what the handler changes alone. Forms
   have nothing to fetch.                                                        *)
Fetched(c, s, live, for, part) ==
    IF ~IsShown THEN c
    ELSE [c EXCEPT !.fetches = @ \cup
            {[of |-> s, seen |-> IF live THEN server'[s] ELSE 0, live |-> live, for |-> for,
              part |-> part]}]

(* The page is left: nothing it has started finds its state any more, so that only
   those answers matter that go elsewhere.                                       *)
GoesElsewhere == (do.ok \cup do.fails) \cap {"stay", "leave"} # {}

Unmounted(c) ==
    [c EXCEPT !.address = Away, !.entity = Away, !.shown = Blank, !.wandered = FALSE,
              !.open = FALSE, !.locked = FALSE,
              !.fetches = {[f EXCEPT !.live = FALSE, !.seen = 0] : f \in
                 {g \in @ : IF g.for = NoSlot THEN focus.fails # {} /\ ~g.part
                            ELSE GoesElsewhere}},
              !.slots = [i \in Slots |->
                 IF GoesElsewhere /\ @[i] # Idle
                 THEN [@[i] EXCEPT !.form = FALSE, !.page = FALSE] ELSE Idle]]

(* To the page of another entity the component stays, and with it its modal and
   its data; what is inside of a page that hides until its data are there is
   unmounted.                                                                    *)
Moved(c, s) ==
    LET d == [c EXCEPT !.address = s,
                       !.wandered = KeepsItsFirst /\ (@ \/ c.address # Away)]
    IN  IF "inside" \in focus.is
        THEN [d EXCEPT !.open = FALSE, !.locked = FALSE,
                       !.slots = [i \in Slots |-> [@[i] EXCEPT !.form = FALSE]]]
        ELSE d

Goto(c, s) ==
    IF s = c.address THEN c
    ELSE IF s = Away THEN Unmounted(c)
    ELSE Fetched(Moved(c, s), s, TRUE, NoSlot, FALSE)

(* An answer is of what is shown if that was asked for alone, or is not fetched apart
   and no longer kept. A whole entity has none of the parts that are fetched apart; they
   are asked for when it is another one, or the first.                           *)
Takes(c, f) == f.part \/ ("apart" \notin do.is /\ (KeepsItsFirst => c.entity = Away))
Clears(f) == ~f.part /\ "apart" \in do.is /\ ~KeepsItsFirst
FetchesPart(c, f) ==
    /\ ~f.part /\ "apart" \in do.is
    /\ IF KeepsItsFirst THEN c.entity = Away ELSE f.of # c.entity

Given(c, f, v) ==
    LET d == [c EXCEPT !.entity = IF f.part THEN @ ELSE f.of,
                       !.shown = IF Takes(c, f) THEN [of |-> f.of, version |-> v]
                                 ELSE IF Clears(f) THEN Blank ELSE @]
    IN  IF FetchesPart(c, f)
        THEN Fetched(d, IF KeepsItsFirst THEN c.address ELSE f.of, TRUE, NoSlot, TRUE) ELSE d

Reloaded(c, r, for) ==
    Fetched(c, IF "own" \in do.is THEN r.target ELSE r.at, r.page, for,
            {"own", "apart"} \cap do.is # {})

(* What the handler of slot i does with the words of its entry: it sets what its
   form still has, reloads and navigates. A change is shown at once (a flag is set)
   whatever the page shows by then.                                              *)
Effects(words, c, i) ==
    LET r == c.slots[i]
        buttons == [c EXCEPT !.slots[i] = Idle,
                             !.open = @ /\ ~(r.form /\ "close" \in words),
                             !.locked = @ /\ ~(r.form /\ "unlock" \in words)]
        more == IF "reload" \in words THEN Reloaded(buttons, r, NoSlot) ELSE buttons
        now == IF "show" \in words /\ r.page
               THEN [more EXCEPT !.shown = [of |-> r.target, version |-> server'[r.target]]]
               ELSE more
    IN  IF "leave" \in words THEN Goto(now, Away)
        ELSE IF "stay" \in words THEN Goto(now, r.at) ELSE now

-------------------------------------------------------------------------------
Init ==
    /\ focus \in Focus
    /\ server = [s \in Subjects |-> 0]
    /\ client = [address |-> Home, entity |-> Away, shown |-> Blank, wandered |-> FALSE,
                 open |-> FALSE, locked |-> FALSE,
                 fetches |-> IF ~IsShown THEN {}
                             ELSE {[of |-> Home, seen |-> 0, live |-> TRUE, for |-> NoSlot,
                                    part |-> FALSE]},
                 slots |-> [i \in Slots |-> Idle]]
    /\ due = [s \in Subjects |-> 0]
    /\ missed = FALSE

(* The user follows a link or goes back. *)
Go(s) ==
    /\ s # client.address
    /\ UNCHANGED <<focus, server, due, missed>>
    /\ Cardinality(client.fetches) < MaxFetches
    /\ client' = Goto(client, s)

(* The handler is offered once its page has something to show it for. *)
Offered ==
    /\ client.address # Away
    /\ IsShown => client.entity # Away
    /\ "hides" \in focus.is => client.entity = client.address

OpenModal ==
    /\ Offered /\ "modal" \in do.is /\ ~client.open
    /\ client' = [client EXCEPT !.open = TRUE]
    /\ UNCHANGED <<focus, server, due, missed>>

CloseModal ==
    /\ client.open
    /\ client' = [client EXCEPT !.open = FALSE]
    /\ UNCHANGED <<focus, server, due, missed>>

(* The form is submitted, or the modal answered with yes. *)
Confirm(i) ==
    /\ Cardinality(client.fetches) =< MaxFetches
    /\ client.slots[i] = Idle /\ \A j \in 1..(i - 1) : client.slots[j] # Idle
    /\ Offered /\ ~client.locked /\ ("modal" \in do.is => client.open)
    /\ client' = [client EXCEPT
         !.slots[i] = [phase |-> "sent", form |-> TRUE, page |-> TRUE,
                       target |-> IF IsShown THEN client.entity ELSE client.address,
                       at |-> client.address],
         !.locked = "lock" \in do.start,
         !.open = @ /\ "close" \notin do.start]
    /\ UNCHANGED <<focus, server, due, missed>>

(* The good answer arrives: the server has done what it was asked for. If the
   handler waits for a reload, only that is begun.                               *)
Succeed(i) ==
    LET r == client.slots[i]
        s == r.target
    IN
    /\ r.phase = "sent"
    /\ server[s] < MaxVersion
    /\ server' = [server EXCEPT ![s] = @ + 1]
    /\ client' = IF do.waits = "no" THEN Effects(do.ok, client, i)
                 ELSE Reloaded([client EXCEPT !.slots[i].phase = "reloading"], r, i)
    /\ due' = IF r.page THEN [due EXCEPT ![s] = server[s] + 1] ELSE due
    /\ UNCHANGED <<focus, missed>>

(* A refusal, or no answer although it was done. *)
Fail(i) ==
    LET s == client.slots[i].target IN
    /\ client.slots[i].phase = "sent"
    /\ \/ UNCHANGED server
       \/ server[s] < MaxVersion /\ server' = [server EXCEPT ![s] = @ + 1]
    /\ client' = Effects(do.fails, client, i)
    /\ UNCHANGED <<focus, due, missed>>

(* A fetch is answered with a version between its start and now; what waited for
   it goes on. When the entity that the page has got is loaded again, the parts that
   are fetched apart are lost.                                                   *)
Received(f) == [client EXCEPT !.fetches = @ \ {f}]

Arrive(f) ==
    /\ UNCHANGED <<focus, server, due>>
    /\ \E v \in IF f.live THEN f.seen..server[f.of] ELSE {0} :
         LET c == IF f.live THEN Given(Received(f), f, v) ELSE Received(f) IN
         /\ client' = IF f.for = NoSlot THEN c ELSE Effects(do.ok \ {"reload"}, c, f.for)
         /\ missed' = IF ~f.live THEN missed
                      ELSE IF Takes(client, f) THEN ~(f.of = client.address /\ v >= due[f.of])
                      ELSE missed \/ (Clears(f) /\ ~FetchesPart(client, f))

(* A fetch fails: the page says so, or whoever waits for it goes on. What is shown
   waited for it unless it is kept.                                              *)
Awaited(c, f) == f.live /\ (KeepsItsFirst => f.part \/ c.entity = Away)

FetchFails(f) ==
    /\ UNCHANGED <<focus, server, due>>
    /\ client' =
         IF f.for # NoSlot
         THEN Effects(IF do.waits = "loaded" THEN do.fails ELSE do.ok \ {"reload"},
                      Received(f), f.for)
         ELSE IF f.part \/ focus.fails = {} THEN Received(f)
         ELSE IF "leave" \in focus.fails THEN Goto(Received(f), Away)
         ELSE Goto(Received(f), IF "home" \in focus.fails THEN Home ELSE f.of)
    /\ missed' = (missed \/ Awaited(client, f))

Answered(i) == Succeed(i) \/ Fail(i)
Reply(f) == Arrive(f) \/ FetchFails(f)

Next ==
    \/ \E s \in Addresses : Go(s)
    \/ OpenModal
    \/ CloseModal
    \/ \E i \in Slots : Confirm(i) \/ Answered(i)
    \/ \E f \in client.fetches : Reply(f)

Spec == Init /\ [][Next]_pageVars

-------------------------------------------------------------------------------
TypeOK ==
    /\ focus \in Focus
    /\ client.address \in Addresses
    /\ client.entity \in Subjects \cup {Away} /\ client.wandered \in BOOLEAN
    /\ client.shown.of \in Subjects \cup {Away}
    /\ client.shown.version \in 0..MaxVersion
    /\ client.open \in BOOLEAN /\ client.locked \in BOOLEAN
    /\ client.slots \in
         [Slots -> {Idle} \cup [phase : {"sent", "reloading"}, target : Subjects,
                                at : Subjects, form : BOOLEAN, page : BOOLEAN]]
    /\ client.fetches \subseteq [of : Subjects, seen : 0..MaxVersion, live : BOOLEAN,
                                 for : {NoSlot} \cup Slots, part : BOOLEAN]
    /\ server \in [Subjects -> 0..MaxVersion]
    /\ due \in [Subjects -> 0..MaxVersion]
    /\ missed \in BOOLEAN

Running == {i \in Slots : client.slots[i].phase # "idle" /\ client.slots[i].form}

(* The handlers whose buttons stay disabled after a failure until the page is left. *)
LockedForGood == {
    PullAction.PullRemote, PushAction.PushRemote, UserResetPasswordView.ResetPassword,
    AttributeDetailsView.HandleRemoveAttribute, ProfileResetPassword.RequestPasswordChange}

(* Buttons are disabled only while a request of theirs is under way, whatever its
   answer and wherever the user goes meanwhile.                                  *)
LockedWhileRunning == client.locked /\ do \notin LockedForGood => Running # {}

(* What disables its buttons, a removal above all, is never under way twice from
   the same page, however often and from where it is confirmed.                 *)
AskedOnce == LockedForGood \cup {
    RelationsBox.RemoveObjectRelations, RemoveAction.DeleteObject,
    UserDetailsView.SetDisabledState, UserDetailsView.HandleRemoveUser,
    GroupDetailsView.HandleRemoveGroup, AccessControlView.ChangeCapabilities,
    OAuthProviderView.HandleRemoveProvider, UserRegisterView, UserPasswordRecoverView}

RunsOnce == do \in AskedOnce => Cardinality(Running) =< 1

(* Once everything is answered, the page shows the entity of its address, with the
   changes the user has made to it, unless what arrived last was for another address,
   older than such a change, or a failure. A part that keeps what it shows of its first
   entity does so as long as the user has not gone from one to another, and after that
   still has the changes made to the entity it shows.                            *)
AtRest ==
    /\ client.address # Away /\ IsShown
    /\ client.fetches = {} /\ \A i \in Slots : client.slots[i] = Idle

ShowsOwnChanges ==
    AtRest /\ ~missed =>
        /\ client.shown # Blank /\ client.shown.version >= due[client.shown.of]
        /\ client.shown.of = client.address \/ client.wandered

(* "Sharing with third parties is enabled for this object": what is shown is of the
   entity of the address, wherever the user came from. The code does not do that: the
   box of third party sharing and the permissions of an attribute keep an earlier one. *)
ShowsItsEntity == AtRest /\ ~missed => client.shown.of = client.address

(* A button is as often there as its request may be under way: never locked without
   one, and, where asking twice would fail, never open with one.                  *)
ButtonsSound == TypeOK /\ LockedWhileRunning /\ RunsOnce
================================================================================
