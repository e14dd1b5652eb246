--------------------------- MODULE EntityPageProofs ---------------------------
(* That the buttons of a page are sound and that a page at rest shows what its user
   has changed: for any number of entities, changes, requests and fetches under way,
   whatever handler of PageHandlers.tla it is.

   The invariant, PageInv, says of the browser what its fetches and slots have to do
   with each other (AnswersFit), what its buttons have to do with the requests under
   way (ButtonsFit, Held), that what keeps its first entity knows no other as long as
   the user has not wandered (InPlace), and that the page either has the user's last
   change or waits for an answer that its state will take (Told).                *)
EXTENDS EntityPage, FiniteSetTheorems, TLAPS

(* What the entries of PageHandlers have in common: buttons that were disabled are
   released after each outcome, or the page is left, but for the five that are known;
   a change that its page shows is reloaded or shown, or the page is left; none that
   goes on after a reload shows its change at once; and what keeps its first entity is
   either shown at once or reloaded apart.                                        *)
Releases(words) == "unlock" \in words \/ "leave" \in words

HandlerSound(h) ==
    /\ "lock" \in h.start /\ h \notin LockedForGood => Releases(h.ok) /\ Releases(h.fails)
    /\ "shown" \in h.is => {"reload", "leave", "show"} \cap h.ok # {} \/ h.waits # "no"
    /\ "show" \in h.ok => h.waits = "no"
    /\ "show" \notin h.fails
    /\ "shown" \in h.is /\ "show" \in h.ok => "first" \in h.is
    /\ "first" \in h.is => \/ "apart" \in h.is
                           \/ h.waits = "no" /\ "reload" \notin h.ok

(* So are the entries of the boxes on the page of an object. *)
LEMMA ObjectHandlersSound == \A h \in ObjectHandlers : HandlerSound(h)
<1> USE DEF Range, Handler, HandlerSound, Releases
<1>1. \A h \in Range(TagBox) \cup Range(CommentBox) : HandlerSound(h)
  BY DEF TagBox, CommentBox
<1>2. \A h \in Range(AttributesBox) \cup Range(SharesBox) : HandlerSound(h)
  BY DEF AttributesBox, AttributesAddModal, SharesBox
<1>3. \A h \in Range(RelationsBox) : HandlerSound(h)
  BY DEF RelationsBox, RelationsAddModal, RemoveObjectRelations
<1>4. \A h \in Range(KartonAnalysisBox) \cup Range(FavoriteAction) : HandlerSound(h)
  BY DEF KartonAnalysisBox, FavoriteAction
<1>5. \A h \in Range(Share3rdPartyBox) \cup Range(RemoveAction) : HandlerSound(h)
  BY DEF Share3rdPartyBox, RemoveAction
<1>6. \A h \in Range(PullAction) \cup Range(PushAction) : HandlerSound(h)
  BY DEF PullAction, PushAction, LockedForGood
<1>7. QED
  BY <1>1, <1>2, <1>3, <1>4, <1>5, <1>6 DEF ObjectHandlers

LEMMA ModalsSound == HandlerSound(DeleteCapabilityModal) /\ HandlerSound(CapabilitiesSelect)
BY DEF HandlerSound, Handler, DeleteCapabilityModal, CapabilitiesSelect

(* So are those of the pages of users, groups and attributes. *)
LEMMA UserHandlersSound == \A h \in UserHandlers : HandlerSound(h)
<1> USE DEF Range, Handler, HandlerSound, Releases
<1>1. \A h \in Range(UserDetailsView) : HandlerSound(h)
  BY DEF UserDetailsView, EditFields
<1>2. \A h \in Range(UserResetPasswordView) : HandlerSound(h)
  BY DEF UserResetPasswordView, LockedForGood
<1>3. \A h \in Range(UserSingleGroupsView) \cup Range(ProfileAPIKeys) : HandlerSound(h)
  BY DEF UserSingleGroupsView, ProfileAPIKeys
<1>4. QED
  BY <1>1, <1>2, <1>3, ModalsSound DEF UserHandlers

LEMMA GroupHandlersSound == \A h \in GroupHandlers : HandlerSound(h)
<1> USE DEF Range, Handler, HandlerSound, Releases
<1>1. \A h \in Range(GroupDetailsView) : HandlerSound(h)
  BY DEF GroupDetailsView
<1>2. \A h \in Range(GroupMembersView) : HandlerSound(h)
  BY DEF GroupMembersView
<1>3. QED
  BY <1>1, <1>2, ModalsSound DEF GroupHandlers

LEMMA AttributeHandlersSound == \A h \in AttributeHandlers : HandlerSound(h)
<1> USE DEF Range, Handler, HandlerSound, Releases
<1>1. \A h \in Range(AttributeDetailsView) : HandlerSound(h)
  BY DEF AttributeDetailsView, LockedForGood
<1>2. \A h \in Range(AttributesPermissionsView) : HandlerSound(h)
  BY DEF AttributesPermissionsView
<1>3. \A h \in Range(AttributeEditTemplateView) : HandlerSound(h)
  BY DEF AttributeEditTemplateView
<1>4. QED
  BY <1>1, <1>2, <1>3 DEF AttributeHandlers

(* So are those of the other pages, and of the forms. *)
LEMMA OtherHandlersSound ==
    \A h \in Range(UsersPendingListView) \cup Range(AccessControlView)
               \cup Range(OAuthProviderView) \cup {DeleteCapabilityModal}
               \cup ProfileHandlers \cup Range(ProfileGroupItems) \cup Range(FormHandlers) :
        HandlerSound(h)
<1> USE DEF Range, Handler, HandlerSound, Releases
<1>1. \A h \in Range(UsersPendingListView) \cup Range(AccessControlView) : HandlerSound(h)
  BY DEF UsersPendingListView, AccessControlView
<1>2. \A h \in Range(OAuthProviderView) : HandlerSound(h)
  BY DEF OAuthProviderView, EditFields
<1>3. \A h \in Range(ProfileResetPassword) \cup Range(ProfileAPIKeys) : HandlerSound(h)
  BY DEF ProfileResetPassword, ProfileAPIKeys, LockedForGood
<1>4. \A h \in Range(ProfileGroupItems) : HandlerSound(h)
  BY DEF ProfileGroupItems
<1>5. \A h \in Range(FormHandlers) : HandlerSound(h)
  BY DEF FormHandlers, UserRegisterView, UserPasswordRecoverView, UserSetPasswordView,
         ProfileOAuth, UserCreateView, GroupCreateView, AttributeCreateView,
         OAuthRegisterView, UploadFileView, UploadBlobView, UploadConfigView
<1>6. QED
  BY <1>1, <1>2, <1>3, <1>4, <1>5, ModalsSound DEF ProfileHandlers

(* So is the handler that the page runs, whichever it is. *)
LEMMA EntriesSound == focus \in Focus => HandlerSound(do)
<1> SUFFICES ASSUME focus \in Focus PROVE HandlerSound(do)
  OBVIOUS
<1>1. PICK p \in DOMAIN Pages : do \in Pages[p].does
  BY DEF Focus, do
<1>2. p \in {"object", "user", "pending", "group", "access", "attribute", "provider",
             "profile", "inProfile", "workspaces", "form"}
  BY DEF Pages
<1>3. Pages[p].does \in {ObjectHandlers, UserHandlers, Range(UsersPendingListView),
                         GroupHandlers, Range(AccessControlView), AttributeHandlers,
                         Range(OAuthProviderView), {DeleteCapabilityModal},
                         ProfileHandlers, Range(ProfileGroupItems), Range(FormHandlers)}
  BY <1>2 DEF Pages, Page
<1>4. QED
  BY <1>1, <1>3, ObjectHandlersSound, UserHandlersSound, GroupHandlersSound,
     AttributeHandlersSound, OtherHandlersSound

(* What is asked once disables its buttons. *)
LEMMA AskedOnceLocks == \A h \in AskedOnce : "lock" \in h.start
BY DEF AskedOnce, LockedForGood, Handler, PullAction, PushAction, UserResetPasswordView,
       AttributeDetailsView, ProfileResetPassword, RelationsBox, RemoveObjectRelations,
       RemoveAction, UserDetailsView, GroupDetailsView, AccessControlView,
       OAuthProviderView, UserRegisterView, UserPasswordRecoverView

(* The types. What is fetched, and what a handler is about, has a page. *)
Targets == Addresses \ {Away}
Answers == [of : Targets, seen : 0..MaxVersion, live : BOOLEAN, for : {NoSlot} \cup Slots,
            part : BOOLEAN]
Runs == [phase : {"sent", "reloading"}, target : Targets, at : Targets,
         form : BOOLEAN, page : BOOLEAN]
Clients == [address : Addresses, entity : Addresses,
            shown : {Blank} \cup [of : Targets, version : 0..MaxVersion],
            wandered : BOOLEAN, open : BOOLEAN, locked : BOOLEAN, fetches : SUBSET Answers,
            slots : [Slots -> {Idle} \cup Runs]]

RunningIn(slots) == {i \in Slots : slots[i].phase # "idle" /\ slots[i].form}

(* A slot that waits for a fetch is still there, and waits for no other; only some
   handlers wait. *)
AnswersFit(fetches, slots) ==
    /\ \A f \in fetches : f.for # NoSlot => /\ do.waits # "no"
                                            /\ slots[f.for].phase = "reloading"
    /\ \A f, g \in fetches : f.for # NoSlot /\ f.for = g.for => f = g

(* A page that was left has no buttons; only who disables them finds them disabled; and
   what is asked once runs once, behind disabled buttons. *)
ButtonsFit(address, locked, slots) ==
    /\ address = Away => ~locked /\ RunningIn(slots) = {}
    /\ locked => "lock" \in do.start
    /\ do \in AskedOnce => /\ RunningIn(slots) # {} => locked
                           /\ \A i, j \in RunningIn(slots) : i = j

(* A page that was left has nothing that finds its state; what keeps its first entity
   knows only that of the address, as long as the user has not wandered. *)
InPlace(c) ==
    /\ c.address = Away => /\ c.entity = Away
                           /\ \A f \in c.fetches : ~f.live
                           /\ \A i \in Slots : ~c.slots[i].page
    /\ KeepsItsFirst /\ ~c.wandered =>
          /\ c.entity \in {Away, c.address}
          /\ \A f \in c.fetches : f.live => f.of = c.address
          /\ \A i \in Slots : c.slots[i].page =>
                c.slots[i].target = c.address /\ c.slots[i].at = c.address

Fit(c) ==
    /\ c \in Clients
    /\ AnswersFit(c.fetches, c.slots) /\ ButtonsFit(c.address, c.locked, c.slots)
    /\ InPlace(c)

Held(locked, slots) == locked /\ do \notin LockedForGood => RunningIn(slots) # {}

(* The page has been told of the user's changes, or a fetch that its state still takes
   is under way. *)
Told(c, d, m) ==
    c.address # Away /\ IsShown /\ ~m =>
        \/ \E f \in c.fetches : Awaited(c, f)
        \/ /\ c.shown # Blank /\ c.shown.version >= d[c.shown.of]
           /\ c.shown.of = c.address \/ c.wandered

PageInv ==
    /\ focus \in Focus
    /\ server \in [Subjects -> 0..MaxVersion]
    /\ due \in [Subjects -> 0..MaxVersion]
    /\ \A s \in Subjects : due[s] =< server[s]
    /\ missed \in BOOLEAN
    /\ Fit(client) /\ Held(client.locked, client.slots)
    /\ Told(client, due, missed)

-------------------------------------------------------------------------------
(* The addresses, but for Away, are entities. *)
LEMMA TargetsAreSubjects ==
    /\ Home \in Subjects /\ Home \in Targets
    /\ Targets \subseteq Subjects /\ Away \notin Targets
    /\ Addresses = Targets \cup {Away}
BY PageAssumption DEF Home, Targets, Addresses

(* No slot is called NoSlot, and an idle slot is told from one that runs. *)
LEMMA SlotsAreNumbers ==
    /\ NoSlot \notin Slots
    /\ Idle \notin Runs /\ Idle.phase = "idle"
    /\ \A r \in Runs : r.phase # "idle"
BY PageAssumption DEF NoSlot, Slots, Idle, Runs

(* An idle slot has no form to lose. *)
LEMMA IdleIsOne == [Idle EXCEPT !.form = FALSE] = Idle /\ ~Idle.form /\ ~Idle.page
<1> DEFINE Idles == [phase : {"idle"}, target : {Away}, at : {Away},
                     form : {FALSE}, page : {FALSE}]
           unmounted == [Idle EXCEPT !.form = FALSE]
<1>1. Idle \in Idles /\ ~Idle.form /\ ~Idle.page
  BY DEF Idle
<1>2. unmounted \in Idles
  BY <1>1
<1>3. ASSUME NEW r \in Idles
      PROVE  r = [phase |-> "idle", target |-> Away, at |-> Away,
                  form |-> FALSE, page |-> FALSE]
  OBVIOUS
<1> HIDE DEF Idles, unmounted
<1>4. unmounted = Idle
  BY <1>2, <1>3 DEF Idle
<1>5. QED
  BY <1>1, <1>4 DEF unmounted

(* One more fetch. *)
LEMMA FetchedFits ==
    ASSUME server' \in [Subjects -> 0..MaxVersion], NEW c, Fit(c), NEW s \in Targets,
           NEW live \in BOOLEAN, NEW for \in {NoSlot} \cup Slots, NEW part \in BOOLEAN,
           for # NoSlot => /\ do.waits # "no" /\ c.slots[for].phase = "reloading"
                           /\ \A f \in c.fetches : f.for # for,
           live => /\ c.address # Away
                   /\ KeepsItsFirst /\ ~c.wandered => s = c.address
    PROVE  LET d == Fetched(c, s, live, for, part) IN
           /\ Fit(d) /\ d.address = c.address /\ d.entity = c.entity /\ d.shown = c.shown
           /\ d.wandered = c.wandered /\ d.locked = c.locked /\ d.slots = c.slots
           /\ c.fetches \subseteq d.fetches
           /\ live /\ IsShown => \E f \in d.fetches : f.live /\ (part => f.part)
<1> DEFINE d == Fetched(c, s, live, for, part)
           new == [of |-> s, seen |-> IF live THEN server'[s] ELSE 0, live |-> live,
                   for |-> for, part |-> part]
<1>1. new \in Answers /\ new.for = for /\ new.live = live /\ new.of = s /\ new.part = part
  <2>1. server'[s] \in 0..MaxVersion /\ 0 \in 0..MaxVersion
    BY TargetsAreSubjects, PageAssumption
  <2>2. QED
    BY <2>1 DEF Answers
<1>2. CASE IsShown
  <2>1. d = [c EXCEPT !.fetches = c.fetches \cup {new}]
    BY <1>2 DEF Fetched
  <2> HIDE DEF d, new
  <2>2. /\ d \in Clients /\ d.address = c.address /\ d.entity = c.entity
        /\ d.shown = c.shown /\ d.wandered = c.wandered
        /\ d.locked = c.locked /\ d.slots = c.slots /\ d.fetches = c.fetches \cup {new}
    BY <1>1, <2>1 DEF Fit, Clients
  <2>3. AnswersFit(d.fetches, d.slots)
    BY <1>1, <2>2 DEF Fit, AnswersFit
  <2>4. InPlace(d)
    BY <1>1, <2>2 DEF Fit, InPlace
  <2>5. Fit(d)
    BY <2>2, <2>3, <2>4 DEF Fit
  <2>6. QED
    BY <1>1, <2>2, <2>5 DEF d
<1>3. CASE ~IsShown
  BY <1>3 DEF Fetched
<1>4. QED
  BY <1>2, <1>3

(* The page is left. *)
LEMMA UnmountedFits ==
    ASSUME NEW c, Fit(c)
    PROVE  /\ Fit(Unmounted(c)) /\ Unmounted(c).address = Away
           /\ Held(Unmounted(c).locked, Unmounted(c).slots)
<1> DEFINE d == Unmounted(c)
           gone(f) == [f EXCEPT !.live = FALSE, !.seen = 0]
           kept == {g \in c.fetches : IF g.for = NoSlot THEN focus.fails # {} /\ ~g.part
                                      ELSE GoesElsewhere}
           left(r) == [r EXCEPT !.form = FALSE, !.page = FALSE]
           rest == [i \in Slots |-> IF GoesElsewhere /\ c.slots[i] # Idle
                                    THEN left(c.slots[i]) ELSE Idle]
<1>1. \A f \in c.fetches : /\ gone(f) \in Answers /\ gone(f).for = f.for
                           /\ ~gone(f).live
  <2>1. 0 \in 0..MaxVersion /\ c.fetches \subseteq Answers
    BY PageAssumption DEF Fit, Clients
  <2>2. QED
    BY <2>1 DEF Answers
<1>2. \A r \in Runs : /\ left(r) \in Runs /\ left(r).phase = r.phase
                      /\ ~left(r).form /\ ~left(r).page
  BY DEF Runs
<1>3. /\ rest \in [Slots -> {Idle} \cup Runs]
      /\ \A i \in Slots : ~rest[i].form /\ ~rest[i].page
      /\ \A i \in Slots : GoesElsewhere /\ c.slots[i].phase = "reloading"
                             => rest[i].phase = "reloading"
  <2>1. \A i \in Slots : c.slots[i] \in {Idle} \cup Runs
    BY DEF Fit, Clients
  <2>2. ~Idle.form /\ ~Idle.page
    BY DEF Idle
  <2> HIDE DEF left
  <2>3. QED
    BY <1>2, <2>1, <2>2, SlotsAreNumbers
<1>4. /\ d \in Clients /\ d.address = Away /\ d.locked = FALSE /\ d.slots = rest
      /\ d.entity = Away /\ d.wandered = FALSE
      /\ d.fetches = {gone(f) : f \in kept}
  <2> DEFINE late == {gone(f) : f \in kept}
  <2>1. d = [c EXCEPT !.address = Away, !.entity = Away, !.shown = Blank,
                      !.wandered = FALSE, !.open = FALSE, !.locked = FALSE,
                      !.fetches = late, !.slots = rest]
    BY DEF Unmounted
  <2>2. late \in SUBSET Answers /\ Away \in Addresses /\ c \in Clients
    BY <1>1, TargetsAreSubjects DEF Fit
  <2> HIDE DEF d, rest, late
  <2>3. QED
    BY <1>3, <2>1, <2>2 DEF Clients, late
<1>5. AnswersFit(d.fetches, d.slots)
  <2> SUFFICES AnswersFit({gone(f) : f \in kept}, rest)
    BY <1>4
  <2> HIDE DEF gone, rest, d
  <2>1. \A f \in kept : f.for # NoSlot =>
           /\ f.for \in Slots /\ GoesElsewhere /\ do.waits # "no"
           /\ c.slots[f.for].phase = "reloading"
    BY DEF Fit, AnswersFit, Clients, Answers
  <2>2. \A f, g \in kept : f.for # NoSlot /\ f.for = g.for => f = g
    BY DEF Fit, AnswersFit
  <2> HIDE DEF kept
  <2>3. \A f \in kept : gone(f).for = f.for
    BY <1>1 DEF kept
  <2>4. QED
    BY <1>3, <2>1, <2>2, <2>3 DEF AnswersFit
<1>6. RunningIn(d.slots) = {}
  BY <1>3, <1>4 DEF RunningIn
<1>7. InPlace(d)
  <2> HIDE DEF gone, rest, d
  <2>1. \A f \in d.fetches : ~f.live
    BY <1>1, <1>4
  <2>2. QED
    BY <1>3, <1>4, <2>1 DEF InPlace
<1> HIDE DEF d
<1>8. QED
  BY <1>4, <1>5, <1>6, <1>7 DEF Fit, ButtonsFit, Held, d

(* To another page of the same component. *)
LEMMA MovedFits ==
    ASSUME NEW c, Fit(c), NEW s \in Targets
    PROVE  /\ Fit(Moved(c, s)) /\ Moved(c, s).address = s
           /\ Moved(c, s).entity = c.entity /\ Moved(c, s).shown = c.shown
           /\ Moved(c, s).fetches = c.fetches
           /\ Moved(c, s).wandered = (KeepsItsFirst /\ (c.wandered \/ c.address # Away))
           /\ Held(c.locked, c.slots) => Held(Moved(c, s).locked, Moved(c, s).slots)
<1> DEFINE far == KeepsItsFirst /\ (c.wandered \/ c.address # Away)
           there == [c EXCEPT !.address = s, !.wandered = far]
           d == Moved(c, s)
<1>1. s \in Addresses /\ s # Away /\ far \in BOOLEAN
  BY TargetsAreSubjects
<1>2. /\ there \in Clients /\ there.address = s /\ there.wandered = far
      /\ there.entity = c.entity /\ there.shown = c.shown /\ there.open = c.open
      /\ there.locked = c.locked /\ there.slots = c.slots /\ there.fetches = c.fetches
  BY <1>1 DEF Fit, Clients
<1>3. KeepsItsFirst /\ ~far => /\ c.entity = Away /\ \A f \in c.fetches : ~f.live
                               /\ \A i \in Slots : ~c.slots[i].page
  BY DEF Fit, InPlace
<1>4. CASE "inside" \in focus.is
  <2> DEFINE unmounted(r) == [r EXCEPT !.form = FALSE]
             rest == [i \in Slots |-> unmounted(c.slots[i])]
  <2>1. \A r \in {Idle} \cup Runs : /\ unmounted(r) \in {Idle} \cup Runs
                                    /\ unmounted(r).phase = r.phase /\ ~unmounted(r).form
                                    /\ unmounted(r).page = r.page
    <3>1. unmounted(Idle) = Idle /\ ~Idle.form
      BY IdleIsOne
    <3>2. \A r \in Runs : /\ unmounted(r) \in Runs
                          /\ unmounted(r).phase = r.phase /\ ~unmounted(r).form
                          /\ unmounted(r).page = r.page
      BY DEF Runs
    <3>3. QED
      BY <3>1, <3>2
  <2>2. \A i \in Slots : c.slots[i] \in {Idle} \cup Runs
    BY DEF Fit, Clients
  <2>3. d = [there EXCEPT !.open = FALSE, !.locked = FALSE, !.slots = rest]
    BY <1>2, <1>4 DEF Moved
  <2> HIDE DEF unmounted, d, there
  <2>4. /\ rest \in [Slots -> {Idle} \cup Runs]
        /\ \A i \in Slots : /\ rest[i].phase = c.slots[i].phase /\ ~rest[i].form
                            /\ rest[i].page = c.slots[i].page
    BY <2>1, <2>2
  <2> HIDE DEF rest
  <2>5. /\ d \in Clients /\ d.address = s /\ d.locked = FALSE /\ d.slots = rest
        /\ d.fetches = c.fetches /\ d.wandered = far
        /\ d.entity = c.entity /\ d.shown = c.shown
    BY <1>1, <1>2, <2>3, <2>4 DEF Clients
  <2>6. AnswersFit(d.fetches, d.slots)
    <3>1. \A f \in c.fetches : f.for # NoSlot => f.for \in Slots
      BY DEF Fit, Clients, Answers
    <3>2. QED
      BY <2>4, <2>5, <3>1 DEF Fit, AnswersFit
  <2>7. RunningIn(d.slots) = {}
    BY <2>4, <2>5 DEF RunningIn
  <2>8. InPlace(d)
    BY <1>1, <1>3, <2>4, <2>5 DEF InPlace
  <2>9. QED
    BY <1>1, <2>5, <2>6, <2>7, <2>8 DEF Fit, ButtonsFit, Held, d
<1>5. CASE "inside" \notin focus.is
  <2>1. d = there
    BY <1>5 DEF Moved
  <2> HIDE DEF d, there
  <2>2. InPlace(d)
    BY <1>1, <1>2, <1>3, <2>1 DEF InPlace
  <2>3. QED
    BY <1>1, <1>2, <2>1, <2>2 DEF Fit, ButtonsFit, d
<1>6. QED
  BY <1>4, <1>5

(* Wherever the browser goes. *)
LEMMA GotoFits ==
    ASSUME server' \in [Subjects -> 0..MaxVersion], NEW c, Fit(c), NEW s \in Addresses
    PROVE  /\ Fit(Goto(c, s)) /\ Goto(c, s).address = s
           /\ (s = Away \/ Held(c.locked, c.slots))
                 => Held(Goto(c, s).locked, Goto(c, s).slots)
           /\ \A d, m : Told(c, d, m) => Told(Goto(c, s), d, m)
<1>1. CASE s = c.address
  <2>1. Goto(c, s) = c
    BY <1>1 DEF Goto
  <2>2. s = Away => Held(c.locked, c.slots)
    BY <1>1 DEF Fit, ButtonsFit, Held
  <2>3. QED
    BY <1>1, <2>1, <2>2
<1>2. CASE s # c.address /\ s = Away
  <2>1. Goto(c, s) = Unmounted(c)
    BY <1>2 DEF Goto
  <2>2. QED
    BY <1>2, <2>1, UnmountedFits DEF Told
<1>3. CASE s # c.address /\ s # Away
  <2> DEFINE d == Moved(c, s)
             e == Fetched(d, s, TRUE, NoSlot, FALSE)
  <2>1. Goto(c, s) = e /\ s \in Targets
    BY <1>3, TargetsAreSubjects DEF Goto
  <2>2. /\ Fit(d) /\ d.address = s /\ (Held(c.locked, c.slots) => Held(d.locked, d.slots))
        /\ d.entity = c.entity /\ d.shown = c.shown /\ d.fetches = c.fetches
        /\ d.wandered = (KeepsItsFirst /\ (c.wandered \/ c.address # Away))
    BY <2>1, MovedFits
  <2> HIDE DEF d
  <2>3. /\ Fit(e) /\ e.address = s /\ e.locked = d.locked /\ e.slots = d.slots
        /\ e.entity = d.entity /\ e.shown = d.shown /\ e.wandered = d.wandered
        /\ d.fetches \subseteq e.fetches
        /\ IsShown => \E f \in e.fetches : f.live
    <3>1. TRUE \in BOOLEAN /\ FALSE \in BOOLEAN /\ NoSlot \in {NoSlot} \cup Slots
      OBVIOUS
    <3>2. d.address # Away /\ s = d.address
      BY <1>3, <2>2
    <3>3. /\ Fit(d) /\ s \in Targets
          /\ TRUE => d.address # Away /\ (KeepsItsFirst /\ ~d.wandered => s = d.address)
          /\ NoSlot # NoSlot => /\ do.waits # "no" /\ d.slots[NoSlot].phase = "reloading"
                               /\ \A f \in d.fetches : f.for # NoSlot
      BY <2>1, <2>2, <3>2
    <3> HIDE DEF e
    <3>4. /\ Fit(e) /\ e.address = d.address /\ e.locked = d.locked /\ e.slots = d.slots
          /\ e.entity = d.entity /\ e.shown = d.shown /\ e.wandered = d.wandered
          /\ d.fetches \subseteq e.fetches
      BY <3>1, <3>3, FetchedFits, Zenon DEF e
    <3>5. IsShown => \E f \in e.fetches : f.live
      BY <3>1, <3>3, FetchedFits, Zenon DEF e
    <3>6. QED
      BY <2>2, <3>4, <3>5
  <2> HIDE DEF e
  <2>4. ASSUME NEW due0, NEW late, Told(c, due0, late) PROVE Told(e, due0, late)
    <3>1. CASE ~KeepsItsFirst
      BY <2>3, <3>1 DEF Told, Awaited
    <3>2. CASE KeepsItsFirst /\ c.address = Away
      <4>1. e.entity = Away
        BY <2>2, <2>3, <3>2 DEF Fit, InPlace
      <4>2. QED
        BY <2>3, <4>1 DEF Told, Awaited
    <3>3. CASE KeepsItsFirst /\ c.address # Away
      BY <2>2, <2>3, <2>4, <3>3 DEF Told, Awaited
    <3>4. QED
      BY <3>1, <3>2, <3>3
  <2>5. QED
    BY <1>3, <2>1, <2>2, <2>3, <2>4
<1>4. QED
  BY <1>1, <1>2, <1>3

-------------------------------------------------------------------------------
(* What Effects makes of the browser, step by step. *)
Buttons(words, c, i) ==
    [c EXCEPT !.slots[i] = Idle,
              !.open = @ /\ ~(c.slots[i].form /\ "close" \in words),
              !.locked = @ /\ ~(c.slots[i].form /\ "unlock" \in words)]

More(words, c, i) ==
    IF "reload" \in words THEN Reloaded(Buttons(words, c, i), c.slots[i], NoSlot)
    ELSE Buttons(words, c, i)

Now(words, c, i) ==
    LET s == c.slots[i].target IN
    IF "show" \in words /\ c.slots[i].page
    THEN [More(words, c, i) EXCEPT !.shown = [of |-> s, version |-> server'[s]]]
    ELSE More(words, c, i)

(* Together they are Effects. *)
LEMMA EffectsInSteps ==
    ASSUME NEW words, NEW c, NEW i
    PROVE  Effects(words, c, i) =
             IF "leave" \in words THEN Goto(Now(words, c, i), Away)
             ELSE IF "stay" \in words THEN Goto(Now(words, c, i), c.slots[i].at)
             ELSE Now(words, c, i)
BY DEF Effects, Now, More, Buttons

(* A slot that has run, and that no fetch is for, is given up. *)
LEMMA ButtonsKept ==
    ASSUME NEW c, Fit(c), NEW i \in Slots, c.slots[i] \in Runs,
           \A f \in c.fetches : f.for # i, NEW words
    PROVE  LET d == Buttons(words, c, i) IN
           /\ Fit(d) /\ d.address = c.address /\ d.entity = c.entity /\ d.shown = c.shown
           /\ d.wandered = c.wandered /\ d.fetches = c.fetches
           /\ Held(c.locked, c.slots) /\ ("lock" \in do.start /\ do \notin LockedForGood
                                            => "unlock" \in words)
                => Held(d.locked, d.slots)
<1> DEFINE d == Buttons(words, c, i)
           r == c.slots[i]
           rest == [c.slots EXCEPT ![i] = Idle]
           open == c.open /\ ~(r.form /\ "close" \in words)
           locked == c.locked /\ ~(r.form /\ "unlock" \in words)
<1>1. d = [c EXCEPT !.slots = rest, !.open = open, !.locked = locked]
  BY DEF Buttons
<1>2. open \in BOOLEAN /\ locked \in BOOLEAN
  OBVIOUS
<1>3. c.slots \in [Slots -> {Idle} \cup Runs]
  BY DEF Fit, Clients
<1>4. /\ rest \in [Slots -> {Idle} \cup Runs] /\ rest[i] = Idle
      /\ \A j \in Slots : j # i => rest[j] = c.slots[j]
  BY <1>3
<1>5. r.phase # "idle" /\ r.form \in BOOLEAN
  BY DEF Runs
<1>6. /\ locked => c.locked
      /\ locked = (c.locked /\ ~(r.form /\ "unlock" \in words))
  OBVIOUS
<1> HIDE DEF rest, open, locked, d
<1>7. /\ d \in Clients /\ d.address = c.address /\ d.entity = c.entity
      /\ d.shown = c.shown /\ d.wandered = c.wandered
      /\ d.fetches = c.fetches /\ d.slots = rest /\ d.locked = locked
  BY <1>1, <1>2, <1>4 DEF Fit, Clients
<1>8. RunningIn(rest) = RunningIn(c.slots) \ {i} /\ (r.form <=> i \in RunningIn(c.slots))
  BY <1>4, <1>5, SlotsAreNumbers DEF RunningIn
<1>9. AnswersFit(d.fetches, d.slots)
  <2>1. \A f \in c.fetches : f.for # NoSlot => f.for \in Slots
    BY DEF Fit, Clients, Answers
  <2>2. QED
    BY <1>4, <1>7, <2>1 DEF Fit, AnswersFit
<1>10. ButtonsFit(c.address, locked, rest)
  <2>1. do \in AskedOnce => /\ RunningIn(rest) # {} => locked
                            /\ \A j, k \in RunningIn(rest) : j = k
    <3>1. do \in AskedOnce => /\ RunningIn(c.slots) # {} => c.locked
                              /\ \A j, k \in RunningIn(c.slots) : j = k
      BY DEF Fit, ButtonsFit
    <3> HIDE DEF r
    <3>2. QED
      BY <1>6, <1>8, <3>1
  <2>2. c.address = Away => ~locked /\ RunningIn(rest) = {}
    BY <1>6, <1>8 DEF Fit, ButtonsFit
  <2>3. locked => "lock" \in do.start
    BY <1>6 DEF Fit, ButtonsFit
  <2>4. QED
    BY <2>1, <2>2, <2>3 DEF ButtonsFit
<1>11. InPlace(d)
  <2>1. \A j \in Slots : rest[j].page => c.slots[j].page /\ rest[j] = c.slots[j]
    BY <1>4, IdleIsOne
  <2>2. QED
    BY <1>7, <2>1 DEF Fit, InPlace
<1>12. Fit(d)
  BY <1>7, <1>9, <1>10, <1>11 DEF Fit
<1>13. ASSUME Held(c.locked, c.slots),
              "lock" \in do.start /\ do \notin LockedForGood => "unlock" \in words
       PROVE  Held(d.locked, d.slots)
  <2> SUFFICES ASSUME locked, do \notin LockedForGood PROVE RunningIn(rest) # {}
    BY <1>7 DEF Held
  <2>1. "unlock" \in words
    BY <1>6, <1>13 DEF Fit, ButtonsFit
  <2>2. ~r.form /\ RunningIn(c.slots) # {}
    BY <1>6, <1>13, <2>1 DEF Held
  <2>3. QED
    BY <1>8, <2>2
<1>14. QED
  BY <1>7, <1>12, <1>13 DEF d

(* What is shown may be anything. *)
LEMMA ShownFits ==
    ASSUME NEW c, Fit(c), NEW s \in Targets, NEW v \in 0..MaxVersion
    PROVE  LET d == [c EXCEPT !.shown = [of |-> s, version |-> v]] IN
           /\ Fit(d) /\ d.address = c.address /\ d.entity = c.entity
           /\ d.wandered = c.wandered /\ d.locked = c.locked
           /\ d.slots = c.slots /\ d.fetches = c.fetches
           /\ d.shown.of = s /\ d.shown.version = v /\ d.shown # Blank
<1> DEFINE new == [of |-> s, version |-> v]
           d == [c EXCEPT !.shown = new]
<1>1. /\ new \in [of : Targets, version : 0..MaxVersion] /\ new.of = s /\ new.version = v
      /\ new # Blank
  BY TargetsAreSubjects DEF Blank
<1> HIDE DEF new
<1>2. /\ d \in Clients /\ d.address = c.address /\ d.entity = c.entity
      /\ d.wandered = c.wandered /\ d.locked = c.locked
      /\ d.slots = c.slots /\ d.fetches = c.fetches /\ d.shown = new
  BY <1>1 DEF Fit, Clients
<1> HIDE DEF d
<1>3. InPlace(d)
  BY <1>2 DEF Fit, InPlace
<1>4. Fit(d)
  BY <1>2, <1>3 DEF Fit
<1>5. QED
  BY <1>1, <1>2, <1>4 DEF d, new

(* A reload by a handler whose page may be gone. *)
LEMMA ReloadedFits ==
    ASSUME server' \in [Subjects -> 0..MaxVersion], NEW c, Fit(c),
           NEW r \in Runs, NEW for \in {NoSlot} \cup Slots,
           for # NoSlot => /\ do.waits # "no" /\ c.slots[for].phase = "reloading"
                           /\ \A f \in c.fetches : f.for # for,
           r.page => /\ c.address # Away
                     /\ KeepsItsFirst /\ ~c.wandered
                           => r.target = c.address /\ r.at = c.address
    PROVE  LET d == Reloaded(c, r, for) IN
           /\ Fit(d) /\ d.address = c.address /\ d.entity = c.entity /\ d.shown = c.shown
           /\ d.wandered = c.wandered /\ d.locked = c.locked /\ d.slots = c.slots
           /\ c.fetches \subseteq d.fetches
           /\ r.page /\ IsShown /\ ("first" \in do.is => "apart" \in do.is)
                 => \E f \in d.fetches : Awaited(d, f)
<1> DEFINE s == IF "own" \in do.is THEN r.target ELSE r.at
           part == {"own", "apart"} \cap do.is # {}
           d == Reloaded(c, r, for)
<1>1. s \in Targets /\ r.page \in BOOLEAN /\ part \in BOOLEAN
  BY DEF Runs
<1>2. "apart" \in do.is => part
  OBVIOUS
<1>3. d = Fetched(c, s, r.page, for, part)
  BY DEF Reloaded
<1>4. r.page => c.address # Away /\ (KeepsItsFirst /\ ~c.wandered => s = c.address)
  OBVIOUS
<1> HIDE DEF s, part, d
<1>5. /\ Fit(d) /\ d.address = c.address /\ d.entity = c.entity /\ d.shown = c.shown
      /\ d.wandered = c.wandered /\ d.locked = c.locked /\ d.slots = c.slots
      /\ c.fetches \subseteq d.fetches
      /\ r.page /\ IsShown => \E f \in d.fetches : f.live /\ (part => f.part)
  BY <1>1, <1>3, <1>4, FetchedFits
<1>6. ASSUME r.page, IsShown, "first" \in do.is => "apart" \in do.is
      PROVE  \E f \in d.fetches : Awaited(d, f)
  BY <1>2, <1>5, <1>6 DEF Awaited, KeepsItsFirst
<1>7. QED
  BY <1>5, <1>6 DEF d

(* What the handler of a slot sets, before it navigates. *)
LEMMA NowFits ==
    ASSUME server' \in [Subjects -> 0..MaxVersion], NEW c, Fit(c),
           NEW i \in Slots, c.slots[i] \in Runs, \A f \in c.fetches : f.for # i, NEW words
    PROVE  LET n == Now(words, c, i)
               r == c.slots[i] IN
           /\ Fit(n) /\ n.address = c.address /\ n.entity = c.entity
           /\ n.wandered = c.wandered /\ c.fetches \subseteq n.fetches
           /\ Held(c.locked, c.slots) /\ ("lock" \in do.start /\ do \notin LockedForGood
                                            => "unlock" \in words)
                => Held(n.locked, n.slots)
           /\ r.at \in Addresses
           /\ ("show" \in words => ~r.page) => n.shown = c.shown
           /\ "show" \in words /\ r.page
                 => n.shown # Blank /\ n.shown.of = r.target
                    /\ n.shown.version = server'[r.target]
           /\ "reload" \in words /\ r.page /\ IsShown /\ ("first" \in do.is => "apart" \in do.is)
                 => \E f \in n.fetches : Awaited(n, f)
<1> DEFINE r == c.slots[i]
           b == Buttons(words, c, i)
           m == More(words, c, i)
           n == Now(words, c, i)
           released == "lock" \in do.start /\ do \notin LockedForGood => "unlock" \in words
           awaits == "reload" \in words /\ r.page /\ IsShown
                        /\ ("first" \in do.is => "apart" \in do.is)
<1>1. /\ Fit(b) /\ (Held(c.locked, c.slots) /\ released => Held(b.locked, b.slots))
      /\ b.address = c.address /\ b.entity = c.entity /\ b.shown = c.shown
      /\ b.wandered = c.wandered /\ b.fetches = c.fetches
  BY ButtonsKept
<1> HIDE DEF b
<1>2. /\ r.target \in Targets /\ r.at \in Addresses /\ server'[r.target] \in 0..MaxVersion
      /\ r.page \in BOOLEAN
  <2>1. r.target \in Targets /\ r.at \in Targets /\ r.page \in BOOLEAN
    BY DEF Runs
  <2>2. QED
    BY <2>1, TargetsAreSubjects
<1>3. r.page => /\ b.address # Away
                /\ KeepsItsFirst /\ ~b.wandered => r.target = b.address /\ r.at = b.address
  BY <1>1 DEF Fit, InPlace
<1>4. /\ Fit(m) /\ m.address = c.address /\ m.entity = c.entity /\ m.shown = c.shown
      /\ m.wandered = c.wandered /\ m.locked = b.locked /\ m.slots = b.slots
      /\ c.fetches \subseteq m.fetches
      /\ awaits => \E f \in m.fetches : Awaited(m, f)
  <2>1. CASE "reload" \in words
    <3>1. m = Reloaded(b, r, NoSlot)
      BY <2>1 DEF More, b
    <3> HIDE DEF m, r
    <3>2. r \in Runs /\ NoSlot \in {NoSlot} \cup Slots
      BY DEF r
    <3>3. QED
      BY <1>1, <1>3, <3>1, <3>2, ReloadedFits
  <2>2. CASE "reload" \notin words
    BY <1>1, <2>2 DEF More, b
  <2>3. QED
    BY <2>1, <2>2
<1> HIDE DEF m, awaits
<1>5. /\ Fit(n) /\ n.address = m.address /\ n.entity = m.entity /\ n.wandered = m.wandered
      /\ n.locked = m.locked /\ n.slots = m.slots /\ n.fetches = m.fetches
      /\ ("show" \in words => ~r.page) => n.shown = m.shown
      /\ "show" \in words /\ r.page
            => n.shown # Blank /\ n.shown.of = r.target
               /\ n.shown.version = server'[r.target]
  <2>1. CASE "show" \in words /\ r.page
    <3>1. n = [m EXCEPT !.shown = [of |-> r.target, version |-> server'[r.target]]]
      BY <2>1 DEF Now, m
    <3>2. QED
      BY <1>2, <1>4, <2>1, <3>1, ShownFits
  <2>2. CASE ~("show" \in words /\ r.page)
    <3>1. n = m
      BY <2>2 DEF Now, m
    <3>2. QED
      BY <1>4, <2>2, <3>1
  <2>3. QED
    BY <2>1, <2>2
<1> HIDE DEF n
<1>6. awaits => \E f \in n.fetches : Awaited(n, f)
  BY <1>4, <1>5 DEF Awaited
<1>7. QED
  BY <1>1, <1>2, <1>4, <1>5, <1>6 DEF n, awaits

(* When the handler of a slot goes on, what was fit stays fit, and its buttons are
   released, if they have to be, or the page is left. *)
LEMMA EffectsFit ==
    ASSUME server' \in [Subjects -> 0..MaxVersion], NEW c, Fit(c),
           NEW i \in Slots, c.slots[i] \in Runs, \A f \in c.fetches : f.for # i, NEW words
    PROVE  LET e == Effects(words, c, i) IN
           /\ Fit(e)
           /\ Held(c.locked, c.slots) /\ ("lock" \in do.start /\ do \notin LockedForGood
                                            => Releases(words))
                => Held(e.locked, e.slots)
<1> DEFINE r == c.slots[i]
           n == Now(words, c, i)
           e == Effects(words, c, i)
           released == "lock" \in do.start /\ do \notin LockedForGood => "unlock" \in words
<1>1. /\ Fit(n) /\ r.at \in Addresses
      /\ Held(c.locked, c.slots) /\ released => Held(n.locked, n.slots)
  BY NowFits
<1> HIDE DEF n
<1>2. CASE "leave" \in words
  <2>1. e = Goto(n, Away) /\ Away \in Addresses
    BY <1>2, EffectsInSteps, TargetsAreSubjects DEF n
  <2>2. Fit(e) /\ Held(e.locked, e.slots)
    BY <1>1, <2>1, GotoFits
  <2>3. QED
    BY <2>2
<1>3. CASE "leave" \notin words
  <2>1. Held(c.locked, c.slots) /\ ("lock" \in do.start /\ do \notin LockedForGood
           => Releases(words)) => Held(n.locked, n.slots)
    BY <1>1, <1>3 DEF Releases
  <2>2. CASE "stay" \in words
    <3>1. e = Goto(n, r.at)
      BY <1>3, <2>2, EffectsInSteps DEF n
    <3>2. Fit(e) /\ (Held(n.locked, n.slots) => Held(e.locked, e.slots))
      BY <1>1, <3>1, GotoFits
    <3>3. QED
      BY <2>1, <3>2
  <2>3. CASE "stay" \notin words
    <3>1. e = n
      BY <1>3, <2>3, EffectsInSteps DEF n
    <3>2. QED
      BY <1>1, <2>1, <3>1
  <2>4. QED
    BY <2>2, <2>3
<1>4. QED
  BY <1>2, <1>3

(* Its page has been told of the user's changes if it leaves, reloads what its state
   will take or shows the change, or if it had been told before. *)
LEMMA EffectsTold ==
    ASSUME server' \in [Subjects -> 0..MaxVersion], NEW c, Fit(c),
           NEW i \in Slots, c.slots[i] \in Runs, \A f \in c.fetches : f.for # i, NEW words,
           NEW d, NEW late,
           \/ "leave" \in words \/ ~IsShown \/ late
           \/ /\ "reload" \in words /\ c.slots[i].page
              /\ "first" \in do.is => "apart" \in do.is
           \/ /\ "show" \in words /\ c.slots[i].page
              /\ c.slots[i].target = c.address \/ c.wandered
              /\ d[c.slots[i].target] =< server'[c.slots[i].target]
           \/ Told(c, d, late) /\ ("show" \in words => ~c.slots[i].page)
    PROVE  Told(Effects(words, c, i), d, late)
<1> DEFINE r == c.slots[i]
           n == Now(words, c, i)
           e == Effects(words, c, i)
           awaits == /\ "reload" \in words /\ r.page /\ IsShown
                     /\ "first" \in do.is => "apart" \in do.is
<1>1. /\ Fit(n) /\ r.at \in Addresses /\ n.address = c.address /\ n.entity = c.entity
      /\ n.wandered = c.wandered /\ c.fetches \subseteq n.fetches
      /\ ("show" \in words => ~r.page) => n.shown = c.shown
      /\ "show" \in words /\ r.page
            => n.shown # Blank /\ n.shown.of = r.target
               /\ n.shown.version = server'[r.target]
      /\ awaits => \E f \in n.fetches : Awaited(n, f)
  BY NowFits
<1> HIDE DEF n
<1>2. CASE ~IsShown \/ late
  BY <1>2 DEF Told
<1>3. CASE "leave" \in words
  <2>1. e = Goto(n, Away) /\ Away \in Addresses
    BY <1>3, EffectsInSteps, TargetsAreSubjects DEF n
  <2>2. e.address = Away
    BY <1>1, <2>1, GotoFits
  <2>3. QED
    BY <2>2 DEF Told
<1>4. CASE IsShown /\ ~late /\ "leave" \notin words
  <2>1. Told(n, d, late)
    <3>1. CASE awaits
      BY <1>1, <3>1 DEF Told
    <3>2. CASE /\ "show" \in words /\ r.page /\ (r.target = c.address \/ c.wandered)
               /\ d[r.target] =< server'[r.target]
      <4>1. r.target \in Subjects
        BY TargetsAreSubjects DEF Runs
      <4>2. n.shown # Blank /\ n.shown.of = r.target /\ n.shown.version = server'[r.target]
        BY <1>1, <3>2
      <4>3. n.shown.version >= d[n.shown.of]
        BY <3>2, <4>1, <4>2
      <4>4. QED
        BY <1>1, <3>2, <4>2, <4>3 DEF Told
    <3>3. CASE Told(c, d, late) /\ ("show" \in words => ~r.page)
      BY <1>1, <3>3 DEF Told, Awaited
    <3>4. QED
      BY <1>4, <3>1, <3>2, <3>3
  <2>2. CASE "stay" \in words
    <3>1. e = Goto(n, r.at)
      BY <1>4, <2>2, EffectsInSteps DEF n
    <3>2. QED
      BY <1>1, <2>1, <3>1, GotoFits
  <2>3. CASE "stay" \notin words
    <3>1. e = n
      BY <1>4, <2>3, EffectsInSteps DEF n
    <3>2. QED
      BY <2>1, <3>1
  <2>4. QED
    BY <2>2, <2>3
<1>5. QED
  BY <1>2, <1>3, <1>4

(* A live answer that has been received is taken, or kept out, or makes its page ask
   for a part of what it is about; its page is told but for those that come late. *)
LEMMA GivenFits ==
    ASSUME server' \in [Subjects -> 0..MaxVersion], NEW b, Fit(b), NEW f \in Answers,
           b.address # Away, KeepsItsFirst /\ ~b.wandered => f.of = b.address,
           NEW v \in 0..MaxVersion, NEW d, NEW m,
           \A s \in Subjects : d[s] \in Nat,
           KeepsItsFirst /\ ~f.part /\ b.entity # Away => Told(b, d, m),
           NEW late,
           late <=> IF Takes(b, f) THEN ~(f.of = b.address /\ v >= d[f.of])
                    ELSE m \/ (Clears(f) /\ ~FetchesPart(b, f))
    PROVE  LET c == Given(b, f, v) IN
           /\ Fit(c) /\ c.address = b.address /\ c.locked = b.locked /\ c.slots = b.slots
           /\ \A g \in c.fetches : g \in b.fetches \/ g.for = NoSlot
           /\ Told(c, d, late)
<1> DEFINE entity == IF f.part THEN b.entity ELSE f.of
           new == [of |-> f.of, version |-> v]
           shown == IF Takes(b, f) THEN new ELSE IF Clears(f) THEN Blank ELSE b.shown
           e == [b EXCEPT !.entity = entity, !.shown = shown]
           s == IF KeepsItsFirst THEN b.address ELSE f.of
           c == Given(b, f, v)
<1>1. c = IF FetchesPart(b, f) THEN Fetched(e, s, TRUE, NoSlot, TRUE) ELSE e
  BY DEF Given
<1>2. /\ f.of \in Targets /\ f.of # Away /\ f.part \in BOOLEAN /\ b.address \in Targets
      /\ s \in Targets /\ entity \in Addresses
      /\ new \in [of : Targets, version : 0..MaxVersion] /\ new.of = f.of /\ new.version = v
      /\ new # Blank
  BY TargetsAreSubjects DEF Fit, Clients, Answers, Blank
<1>3. shown \in {Blank} \cup [of : Targets, version : 0..MaxVersion]
  BY <1>2 DEF Fit, Clients
<1>4. (Takes(b, f) => shown = new) /\ (~Takes(b, f) /\ ~Clears(f) => shown = b.shown)
  OBVIOUS
<1>5. (f.part => entity = b.entity) /\ (~f.part => entity = f.of)
  OBVIOUS
<1>6. KeepsItsFirst => s = b.address
  OBVIOUS
<1> HIDE DEF entity, new, shown, s, c
<1>7. /\ e \in Clients /\ e.address = b.address /\ e.entity = entity /\ e.shown = shown
      /\ e.wandered = b.wandered /\ e.locked = b.locked
      /\ e.slots = b.slots /\ e.fetches = b.fetches
  BY <1>2, <1>3 DEF Fit, Clients
<1> HIDE DEF e
<1>8. Fit(e)
  <2>1. InPlace(e)
    BY <1>2, <1>5, <1>7 DEF Fit, InPlace
  <2>2. QED
    BY <1>7, <2>1 DEF Fit
<1>9. ASSUME FetchesPart(b, f)
      PROVE  /\ Fit(c) /\ c.address = b.address /\ c.locked = b.locked /\ c.slots = b.slots
             /\ \A g \in c.fetches : g \in b.fetches \/ g.for = NoSlot
             /\ IsShown => \E g \in c.fetches : Awaited(c, g)
  <2>1. c = Fetched(e, s, TRUE, NoSlot, TRUE)
    BY <1>1, <1>9
  <2>2. \A g \in c.fetches : g \in b.fetches \/ g.for = NoSlot
    <3>1. CASE IsShown
      <4> DEFINE part == [of |-> s, seen |-> IF TRUE THEN server'[s] ELSE 0, live |-> TRUE,
                          for |-> NoSlot, part |-> TRUE]
      <4>1. c = [e EXCEPT !.fetches = e.fetches \cup {part}] /\ part.for = NoSlot
        BY <2>1, <3>1 DEF Fetched
      <4> HIDE DEF part
      <4>2. c.fetches = e.fetches \cup {part}
        BY <1>7, <4>1 DEF Clients
      <4>3. QED
        BY <1>7, <4>1, <4>2
    <3>2. CASE ~IsShown
      BY <1>7, <2>1, <3>2 DEF Fetched
    <3>3. QED
      BY <3>1, <3>2
  <2>3. TRUE \in BOOLEAN /\ NoSlot \in {NoSlot} \cup Slots
    OBVIOUS
  <2>4. /\ Fit(c) /\ c.address = e.address /\ c.locked = e.locked /\ c.slots = e.slots
        /\ IsShown => \E g \in c.fetches : g.live /\ g.part
    <3> DEFINE g == Fetched(e, s, TRUE, NoSlot, TRUE)
    <3>1. /\ s \in Targets
          /\ TRUE => e.address # Away /\ (KeepsItsFirst /\ ~e.wandered => s = e.address)
          /\ NoSlot # NoSlot => /\ do.waits # "no" /\ e.slots[NoSlot].phase = "reloading"
                               /\ \A h \in e.fetches : h.for # NoSlot
      BY <1>2, <1>6, <1>7
    <3>2. Fit(g) /\ g.address = e.address /\ g.locked = e.locked /\ g.slots = e.slots
      BY <1>8, <2>3, <3>1, FetchedFits, Zenon
    <3>3. IsShown => \E h \in g.fetches : h.live /\ (TRUE => h.part)
      BY <1>8, <2>3, <3>1, FetchedFits, Zenon
    <3>4. QED
      BY <2>1, <3>2, <3>3
  <2>5. IsShown => \E g \in c.fetches : Awaited(c, g)
    BY <2>4 DEF Awaited
  <2>6. QED
    BY <1>7, <2>2, <2>4, <2>5
<1>10. CASE FetchesPart(b, f)
  BY <1>9, <1>10 DEF Told, c
<1>11. CASE ~FetchesPart(b, f)
  <2>1. c = e
    BY <1>1, <1>11
  <2>2. Told(e, d, late)
    <3>1. CASE Takes(b, f)
      <4>1. late <=> ~(f.of = b.address /\ v >= d[f.of])
        BY <3>1
      <4>2. QED
        BY <1>2, <1>4, <1>7, <3>1, <4>1 DEF Told
    <3>2. CASE ~Takes(b, f) /\ Clears(f)
      BY <1>11, <3>2 DEF Told
    <3>3. CASE ~Takes(b, f) /\ ~Clears(f)
      <4>1. KeepsItsFirst /\ ~f.part /\ b.entity # Away
        BY <1>11, <3>3 DEF Takes, Clears, FetchesPart
      <4>2. Told(b, d, m) /\ (late <=> m)
        BY <3>3, <4>1
      <4>3. \A g : Awaited(b, g) => Awaited(e, g)
        BY <1>2, <1>5, <1>7, <4>1 DEF Awaited
      <4>4. QED
        BY <1>4, <1>7, <3>3, <4>2, <4>3 DEF Told
    <3>4. QED
      BY <3>1, <3>2, <3>3
  <2>3. QED
    BY <1>7, <1>8, <2>1, <2>2 DEF c
<1>12. QED
  BY <1>10, <1>11

-------------------------------------------------------------------------------
(* The first page waits for its first fetch. *)
LEMMA PageInitially == Init => PageInv
<1> SUFFICES ASSUME Init PROVE PageInv
  OBVIOUS
<1> DEFINE new == [of |-> Home, seen |-> 0, live |-> TRUE, for |-> NoSlot, part |-> FALSE]
           first == IF ~IsShown THEN {} ELSE {new}
<1>1. 0 \in 0..MaxVersion
  BY PageAssumption
<1>2. /\ focus \in Focus /\ missed = FALSE
      /\ server = [s \in Subjects |-> 0] /\ due = [s \in Subjects |-> 0]
  BY DEF Init
<1>3. new \in Answers /\ new.for = NoSlot /\ new.live /\ new.of = Home
  BY <1>1, TargetsAreSubjects DEF Answers
<1>4. /\ client.address = Home /\ client.entity = Away /\ client.shown = Blank
      /\ client.wandered = FALSE /\ client.locked = FALSE
      /\ client.fetches = first /\ client.slots = [i \in Slots |-> Idle]
      /\ client.open = FALSE
      /\ client = [address |-> client.address, entity |-> client.entity,
                   shown |-> client.shown, wandered |-> client.wandered,
                   open |-> client.open, locked |-> client.locked,
                   fetches |-> client.fetches, slots |-> client.slots]
  BY DEF Init
<1> HIDE DEF new
<1>5. /\ first \in SUBSET Answers /\ \A f \in first : f.for = NoSlot /\ f.of = Home
      /\ IsShown => \E f \in first : f.live
  BY <1>3
<1> HIDE DEF first
<1>6. client \in Clients
  BY <1>4, <1>5, TargetsAreSubjects DEF Clients
<1>7. RunningIn(client.slots) = {}
  BY <1>4, SlotsAreNumbers DEF RunningIn
<1>8. InPlace(client)
  BY <1>4, <1>5, IdleIsOne, TargetsAreSubjects DEF InPlace
<1>9. Fit(client) /\ Held(client.locked, client.slots)
  BY <1>4, <1>5, <1>6, <1>7, <1>8 DEF Fit, AnswersFit, ButtonsFit, Held
<1>10. Told(client, due, missed)
  BY <1>4, <1>5 DEF Told, Awaited
<1>11. /\ server \in [Subjects -> 0..MaxVersion] /\ due \in [Subjects -> 0..MaxVersion]
       /\ \A s \in Subjects : due[s] =< server[s]
  BY <1>1, <1>2
<1>12. QED
  BY <1>2, <1>9, <1>10, <1>11 DEF PageInv

(* The handler and its page do not change, so that what is fit is fit after a step. *)
LEMMA PageKept ==
    ASSUME PageInv, focus' = focus,
           server' \in [Subjects -> 0..MaxVersion], due' \in [Subjects -> 0..MaxVersion],
           \A s \in Subjects : due'[s] =< server'[s], missed' \in BOOLEAN,
           Fit(client'), Held(client'.locked, client'.slots), Told(client', due', missed')
    PROVE  PageInv'
<1>1. focus' \in Focus
  BY DEF PageInv
<1>2. Fit(client)'
  <2>1. client' \in Clients'
    BY DEF Fit, Clients, Answers, Runs, Targets, Addresses, Home
  <2>2. AnswersFit(client.fetches, client.slots)'
    BY DEF Fit, AnswersFit, do
  <2>3. ButtonsFit(client.address, client.locked, client.slots)'
    BY DEF Fit, ButtonsFit, RunningIn, do
  <2>4. InPlace(client)'
    BY DEF Fit, InPlace, KeepsItsFirst, do
  <2>5. QED
    BY <2>1, <2>2, <2>3, <2>4 DEF Fit
<1>3. Held(client.locked, client.slots)'
  BY DEF Held, RunningIn, do
<1>4. Told(client, due, missed)'
  BY DEF Told, Awaited, KeepsItsFirst, IsShown, do
<1>5. QED
  BY <1>1, <1>2, <1>3, <1>4 DEF PageInv

(* The user goes elsewhere. *)
LEMMA GoStep ==
    ASSUME PageInv, NEW s \in Addresses, Go(s)
    PROVE  PageInv'
<1>1. /\ focus' = focus /\ server' = server /\ due' = due /\ missed' = missed
      /\ client' = Goto(client, s)
  BY DEF Go
<1>2. Fit(Goto(client, s)) /\ Held(Goto(client, s).locked, Goto(client, s).slots)
  BY <1>1, GotoFits DEF PageInv
<1>3. Told(Goto(client, s), due, missed)
  BY <1>1, GotoFits DEF PageInv
<1>4. QED
  BY <1>1, <1>2, <1>3, PageKept DEF PageInv

(* The modal is opened and closed. *)
LEMMA ModalStep ==
    ASSUME PageInv, OpenModal \/ CloseModal
    PROVE  PageInv'
<1>1. /\ focus' = focus /\ server' = server /\ due' = due /\ missed' = missed
      /\ \E open \in BOOLEAN : client' = [client EXCEPT !.open = open]
  BY DEF OpenModal, CloseModal
<1>2. PICK open \in BOOLEAN : client' = [client EXCEPT !.open = open]
  BY <1>1
<1>3. /\ client' \in Clients /\ client'.address = client.address
      /\ client'.entity = client.entity /\ client'.wandered = client.wandered
      /\ client'.shown = client.shown /\ client'.locked = client.locked
      /\ client'.slots = client.slots /\ client'.fetches = client.fetches
  BY <1>2 DEF PageInv, Fit, Clients
<1>4. /\ Fit(client') /\ Held(client'.locked, client'.slots)
      /\ Told(client', due', missed')
  BY <1>1, <1>3 DEF PageInv, Fit, InPlace, Told, Awaited
<1>5. QED
  BY <1>1, <1>4, PageKept DEF PageInv

(* The handler asks: its buttons were free, and are not if it disables them. *)
LEMMA ConfirmStep ==
    ASSUME PageInv, NEW i \in Slots, Confirm(i)
    PROVE  PageInv'
<1> DEFINE r == [phase |-> "sent", form |-> TRUE, page |-> TRUE,
                 target |-> IF IsShown THEN client.entity ELSE client.address,
                 at |-> client.address]
           rest == [client.slots EXCEPT ![i] = r]
           locked == "lock" \in do.start
           open == client.open /\ "close" \notin do.start
<1>1. /\ focus' = focus /\ server' = server /\ due' = due /\ missed' = missed
      /\ client.slots[i] = Idle /\ Offered /\ ~client.locked
  BY DEF Confirm
<1>2. client' = [client EXCEPT !.slots = rest, !.locked = locked, !.open = open]
  BY Zenon DEF Confirm
<1>3. client.address \in Targets /\ (IsShown => client.entity \in Targets)
  BY <1>1, TargetsAreSubjects DEF Offered, PageInv, Fit, Clients
<1>4. /\ r \in Runs /\ r.phase = "sent" /\ r.form
      /\ KeepsItsFirst /\ ~client.wandered
            => r.target = client.address /\ r.at = client.address
  <2>1. KeepsItsFirst /\ ~client.wandered /\ IsShown => client.entity = client.address
    BY <1>3, TargetsAreSubjects DEF PageInv, Fit, InPlace
  <2>2. QED
    BY <1>3, <2>1 DEF Runs
<1> HIDE DEF r
<1>5. /\ rest \in [Slots -> {Idle} \cup Runs] /\ rest[i] = r
      /\ \A j \in Slots : j # i => rest[j] = client.slots[j]
  BY <1>4 DEF PageInv, Fit, Clients
<1>6. locked \in BOOLEAN /\ open \in BOOLEAN
  OBVIOUS
<1>7. i \in RunningIn(rest) /\ RunningIn(rest) \subseteq RunningIn(client.slots) \cup {i}
  BY <1>4, <1>5 DEF RunningIn
<1>8. do \in AskedOnce => locked /\ RunningIn(client.slots) = {}
  BY <1>1, AskedOnceLocks DEF PageInv, Fit, ButtonsFit
<1> HIDE DEF rest, open
<1>9. /\ client' \in Clients /\ client'.address = client.address
      /\ client'.entity = client.entity /\ client'.wandered = client.wandered
      /\ client'.shown = client.shown /\ client'.locked = locked
      /\ client'.slots = rest /\ client'.fetches = client.fetches
  BY <1>2, <1>5, <1>6 DEF PageInv, Fit, Clients
<1>10. AnswersFit(client.fetches, rest)
  <2>1. \A f \in client.fetches : f.for # NoSlot => f.for \in Slots /\ f.for # i
    <3>1. \A f \in client.fetches : f.for # NoSlot => f.for \in Slots
      BY DEF PageInv, Fit, Clients, Answers
    <3>2. QED
      BY <1>1, <3>1, SlotsAreNumbers DEF PageInv, Fit, AnswersFit
  <2>2. QED
    BY <1>5, <2>1 DEF PageInv, Fit, AnswersFit
<1>11. ButtonsFit(client.address, locked, rest)
  <2>1. client.address # Away
    BY <1>3, TargetsAreSubjects
  <2>2. QED
    BY <1>7, <1>8, <2>1 DEF ButtonsFit
<1>12. InPlace(client')
  <2>1. client.address # Away
    BY <1>3, TargetsAreSubjects
  <2>2. QED
    BY <1>4, <1>5, <1>9, <2>1 DEF PageInv, Fit, InPlace
<1>13. Fit(client') /\ Held(client'.locked, client'.slots)
  BY <1>7, <1>9, <1>10, <1>11, <1>12 DEF Fit, Held
<1>14. Told(client', due', missed')
  BY <1>1, <1>9 DEF PageInv, Told, Awaited
<1>15. QED
  BY <1>1, <1>13, <1>14, PageKept DEF PageInv

(* A handler that has asked has a slot of its own, and no fetch yet. *)
LEMMA SentRuns ==
    ASSUME PageInv, NEW i \in Slots, client.slots[i].phase = "sent"
    PROVE  /\ client.slots[i] \in Runs /\ client.slots[i].target \in Subjects
           /\ \A f \in client.fetches : f.for # i
<1>1. client.slots[i] \in Runs
  BY SlotsAreNumbers DEF PageInv, Fit, Clients
<1>2. client.slots[i].target \in Subjects
  BY <1>1, TargetsAreSubjects DEF Runs
<1>3. \A f \in client.fetches : f.for # i
  BY SlotsAreNumbers DEF PageInv, Fit, AnswersFit
<1>4. QED
  BY <1>1, <1>2, <1>3

(* The server does what it was asked for. *)
LEMMA ServerMoves ==
    ASSUME PageInv, NEW s \in Subjects, server[s] < MaxVersion,
           server' = [server EXCEPT ![s] = @ + 1]
    PROVE  /\ server' \in [Subjects -> 0..MaxVersion] /\ server'[s] = server[s] + 1
           /\ \A t \in Subjects : due[t] =< server'[t]
           /\ LET d == [due EXCEPT ![s] = server[s] + 1] IN
              /\ d \in [Subjects -> 0..MaxVersion] /\ d[s] = server'[s]
              /\ \A t \in Subjects : d[t] =< server'[t]
<1>1. /\ \A t \in Subjects : server[t] \in 0..MaxVersion /\ due[t] \in 0..MaxVersion
      /\ \A t \in Subjects : due[t] =< server[t]
      /\ MaxVersion \in Nat
  BY PageAssumption DEF PageInv
<1>2. server[s] + 1 \in 0..MaxVersion
  BY <1>1
<1>3. /\ server' \in [Subjects -> 0..MaxVersion] /\ server'[s] = server[s] + 1
      /\ \A t \in Subjects : t # s => server'[t] = server[t]
  BY <1>2 DEF PageInv
<1> DEFINE d == [due EXCEPT ![s] = server[s] + 1]
<1>4. /\ d \in [Subjects -> 0..MaxVersion] /\ d[s] = server[s] + 1
      /\ \A t \in Subjects : t # s => d[t] = due[t]
  BY <1>2 DEF PageInv
<1> HIDE DEF d
<1>5. \A t \in Subjects : due[t] =< server'[t] /\ d[t] =< server'[t]
  BY <1>1, <1>3, <1>4
<1>6. QED
  BY <1>3, <1>4, <1>5 DEF d

(* The good answer: the page reloads, shows the change or is left. *)
LEMMA SucceedStep ==
    ASSUME PageInv, NEW i \in Slots, Succeed(i)
    PROVE  PageInv'
<1> DEFINE r == client.slots[i]
           s == r.target
           c == [client EXCEPT !.slots[i].phase = "reloading"]
<1>1. /\ r \in Runs /\ s \in Subjects /\ \A f \in client.fetches : f.for # i
      /\ r.phase = "sent"
  BY SentRuns DEF Succeed
<1>2. /\ server[s] < MaxVersion /\ server' = [server EXCEPT ![s] = @ + 1] /\ focus' = focus
      /\ due' = IF r.page THEN [due EXCEPT ![s] = server[s] + 1] ELSE due
      /\ missed' = missed
      /\ client' = IF do.waits = "no" THEN Effects(do.ok, client, i) ELSE Reloaded(c, r, i)
  BY DEF Succeed
<1>3. /\ server' \in [Subjects -> 0..MaxVersion] /\ due' \in [Subjects -> 0..MaxVersion]
      /\ \A t \in Subjects : due'[t] =< server'[t]
  <2>1. CASE r.page
    BY <1>1, <1>2, <2>1, ServerMoves
  <2>2. CASE ~r.page
    BY <1>1, <1>2, <2>2, ServerMoves DEF PageInv
  <2>3. QED
    BY <2>1, <2>2
<1>4. missed' \in BOOLEAN
  BY <1>2 DEF PageInv
<1>5. HandlerSound(do)
  BY EntriesSound DEF PageInv
<1>6. Fit(client) /\ Held(client.locked, client.slots) /\ Told(client, due, missed)
  BY DEF PageInv
<1>7. ASSUME ~r.page PROVE Told(client, due', missed')
  BY <1>2, <1>6, <1>7
<1>8. /\ r \in Runs /\ r.page \in BOOLEAN
      /\ r.page => due'[s] =< server'[s]
      /\ r.page => /\ client.address # Away
                   /\ KeepsItsFirst /\ ~client.wandered
                         => s = client.address /\ r.at = client.address
  BY <1>1, <1>3, <1>6 DEF Runs, Fit, InPlace
<1> HIDE DEF r, c
<1>9. CASE do.waits = "no"
  <2>1. client' = Effects(do.ok, client, i)
    BY <1>2, <1>9
  <2>2. /\ Fit(client') /\ Held(client'.locked, client'.slots)
    BY <1>1, <1>3, <1>5, <1>6, <2>1, EffectsFit DEF HandlerSound, r
  <2>3. \/ "leave" \in do.ok \/ ~IsShown \/ missed'
        \/ "reload" \in do.ok /\ r.page /\ ("first" \in do.is => "apart" \in do.is)
        \/ /\ "show" \in do.ok /\ r.page /\ (s = client.address \/ client.wandered)
           /\ due'[s] =< server'[s]
        \/ Told(client, due', missed') /\ ("show" \in do.ok => ~r.page)
    BY <1>5, <1>7, <1>8, <1>9 DEF HandlerSound, IsShown, KeepsItsFirst
  <2>4. Told(client', due', missed')
    BY <1>1, <1>3, <1>6, <2>1, <2>3, EffectsTold DEF r
  <2>5. QED
    BY <1>2, <1>3, <1>4, <2>2, <2>4, PageKept
<1>10. CASE do.waits # "no"
  <2> DEFINE q == [r EXCEPT !.phase = "reloading"]
             rest == [client.slots EXCEPT ![i] = q]
  <2>1. c = [client EXCEPT !.slots = rest]
    BY DEF c, r
  <2>2. /\ q \in Runs /\ q.phase = "reloading" /\ q.form = r.form /\ q.page = r.page
        /\ q.target = r.target /\ q.at = r.at
    BY <1>1 DEF Runs
  <2> HIDE DEF q
  <2>3. /\ rest \in [Slots -> {Idle} \cup Runs] /\ rest[i] = q
        /\ \A j \in Slots : j # i => rest[j] = client.slots[j]
    BY <1>6, <2>2 DEF Fit, Clients
  <2> HIDE DEF rest
  <2>4. /\ c \in Clients /\ c.address = client.address /\ c.shown = client.shown
        /\ c.entity = client.entity /\ c.wandered = client.wandered
        /\ c.locked = client.locked /\ c.slots = rest /\ c.fetches = client.fetches
    BY <1>6, <2>1, <2>3 DEF Fit, Clients
  <2>5. RunningIn(rest) = RunningIn(client.slots)
    BY <1>1, <2>2, <2>3 DEF RunningIn, r
  <2>6. AnswersFit(client.fetches, rest)
    <3>1. \A f \in client.fetches : f.for # NoSlot => f.for \in Slots /\ f.for # i
      BY <1>1, <1>6 DEF Fit, Clients, Answers
    <3>2. QED
      BY <1>6, <2>3, <3>1 DEF Fit, AnswersFit
  <2>7. InPlace(c)
    <3>1. \A j \in Slots : /\ rest[j].page = client.slots[j].page
                           /\ rest[j].target = client.slots[j].target
                           /\ rest[j].at = client.slots[j].at
      BY <2>2, <2>3 DEF r
    <3>2. QED
      BY <1>6, <2>4, <3>1 DEF Fit, InPlace
  <2>8. Fit(c) /\ Held(c.locked, c.slots) /\ (~r.page => Told(c, due', missed'))
    BY <1>6, <1>7, <2>4, <2>5, <2>6, <2>7 DEF Fit, ButtonsFit, Held, Told, Awaited
  <2>9. client' = Reloaded(c, r, i)
    BY <1>2, <1>10
  <2>10. c.slots[i].phase = "reloading" /\ \A f \in c.fetches : f.for # i
    BY <1>1, <2>2, <2>3, <2>4
  <2>11. r.page => /\ c.address # Away
                   /\ KeepsItsFirst /\ ~c.wandered
                         => r.target = c.address /\ r.at = c.address
    BY <1>8, <2>4
  <2>12. /\ Fit(client') /\ client'.address = c.address /\ client'.entity = c.entity
         /\ client'.shown = c.shown /\ client'.wandered = c.wandered
         /\ client'.locked = c.locked /\ client'.slots = c.slots
         /\ c.fetches \subseteq client'.fetches
         /\ r.page /\ IsShown /\ ("first" \in do.is => "apart" \in do.is)
               => \E f \in client'.fetches : Awaited(client', f)
    BY <1>3, <1>8, <1>10, <2>8, <2>9, <2>10, <2>11, ReloadedFits
  <2>13. "first" \in do.is => "apart" \in do.is
    BY <1>5, <1>10 DEF HandlerSound
  <2>14. Held(client'.locked, client'.slots)
    BY <2>8, <2>12
  <2>15. Told(client', due', missed')
    BY <1>8, <2>8, <2>12, <2>13 DEF Told, Awaited
  <2>16. QED
    BY <1>2, <1>3, <1>4, <2>12, <2>14, <2>15, PageKept
<1>11. QED
  BY <1>9, <1>10

(* The bad answer: no handler shows a change then. *)
LEMMA FailStep ==
    ASSUME PageInv, NEW i \in Slots, Fail(i)
    PROVE  PageInv'
<1> DEFINE s == client.slots[i].target
<1>1. /\ client.slots[i] \in Runs /\ s \in Subjects /\ \A f \in client.fetches : f.for # i
  BY SentRuns DEF Fail
<1>2. /\ \/ server' = server
         \/ server[s] < MaxVersion /\ server' = [server EXCEPT ![s] = @ + 1]
      /\ focus' = focus /\ due' = due /\ missed' = missed
      /\ client' = Effects(do.fails, client, i)
  BY DEF Fail
<1>3. /\ server' \in [Subjects -> 0..MaxVersion] /\ \A t \in Subjects : due'[t] =< server'[t]
  <2>1. CASE server' = server
    BY <1>2, <2>1 DEF PageInv
  <2>2. CASE server[s] < MaxVersion /\ server' = [server EXCEPT ![s] = @ + 1]
    BY <1>1, <1>2, <2>2, ServerMoves
  <2>3. QED
    BY <1>2, <2>1, <2>2
<1>4. HandlerSound(do)
  BY EntriesSound DEF PageInv
<1>5. Fit(client) /\ Held(client.locked, client.slots) /\ Told(client, due', missed')
  BY <1>2 DEF PageInv
<1>6. Fit(client') /\ Held(client'.locked, client'.slots)
  BY <1>1, <1>2, <1>3, <1>4, <1>5, EffectsFit DEF HandlerSound
<1>7. "show" \notin do.fails
  BY <1>4 DEF HandlerSound
<1>8. Told(client', due', missed')
  BY <1>1, <1>2, <1>3, <1>5, <1>7, EffectsTold
<1>9. QED
  BY <1>2, <1>3, <1>6, <1>8, PageKept DEF PageInv

(* A fetch is over. *)
LEMMA ReceivedFits ==
    ASSUME PageInv, NEW f \in client.fetches
    PROVE  LET c == Received(f) IN
           /\ f \in Answers
           /\ Fit(c) /\ c.address = client.address /\ c.entity = client.entity
           /\ c.wandered = client.wandered
           /\ c.locked = client.locked /\ c.slots = client.slots
           /\ c.fetches = client.fetches \ {f}
           /\ Held(c.locked, c.slots)
           /\ ~Awaited(client, f) => Told(c, due, missed)
           /\ f.live => /\ c.address # Away
                        /\ KeepsItsFirst /\ ~c.wandered => f.of = c.address
           /\ f.for # NoSlot => /\ f.for \in Slots /\ c.slots[f.for] \in Runs
                                /\ do.waits # "no" /\ \A g \in c.fetches : g.for # f.for
<1> DEFINE c == Received(f)
           others == client.fetches \ {f}
<1>1. f \in Answers /\ Fit(client) /\ Held(client.locked, client.slots)
  BY DEF PageInv, Fit, Clients
<1>2. c = [client EXCEPT !.fetches = others]
  BY DEF Received
<1> HIDE DEF c
<1>3. /\ c \in Clients /\ c.address = client.address /\ c.shown = client.shown
      /\ c.entity = client.entity /\ c.wandered = client.wandered
      /\ c.locked = client.locked /\ c.slots = client.slots /\ c.fetches = others
  BY <1>1, <1>2 DEF Fit, Clients
<1>4. Fit(c)
  BY <1>1, <1>3 DEF Fit, AnswersFit, InPlace
<1>5. /\ ~Awaited(client, f) => Told(c, due, missed)
      /\ f.live => /\ c.address # Away
                   /\ KeepsItsFirst /\ ~c.wandered => f.of = c.address
  BY <1>1, <1>3 DEF PageInv, Told, Awaited, Fit, InPlace
<1>6. ASSUME f.for # NoSlot
      PROVE  /\ f.for \in Slots /\ c.slots[f.for] \in Runs
             /\ do.waits # "no" /\ \A g \in c.fetches : g.for # f.for
  <2>1. f.for \in Slots /\ do.waits # "no" /\ c.slots[f.for].phase = "reloading"
    BY <1>1, <1>3, <1>6 DEF Fit, AnswersFit, Answers
  <2>2. c.slots[f.for] \in Runs
    BY <1>4, <2>1, SlotsAreNumbers DEF Fit, Clients
  <2>3. \A g \in c.fetches : g.for # f.for
    BY <1>1, <1>3, <1>6 DEF Fit, AnswersFit
  <2>4. QED
    BY <2>1, <2>2, <2>3
<1>7. QED
  BY <1>1, <1>3, <1>4, <1>5, <1>6 DEF c

(* A fetch is answered: the page is told, asks for the part that it shows, or the
   answer was late. *)
LEMMA ArriveStep ==
    ASSUME PageInv, NEW f \in client.fetches, Arrive(f)
    PROVE  PageInv'
<1> DEFINE b == Received(f)
           c(v) == IF f.live THEN Given(b, f, v) ELSE b
           late(v) == IF Takes(b, f) THEN ~(f.of = b.address /\ v >= due[f.of])
                      ELSE missed \/ (Clears(f) /\ ~FetchesPart(b, f))
<1>1. /\ focus' = focus /\ server' = server /\ due' = due
      /\ server' \in [Subjects -> 0..MaxVersion] /\ missed \in BOOLEAN
      /\ \A s \in Subjects : due[s] \in Nat
  BY PageAssumption DEF Arrive, PageInv
<1>2. /\ f \in Answers /\ Fit(b) /\ b.address = client.address /\ b.entity = client.entity
      /\ Held(b.locked, b.slots) /\ (~Awaited(client, f) => Told(b, due, missed))
      /\ f.live => b.address # Away /\ (KeepsItsFirst /\ ~b.wandered => f.of = b.address)
      /\ f.for # NoSlot => /\ f.for \in Slots /\ b.slots[f.for] \in Runs
                           /\ do.waits # "no" /\ \A g \in b.fetches : g.for # f.for
  BY ReceivedFits
<1>3. PICK v \in IF f.live THEN f.seen..server[f.of] ELSE {0} :
         /\ client' = IF f.for = NoSlot THEN c(v) ELSE Effects(do.ok \ {"reload"}, c(v), f.for)
         /\ missed' = IF f.live THEN late(v) ELSE missed
  <2>1. /\ Takes(client, f) <=> Takes(b, f)
        /\ FetchesPart(client, f) <=> FetchesPart(b, f)
    BY <1>2 DEF Takes, FetchesPart
  <2> HIDE DEF b
  <2>2. QED
    BY <1>2, <2>1 DEF Arrive, b
<1> HIDE DEF b
<1>4. v \in 0..MaxVersion
  <2>1. f.of \in Subjects /\ f.seen \in 0..MaxVersion
    BY <1>2, TargetsAreSubjects DEF Answers
  <2>2. server[f.of] \in 0..MaxVersion
    BY <2>1 DEF PageInv
  <2>3. QED
    BY <1>3, <2>1, <2>2, PageAssumption
<1>5. /\ Fit(c(v)) /\ c(v).locked = b.locked /\ c(v).slots = b.slots
      /\ \A g \in c(v).fetches : g \in b.fetches \/ g.for = NoSlot
      /\ Told(c(v), due', missed') /\ missed' \in BOOLEAN
  <2>1. CASE f.live
    <3>1. KeepsItsFirst /\ ~f.part /\ b.entity # Away => Told(b, due, missed)
      BY <1>2 DEF Awaited
    <3>2. /\ missed' <=> IF Takes(b, f) THEN ~(f.of = b.address /\ v >= due[f.of])
                         ELSE missed \/ (Clears(f) /\ ~FetchesPart(b, f))
          /\ missed' \in BOOLEAN /\ c(v) = Given(b, f, v)
      BY <1>1, <1>3, <2>1
    <3> DEFINE g == Given(b, f, v)
    <3>3. /\ Fit(g) /\ g.address = b.address /\ g.locked = b.locked /\ g.slots = b.slots
          /\ \A h \in g.fetches : h \in b.fetches \/ h.for = NoSlot
          /\ Told(g, due, missed')
      <4>1. b.address # Away /\ (KeepsItsFirst /\ ~b.wandered => f.of = b.address)
        BY <1>2, <2>1
      <4>2. QED
        BY <1>1, <1>2, <1>4, <3>1, <3>2, <4>1, GivenFits, Zenon
    <3> HIDE DEF c
    <3>4. QED
      BY <1>1, <3>2, <3>3
  <2>2. CASE ~f.live
    BY <1>1, <1>2, <1>3, <2>2 DEF Awaited
  <2>3. QED
    BY <2>1, <2>2
<1> HIDE DEF c
<1>6. CASE f.for = NoSlot
  <2>1. client' = c(v)
    BY <1>3, <1>6
  <2>2. Fit(client') /\ Held(client'.locked, client'.slots) /\ Told(client', due', missed')
    BY <1>2, <1>5, <2>1
  <2>3. QED
    BY <1>1, <1>5, <2>2, PageKept DEF PageInv
<1>7. CASE f.for # NoSlot
  <2> DEFINE words == do.ok \ {"reload"}
  <2>1. client' = Effects(words, c(v), f.for)
    BY <1>3, <1>7
  <2>2. HandlerSound(do)
    BY EntriesSound DEF PageInv
  <2>3. /\ "show" \notin words
        /\ "lock" \in do.start /\ do \notin LockedForGood => Releases(words)
    BY <1>2, <1>7, <2>2 DEF HandlerSound, Releases
  <2> HIDE DEF words
  <2>4. /\ f.for \in Slots /\ c(v).slots[f.for] \in Runs
        /\ \A g \in c(v).fetches : g.for # f.for
    BY <1>2, <1>5, <1>7
  <2>5. Fit(client') /\ Held(client'.locked, client'.slots)
    BY <1>1, <1>2, <1>5, <2>1, <2>3, <2>4, EffectsFit
  <2>6. Told(client', due', missed')
    BY <1>1, <1>5, <2>1, <2>3, <2>4, EffectsTold
  <2>7. QED
    BY <1>1, <1>5, <2>5, <2>6, PageKept DEF PageInv
<1>8. QED
  BY <1>6, <1>7

(* A fetch fails, and with it, perhaps, the handler that waits for it. *)
LEMMA FetchFailsStep ==
    ASSUME PageInv, NEW f \in client.fetches, FetchFails(f)
    PROVE  PageInv'
<1> DEFINE c == Received(f)
           words == IF do.waits = "loaded" THEN do.fails ELSE do.ok \ {"reload"}
           back == IF "home" \in focus.fails THEN Home ELSE f.of
<1>1. /\ focus' = focus /\ server' = server /\ due' = due
      /\ missed' = (missed \/ Awaited(client, f))
      /\ server' \in [Subjects -> 0..MaxVersion]
  BY DEF FetchFails, PageInv
<1>2. client' = IF f.for # NoSlot THEN Effects(words, c, f.for)
                ELSE IF f.part \/ focus.fails = {} THEN c
                ELSE IF "leave" \in focus.fails THEN Goto(c, Away) ELSE Goto(c, back)
  BY DEF FetchFails
<1>3. /\ f \in Answers /\ Fit(c) /\ Held(c.locked, c.slots)
      /\ ~Awaited(client, f) => Told(c, due, missed)
      /\ f.for # NoSlot => /\ f.for \in Slots /\ c.slots[f.for] \in Runs
                           /\ do.waits # "no" /\ \A g \in c.fetches : g.for # f.for
  BY ReceivedFits
<1> HIDE DEF c
<1>4. missed' \in BOOLEAN /\ back \in Addresses /\ Away \in Addresses
  <2>1. Awaited(client, f) \in BOOLEAN
    BY <1>3 DEF Awaited, Answers
  <2>2. f.of \in Addresses
    BY <1>3, TargetsAreSubjects DEF Answers
  <2>3. QED
    BY <1>1, <2>1, <2>2, TargetsAreSubjects DEF PageInv
<1> HIDE DEF back
<1>5. Told(c, due', missed')
  BY <1>1, <1>3 DEF Told
<1>6. HandlerSound(do)
  BY EntriesSound DEF PageInv
<1>7. f.for # NoSlot =>
        /\ "show" \notin words
        /\ "lock" \in do.start /\ do \notin LockedForGood => Releases(words)
  BY <1>3, <1>6 DEF HandlerSound, Releases
<1> HIDE DEF words
<1>8. Fit(client') /\ Held(client'.locked, client'.slots) /\ Told(client', due', missed')
  <2>1. CASE f.for # NoSlot
    <3>1. client' = Effects(words, c, f.for)
      BY <1>2, <2>1
    <3>2. Fit(client') /\ Held(client'.locked, client'.slots)
      BY <1>1, <1>3, <1>7, <2>1, <3>1, EffectsFit
    <3>3. Told(client', due', missed')
      BY <1>1, <1>3, <1>5, <1>7, <2>1, <3>1, EffectsTold
    <3>4. QED
      BY <3>2, <3>3
  <2>2. CASE client' = c
    BY <1>3, <1>5, <2>2
  <2>3. ASSUME NEW s \in Addresses, client' = Goto(c, s)
        PROVE  /\ Fit(client') /\ Held(client'.locked, client'.slots)
               /\ Told(client', due', missed')
    <3>1. Fit(client') /\ Held(client'.locked, client'.slots)
      BY <1>1, <1>3, <2>3, GotoFits
    <3>2. Told(client', due', missed')
      BY <1>1, <1>3, <1>5, <2>3, GotoFits
    <3>3. QED
      BY <3>1, <3>2
  <2>4. QED
    BY <1>2, <1>4, <2>1, <2>2, <2>3
<1>9. QED
  BY <1>1, <1>4, <1>8, PageKept DEF PageInv

-------------------------------------------------------------------------------
(* Every step keeps the invariant. *)
LEMMA PageStep ==
    ASSUME PageInv, [Next]_pageVars
    PROVE  PageInv'
<1>1. ASSUME NEW s \in Addresses, Go(s) PROVE PageInv'
  BY <1>1, GoStep
<1>2. ASSUME OpenModal \/ CloseModal PROVE PageInv'
  BY <1>2, ModalStep
<1>3. ASSUME NEW i \in Slots, Confirm(i) PROVE PageInv'
  BY <1>3, ConfirmStep
<1>4. ASSUME NEW i \in Slots, Answered(i) PROVE PageInv'
  BY <1>4, SucceedStep, FailStep DEF Answered
<1>5. ASSUME NEW f \in client.fetches, Reply(f) PROVE PageInv'
  BY <1>5, ArriveStep, FetchFailsStep DEF Reply
<1>6. ASSUME UNCHANGED pageVars PROVE PageInv'
  <2>1. /\ focus' = focus /\ client' = client /\ server' = server /\ due' = due
        /\ missed' = missed
    BY <1>6 DEF pageVars
  <2>2. QED
    BY <2>1, PageKept DEF PageInv
<1>7. QED
  BY <1>1, <1>2, <1>3, <1>4, <1>5, <1>6 DEF Next

LEMMA PageInvariant == Spec => []PageInv
BY PageInitially, PageStep, PTL DEF Spec

(* Buttons are disabled only while a request of theirs is under way, and what
   disables its buttons, such as a removal, is never under way twice, whatever the
   answers, wherever the user goes and however often it is confirmed. *)
THEOREM ButtonsStaySound == Spec => []ButtonsSound
<1>1. PageInv => ButtonsSound
  <2> SUFFICES ASSUME PageInv PROVE ButtonsSound
    OBVIOUS
  <2>1. /\ client \in Clients /\ 0 \in 0..MaxVersion
    BY PageAssumption DEF PageInv, Fit
  <2>2. /\ client.address \in Addresses /\ client.entity \in Subjects \cup {Away}
        /\ client.wandered \in BOOLEAN
        /\ client.open \in BOOLEAN /\ client.locked \in BOOLEAN
        /\ client.slots \in [Slots -> {Idle} \cup Runs]
        /\ client.fetches \subseteq Answers
    BY <2>1, TargetsAreSubjects DEF Clients
  <2>3. client.shown.of \in Subjects \cup {Away} /\ client.shown.version \in 0..MaxVersion
    BY <2>1, TargetsAreSubjects DEF Clients, Blank
  <2>4. Runs \subseteq [phase : {"sent", "reloading"}, target : Subjects, at : Subjects,
                        form : BOOLEAN, page : BOOLEAN]
    BY TargetsAreSubjects DEF Runs
  <2>5. Answers \subseteq [of : Subjects, seen : 0..MaxVersion, live : BOOLEAN,
                           for : {NoSlot} \cup Slots, part : BOOLEAN]
    BY TargetsAreSubjects DEF Answers
  <2>6. TypeOK
    BY <2>2, <2>3, <2>4, <2>5 DEF TypeOK, PageInv
  <2>7. Running = RunningIn(client.slots)
    BY DEF Running, RunningIn
  <2>8. LockedWhileRunning
    BY <2>7 DEF LockedWhileRunning, PageInv, Held
  <2>9. RunsOnce
    <3> SUFFICES ASSUME do \in AskedOnce PROVE Cardinality(Running) =< 1
      BY DEF RunsOnce
    <3>1. \A i, j \in Running : i = j
      BY <2>7 DEF PageInv, Fit, ButtonsFit
    <3>2. CASE Running = {}
      BY <3>2, FS_EmptySet
    <3>3. CASE Running # {}
      <4>1. PICK i \in Running : Running = {i}
        BY <3>1, <3>3
      <4>2. Cardinality({i}) = 1
        BY FS_Singleton
      <4>3. QED
        BY <4>1, <4>2
    <3>4. QED
      BY <3>2, <3>3
  <2>10. QED
    BY <2>6, <2>8, <2>9 DEF ButtonsSound
<1>2. QED
  BY <1>1, PageInvariant, PTL

(* A page at rest shows what its user has made of the entity it shows, and that is the
   entity of its address, but for a part that keeps its first entity after the user has
   gone from one to another: each handler reloads, shows its change or leaves, and no
   fetch that is under way is lost sight of, unless what arrived last was late or a
   failure, or the same entity was loaded again. *)
THEOREM OwnChangesShown == Spec => []ShowsOwnChanges
<1>1. PageInv => ShowsOwnChanges
  BY DEF PageInv, AtRest, Told, ShowsOwnChanges
<1>2. QED
  BY <1>1, PageInvariant, PTL
===============================================================================
