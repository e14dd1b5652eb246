----------------------------- MODULE PageHandlers -----------------------------
(* The handlers of the web client that ask the server for a change: what a button
   or a form of a page does before the request, after its answer and after its
   failure. Modal dialogs, busy flags, reloads and redirects are set by each of
   them anew, so each has an entry; EntityPage runs the entries.

   Of a handler are kept
     is      "shown" if its page shows what it changes, "modal" if one asks first,
             "own" if it reloads its part of the entity that its page shows, not the
             whole of the one of the address, "apart" if what it changes is fetched on
             its own, when its page has got another entity, "first" if what it changes
             is shown of the first entity that its page gets and of no other,
     start   "close" the modal, "lock" the buttons, before the request,
     waits   when ok goes on after a reload: "no", "settled" when it has ended,
             "loaded" when it was a success (and fails takes over if it was not),
     ok      after a success: "close", "unlock", "reload", "show" the change at
             once, "stay" (setAlert, which navigates to where the handler was
             made), "leave" (redirectToAlert, navigate: to another page),
     fails   after a failure, in the same words; a toast is nothing.            *)
EXTENDS Functions

Handler(is, start, waits, ok, fails) ==
    [is |-> is, start |-> start, waits |-> waits, ok |-> ok, fails |-> fails]

-------------------------------------------------------------------------------
(* The page of an object, and the boxes on it. *)
TagBox == [
    AddTag    |-> Handler({"shown", "own"}, {}, "settled", {"reload"}, {}),
    RemoveTag |-> Handler({"shown", "modal", "own"}, {}, "settled",
                          {"reload", "close"}, {"close"})]

CommentBox == [
    SubmitComment |-> Handler({"shown", "own", "apart"}, {}, "settled", {"reload"}, {}),
    RemoveComment |-> Handler({"shown", "modal", "own", "apart"}, {}, "settled",
                              {"reload", "close"}, {"close"})]

(* The modal for a new attribute stays open when the request fails, and so does
   the question whether one should be removed. *)
AttributesAddModal ==
    Handler({"shown", "modal", "own", "apart"}, {}, "settled", {"reload", "close"}, {})
AttributesBox == [
    AddAttribute    |-> AttributesAddModal,
    DeleteAttribute |-> Handler({"shown", "modal", "own", "apart"}, {}, "settled",
                                {"reload", "close"}, {})]

SharesBoxUnreloaded == [     \* mutant: the shares are not fetched again
    DoShare |-> Handler({"shown", "modal", "own", "apart"}, {"close"}, "no", {}, {})]
SharesBox == [
    DoShare |-> Handler({"shown", "modal", "own", "apart"}, {"close"}, "no", {"reload"}, {})]

(* updateObject fetches the whole object of the address and merges it into what is
   there; the boxes above ask for their part of the object that is shown. *)
RelationsAddModal ==
    Handler({"shown", "modal"}, {}, "no", {"reload", "close"}, {})
RemoveObjectRelations ==
    Handler({"shown", "modal"}, {"lock"}, "no",
            {"reload", "close", "unlock"}, {"unlock"})
RelationsBox == [
    AddObjectRelations    |-> RelationsAddModal,
    RemoveObjectRelations |-> RemoveObjectRelations]

(* isResubmitPending is never reset, but it only greys the link. *)
KartonAnalysisBox == [
    SubmitAnalysis |-> Handler({"shown", "own", "apart"}, {}, "settled", {"reload"}, {}),
    RemoveAnalysis |-> Handler({"shown", "modal", "own", "apart"}, {}, "settled",
                               {"reload", "close"}, {"close"})]

FavoriteAction == [
    MarkFavorite |-> Handler({"shown"}, {}, "no", {"reload"}, {})]

(* The box keeps a flag of its own, made of the object it was mounted with. *)
Share3rdPartyBox == [
    MarkShareable |-> Handler({"shown", "modal", "first"}, {"close"},
                              "no", {"show"}, {})]

(* Neither a pull nor a push unlocks its modal after a failure. *)
PullAction == [
    PullRemote |-> Handler({"modal"}, {"lock"}, "no", {"leave"}, {"close"})]
PushAction == [
    PushRemote |-> Handler({"modal"}, {"lock"}, "no", {"leave"}, {"close"})]

RemoveActionTwice == [     \* mutant: the modal is not disabled
    DeleteObject |-> Handler({"shown", "modal"}, {}, "no",
                             {"leave"}, {"unlock", "close"})]
RemoveAction == [
    DeleteObject |-> Handler({"shown", "modal"}, {"lock"}, "no",
                             {"leave"}, {"unlock", "close"})]

ObjectHandlers ==
    Range(TagBox) \cup Range(CommentBox) \cup Range(AttributesBox)
       \cup Range(SharesBox) \cup Range(RelationsBox) \cup Range(KartonAnalysisBox)
       \cup Range(FavoriteAction) \cup Range(Share3rdPartyBox) \cup Range(PullAction)
       \cup Range(PushAction) \cup Range(RemoveAction)

-------------------------------------------------------------------------------
(* The profile of the user, and the administration of users, groups, attributes
   and identity providers, which needs manage_users as a whole. *)
EditFields ==     \* an item is edited in place
    Handler({"shown"}, {}, "no", {"stay", "reload"}, {"stay", "reload"})

UserDetailsView == [
    HandleSubmit     |-> EditFields,
    SetDisabledState |-> Handler({"shown", "modal"}, {"lock"}, "no",
                                 {"stay", "unlock", "close", "reload"},
                                 {"stay", "unlock", "close", "reload"}),
    HandleRemoveUser |-> Handler({"shown", "modal"}, {"lock"}, "no",
                                 {"leave"}, {"stay", "unlock"})]

(* The modal about a capability and the one about a changed selection. *)
DeleteCapabilityModal ==
    Handler({"shown", "modal"}, {}, "no", {"reload", "close", "stay"}, {"stay"})
CapabilitiesSelect ==
    Handler({"shown", "modal"}, {}, "no", {"reload", "close", "stay"}, {"stay"})

(* Once asked for, the buttons do not come back after a failure. *)
UserResetPasswordView == [
    ResetPassword             |-> Handler({"shown"}, {"lock"}, "no",
                                          {"leave"}, {"stay"}),
    GeneratePasswordResetLink |-> Handler({}, {}, "no", {"show"}, {"stay"})]

UserSingleGroupsView == [
    AddToGroup      |-> Handler({"shown", "modal"}, {"close"}, "no",
                                {"reload", "stay"}, {"stay"}),
    RemoveFromGroup |-> Handler({"shown", "modal"}, {"close"}, "no",
                                {"reload", "stay"}, {"stay"})]

ProfileAPIKeys == [
    CreateApiKey |-> Handler({"shown", "modal"}, {"close"}, "no", {"reload", "stay"}, {"stay"}),
    RemoveApiKey |-> Handler({"shown", "modal"}, {}, "no", {"reload", "close", "stay"}, {"stay"})]

UserHandlers ==
    Range(UserDetailsView) \cup Range(UserResetPasswordView)
       \cup Range(UserSingleGroupsView) \cup Range(ProfileAPIKeys)
       \cup {DeleteCapabilityModal, CapabilitiesSelect}

UsersPendingListView == [
    AcceptUser |-> Handler({"shown", "modal"}, {"close"}, "no",
                           {"stay", "reload"}, {"stay"}),
    RejectUser |-> Handler({"shown", "modal"}, {"close"}, "no",
                           {"stay", "reload"}, {"stay"})]

(* A group is redirected to its own, possibly new, address after an update. *)
GroupDetailsView == [
    HandleUpdate         |-> Handler({"shown"}, {}, "no",
                                     {"stay", "reload"}, {"stay"}),
    HandleProviderUpdate |-> Handler({"shown"}, {}, "no",
                                     {"stay", "reload"}, {"stay"}),
    FeatureSwitch        |-> Handler({"shown", "modal"}, {"close"}, "no",
                                     {"stay", "reload"}, {"stay"}),
    HandleRemoveGroup    |-> Handler({"shown", "modal"}, {"lock"}, "no",
                                     {"leave"}, {"stay", "close", "unlock"})]

GroupMembersView == [
    AddMember          |-> Handler({"shown", "modal"}, {"close"}, "no",
                                   {"reload", "stay"}, {"stay"}),
    MemberRemoval      |-> Handler({"shown", "modal"}, {"close"}, "no",
                                   {"reload", "stay"}, {"stay"}),
    SetAdminMembership |-> Handler({"shown", "modal"}, {"close"}, "no",
                                   {"reload", "stay"}, {"stay"})]

GroupHandlers ==
    Range(GroupDetailsView) \cup Range(GroupMembersView)
       \cup {DeleteCapabilityModal, CapabilitiesSelect}

AccessControlView == [
    ChangeCapabilities |-> Handler({"shown", "modal"}, {"lock"}, "settled",
                                   {"reload", "stay", "unlock", "close"},
                                   {"stay", "unlock", "close"})]

(* The removal of an attribute leaves its modal locked when it fails. *)
AttributeDetailsView == [
    UpdateDefinition      |-> Handler({"shown"}, {}, "no",
                                      {"reload"}, {"stay", "reload"}),
    HandleRemoveAttribute |-> Handler({"shown", "modal"}, {"lock"}, "no",
                                      {"leave"}, {"stay"})]

(* The permissions are fetched when their view is mounted, for which the attribute has
   to be there, and after a change: the only reload whose failure is the failure of
   the handler.                                                                  *)
AttributesPermissionsView == [
    AddGroup    |-> Handler({"shown", "apart", "first"}, {}, "loaded", {"reload"}, {"stay"}),
    UpdateGroup |-> Handler({"shown", "modal", "apart", "first"}, {}, "loaded",
                            {"reload", "close"}, {"stay"}),
    RemoveGroup |-> Handler({"shown", "modal", "apart", "first"}, {}, "loaded",
                            {"reload", "close"}, {"stay"})]

(* After a failure, too, it says "Template edited successfully" and leaves. *)
AttributeEditTemplateView == [
    StoreTemplate |-> Handler({"shown"}, {}, "no",
                              {"reload", "leave"}, {"stay", "reload", "leave"})]

AttributeHandlers ==
    Range(AttributeDetailsView) \cup Range(AttributesPermissionsView)
       \cup Range(AttributeEditTemplateView)

OAuthProviderView == [
    EditProvider         |-> EditFields,
    HandleRemoveProvider |-> Handler({"shown", "modal"}, {"lock"}, "no",
                                     {"leave"}, {"stay", "unlock"})]

ProfileResetPassword == [
    RequestPasswordChange |-> Handler({"shown"}, {"lock"}, "no",
                                      {"leave"}, {"stay"})]

ProfileGroupItems == [
    HandleRemoveMember |-> Handler({"shown", "modal"}, {}, "no",
                                   {"reload", "stay", "close"}, {"stay", "close"})]

(* The views inside of the page of a profile; the modal is the page's. *)
ProfileHandlers == Range(ProfileResetPassword) \cup Range(ProfileAPIKeys)

-------------------------------------------------------------------------------
(* Forms that make something new: they leave for its page. Uploads show a toast
   when they fail, the forms of the administration an alert.                   *)
UserCreateView == Handler({}, {}, "no", {"leave"}, {"stay"})
GroupCreateView == Handler({}, {}, "no", {"leave"}, {"stay"})
AttributeCreateView == Handler({}, {}, "no", {"leave"}, {"stay"})
OAuthRegisterView == Handler({}, {}, "no", {"leave"}, {"stay"})
UploadFileView == Handler({}, {}, "no", {"leave"}, {})
UploadBlobView == Handler({}, {}, "no", {"leave"}, {})
UploadConfigView == Handler({}, {}, "no", {"leave"}, {})

(* The forms of those who are not logged in wait for their answer; the button that
   binds an identity leaves for its provider.                                  *)
UserRegisterView == Handler({}, {"lock"}, "no", {"unlock", "leave"}, {"unlock"})
UserPasswordRecoverView == Handler({}, {"lock"}, "no", {"unlock", "leave"}, {"unlock"})
UserSetPasswordView == Handler({}, {}, "no", {"show"}, {})
ProfileOAuth == Handler({"modal"}, {}, "no", {"leave"}, {"stay"})

FormHandlers == [
    RegisterUser |-> UserRegisterView, RecoverPassword |-> UserPasswordRecoverView,
    SetPassword |-> UserSetPasswordView, BindProvider |-> ProfileOAuth,
    CreateUser |-> UserCreateView, CreateGroup |-> GroupCreateView,
    CreateAttribute |-> AttributeCreateView, RegisterProvider |-> OAuthRegisterView,
    UploadFile |-> UploadFileView, UploadBlob |-> UploadBlobView,
    UploadConfig |-> UploadConfigView]

-------------------------------------------------------------------------------
(* The pages: their handlers, what a failed fetch does ("home": to the first of them),
   and of the page whether
     "many"    there is one for each entity,
     "hides"   it is blank until it shows the entity of its address,
     "inside"  and its handlers are unmounted while it is.                         *)
Page(does, fails, is) == [does |-> does, fails |-> fails, is |-> is]

Pages == [
    object     |-> Page(ObjectHandlers, {}, {"many"}),
    user       |-> Page(UserHandlers, {"stay"}, {"many"}),
    pending    |-> Page(Range(UsersPendingListView), {}, {}),
    group      |-> Page(GroupHandlers, {"stay"}, {"many"}),
    access     |-> Page(Range(AccessControlView), {"stay"}, {}),
    attribute  |-> Page(AttributeHandlers, {"stay"}, {"many"}),
    provider   |-> Page(Range(OAuthProviderView), {"stay"}, {"many"}),
    profile    |-> Page({DeleteCapabilityModal}, {"home"}, {"many", "hides"}),
    inProfile  |-> Page(ProfileHandlers, {"home"}, {"many", "hides", "inside"}),
    workspaces |-> Page(Range(ProfileGroupItems), {"leave"}, {}),
    form       |-> Page(Range(FormHandlers), {}, {})]
===============================================================================
