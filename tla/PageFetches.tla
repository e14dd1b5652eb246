------------------------------- MODULE PageFetches -------------------------------
(* Views that only show what they fetch. Each has its own effect, and with it its own
   answer to what happens if the subject of the view changes while a request is under
   way: most of them fetch anew and take every answer that comes, one has a flag that
   its cleanup sets, some fetch once and for all.

   Of a view are kept
     keyed    it fetches again when its subject changes,
     guarded  it drops the answers for an earlier subject,
     steps    the requests it makes one after the other before it shows anything,
     whole    it can be asked for more of the same subject (SamplePreview: the rest of
              a long file), and stays so,
     leaves   a failed fetch sends the user to another page; else all stays as it is. *)
EXTENDS Naturals, FiniteSets

CONSTANTS
    Looked,    \* the subjects: objects, users, ranges of time
    NoSubject, \* none of them
    MaxTurns   \* bound: how often the user changes the subject

ASSUME FetchesAssumption == NoSubject \notin Looked /\ MaxTurns \in Nat

VARIABLES
    view,     \* the entry of the view
    looked,   \* the subject it is to show
    full,     \* loadAll
    got,      \* what it shows: [of, full]
    turn,     \* how often its effect has run
    sent,     \* the requests under way: [of, full, step, turn]
    outrun    \* the answer shown last is not that of the last run, or a request of
              \* the last run has failed

fetchVars == <<view, looked, full, got, turn, sent, outrun>>

Entry(keyed, guarded, steps, whole, leaves) ==
    [keyed |-> keyed, guarded |-> guarded, steps |-> steps, whole |-> whole,
     leaves |-> leaves]

(* First the relations, then each of the blobs. Mutant: without the flag. *)
NormalizedCodeTabUnguarded == Entry(TRUE, FALSE, 2, FALSE, FALSE)
NormalizedCodeTab == Entry(TRUE, TRUE, 2, FALSE, FALSE)
DiffTextBlobView == Entry(TRUE, FALSE, 2, FALSE, FALSE)
SamplePreview == Entry(TRUE, FALSE, 1, TRUE, FALSE)
ConfigStatsView == Entry(TRUE, FALSE, 1, FALSE, FALSE)
ProfileView == Entry(TRUE, FALSE, 1, FALSE, TRUE)

(* Of these there is only one subject. *)
ProfileGroup == Entry(FALSE, FALSE, 1, FALSE, TRUE)
ProfileGroups == Entry(FALSE, FALSE, 1, FALSE, TRUE)
ProfileGroupMembers == Entry(FALSE, FALSE, 1, FALSE, TRUE)
SettingsOverviewView == Entry(FALSE, FALSE, 1, FALSE, FALSE)
OAuthListProvidersView == Entry(FALSE, FALSE, 1, FALSE, FALSE)
QuickQuery == Entry(FALSE, FALSE, 1, FALSE, FALSE)

KeyedViews == {NormalizedCodeTab, DiffTextBlobView, SamplePreview, ConfigStatsView, ProfileView}
SingleViews == {ProfileGroup, ProfileGroups, ProfileGroupMembers, SettingsOverviewView,
                OAuthListProvidersView, QuickQuery}

NothingYet == [of |-> NoSubject, full |-> FALSE]

-------------------------------------------------------------------------------
(* The effect: what was under way is dropped by the flag of a guarded view; otherwise
   it stays under way. Mutant: the effect fetches the subject before. *)
RunStale(s, f) ==
    /\ turn' = turn + 1
    /\ sent' = (IF view.guarded THEN {} ELSE sent)
                  \cup {[of |-> looked, full |-> f, step |-> 1, turn |-> turn + 1]}
Run(s, f) ==
    /\ turn' = turn + 1
    /\ sent' = (IF view.guarded THEN {} ELSE sent)
                  \cup {[of |-> s, full |-> f, step |-> 1, turn |-> turn + 1]}

FetchesInit ==
    /\ view \in KeyedViews \cup SingleViews
    /\ looked \in Looked
    /\ full = FALSE
    /\ got = NothingYet
    /\ turn = 0
    /\ sent = {[of |-> looked, full |-> FALSE, step |-> 1, turn |-> 0]}
    /\ outrun = FALSE

(* Another subject: a link, the choice of a range. *)
LookAt(s) ==
    /\ view.keyed /\ s # looked /\ turn < MaxTurns
    /\ looked' = s
    /\ Run(s, full)
    /\ UNCHANGED <<view, full, got, outrun>>

(* "Load the full content anyway?", which is offered for a content that is not. *)
LoadAll ==
    /\ view.whole /\ ~full /\ got # NothingYet /\ ~got.full /\ turn < MaxTurns
    /\ full' = TRUE
    /\ Run(looked, TRUE)
    /\ UNCHANGED <<view, looked, got, outrun>>

(* One request after another; then everything is shown at once. *)
Step(r) ==
    IF r.step < view.steps
    THEN /\ sent' = (sent \ {r}) \cup {[r EXCEPT !.step = @ + 1]}
         /\ UNCHANGED <<got, outrun>>
    ELSE /\ sent' = sent \ {r}
         /\ got' = [of |-> r.of, full |-> r.full]
         /\ outrun' = (r.turn # turn)

Answers(r) == Step(r) /\ UNCHANGED <<view, looked, full, turn>>

(* A toast, an alert, or nothing; some go back to the page of the user's own. *)
Breaks(r) ==
    /\ sent' = IF view.leaves THEN {} ELSE sent \ {r}
    /\ got' = IF view.leaves THEN NothingYet ELSE got
    /\ outrun' = (outrun \/ r.turn = turn \/ view.leaves)
    /\ UNCHANGED <<view, looked, full, turn>>

FetchesNext ==
    \/ \E s \in Looked : LookAt(s)
    \/ LoadAll
    \/ \E r \in sent : Answers(r) \/ Breaks(r)

(* Requests end, by their answer or by the timeout of axios. *)
FetchesFairness == WF_fetchVars(\E r \in sent : Answers(r) \/ Breaks(r))

FetchesSpec == FetchesInit /\ [][FetchesNext]_fetchVars /\ FetchesFairness

-------------------------------------------------------------------------------
FetchesTypeOK ==
    /\ view \in KeyedViews \cup SingleViews
    /\ looked \in Looked /\ full \in BOOLEAN
    /\ got \in [of : Looked \cup {NoSubject}, full : BOOLEAN]
    /\ turn \in 0..MaxTurns
    /\ sent \subseteq [of : Looked, full : BOOLEAN, step : 1..view.steps, turn : 0..turn]
    /\ outrun \in BOOLEAN

(* The view that has a flag never shows an answer for a subject that has been left
   since it was asked for, whatever else arrives and in whatever order. *)
LateAnswersDropped ==
    [][view = NormalizedCodeTab /\ got' # got => got'.of = looked]_fetchVars

(* What a view shows of its subject is all it has been asked to show, once everything
   is answered, unless the last answers came in another order than they were asked
   for. There is no button for the rest of a file that is shown in part then. *)
SettledOnSubject ==
    sent = {} /\ ~outrun /\ view.keyed => got.of = looked /\ got.full = full

(* Everybody gets an answer or the news that there is none. *)
FetchesEnd == <>[](sent = {})
================================================================================
