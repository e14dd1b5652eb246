--------------------------- MODULE QuerySuggestions ---------------------------
(* Suggestions under the query bar (useQuerySuggestions.ts, QueryInput.tsx). Each
   change of the text starts a call of fetchSuggestions; the effect of the next
   change marks it as not valid. A text that ends inside of "attribute." or
   "meta." needs the attribute definitions, which are asked for once and kept as
   a promise that all the calls wait for. Any other text is answered at once,
   that is before the next event.

   A suggestion is a function on texts that cuts the partial name off the end and
   puts the whole name there: it must only ever be applied to the text it was made
   for, so suggestions are known here by that text.                             *)
EXTENDS Naturals, FiniteSets

CONSTANTS
    LocalTexts,      \* texts whose suggestions need no request
    AttributeTexts,  \* texts inside of an attribute path
    NoText,          \* stands for no suggestions in the abstract specification
    MaxCalls         \* bound: the calls that wait at a time

ASSUME SuggestAssumption ==
    /\ NoText \notin LocalTexts \cup AttributeTexts
    /\ LocalTexts \cap AttributeTexts = {}
    /\ LocalTexts # {}
    /\ MaxCalls \in Nat \ {0}

Texts == LocalTexts \cup AttributeTexts

VARIABLES
    text,         \* the text of the query bar
    calls,        \* calls waiting: texts, with the flag valid of their effect
    definitions,  \* the promise of the attribute definitions
    suggestions,  \* the text the suggestions on hand were made for
    loading       \* a spinner is shown instead of suggestions

suggestVars == <<text, calls, definitions, suggestions, loading>>

(* The state of the promise: not asked for, asked for, resolved. A failed request
   neither resolves nor rejects it, so it is "lost" for good.                   *)
PromiseStates == {"none", "pending", "resolved", "lost"}

(* A call that goes on waiting, and one that the effect has given up. *)
Wait(t) == [text |-> t, valid |-> TRUE]
StillValid == calls     \* mutant: the clean-up of the effect is missing
GivenUp == {[c EXCEPT !.valid = FALSE] : c \in calls}

(* setLoading(true) runs after the call was made and before it answers. *)
Spinner(t) == t \in AttributeTexts

-------------------------------------------------------------------------------
SuggestInit ==
    /\ text \in LocalTexts
    /\ calls = {}
    /\ definitions = "none"
    /\ suggestions = text
    /\ loading = FALSE

(* The effect of a new text: earlier calls become invalid, a call is made; without
   a request it ends at once, as it does when the promise is resolved. *)
Look(t) ==
    IF t \in AttributeTexts /\ definitions # "resolved"
    THEN /\ calls' = GivenUp \cup {Wait(t)}
         /\ definitions' = IF definitions = "none" THEN "pending" ELSE definitions
         /\ loading' = Spinner(t)
         /\ UNCHANGED suggestions
    ELSE /\ calls' = GivenUp
         /\ suggestions' = t
         /\ loading' = FALSE
         /\ UNCHANGED definitions

(* The user types, clears the bar or clicks a suggestion, which is applied to the
   text of the bar; or the query of the page changes. *)
Type ==
    /\ \E t \in Texts \ {text} : text' = t /\ Look(t)
    /\ Cardinality(calls') =< MaxCalls

(* Mutant: the spinner is not taken away with the answer. *)
ResolveSpinning ==
    /\ definitions = "pending"
    /\ definitions' = "resolved"
    /\ calls' = {}
    /\ suggestions' \in {c.text : c \in {d \in calls : d.valid}} \cup {suggestions}
    /\ UNCHANGED <<text, loading>>

(* The definitions arrive: every call that waits goes on, in the order of the
   calls; only the valid one shows what it has found. *)
Resolve ==
    /\ definitions = "pending"
    /\ definitions' = "resolved"
    /\ calls' = {}
    /\ \/ \E c \in calls : /\ c.valid
                           /\ suggestions' = c.text
                           /\ loading' = FALSE
       \/ /\ ~ \E c \in calls : c.valid
          /\ UNCHANGED <<suggestions, loading>>
    /\ UNCHANGED text

(* The request fails: an alert, and the promise stays as it is. *)
Lose ==
    /\ definitions = "pending"
    /\ definitions' = "lost"
    /\ UNCHANGED <<text, calls, suggestions, loading>>

SuggestNext == Type \/ Resolve \/ Lose

(* The request for the definitions is answered or times out. *)
SuggestFairness == WF_suggestVars(Resolve \/ Lose)

SuggestSpec == SuggestInit /\ [][SuggestNext]_suggestVars /\ SuggestFairness

-------------------------------------------------------------------------------
SuggestTypeOK ==
    /\ text \in Texts
    /\ calls \subseteq [text : Texts, valid : BOOLEAN]
    /\ definitions \in PromiseStates
    /\ suggestions \in Texts
    /\ loading \in BOOLEAN

(* What the user can click was made for the text it will be applied to. *)
OfferedForThisText == loading \/ suggestions = text

(* At most one call is valid, it is the one of the present text, and the spinner
   is shown exactly while it waits. *)
OneValidCall ==
    LET valid == {c \in calls : c.valid}
    IN /\ Cardinality(valid) =< 1
       /\ \A c \in valid : c.text = text
       /\ loading <=> valid # {}

(* The spinner never stays, unless the definitions could not be fetched: then it
   stays until the user leaves the attribute path, and comes back with it. *)
SpinnerEnds == []<>(~loading \/ definitions = "lost")

(* The abstract promise: the suggestions are the latest answer. *)
Abstract == INSTANCE LatestAnswer WITH
    Subjects <- Texts, Nothing <- NoText,
    subject <- text, shown <- suggestions, waiting <- loading

SuggestionsAreLatest == Abstract!AnswerSpec
===============================================================================
