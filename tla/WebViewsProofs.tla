---------------------------- MODULE WebViewsProofs ----------------------------
(* Theorems about the parts of a page of the web client: each keeps its promise in
   whatever order the user acts and the answers arrive, for any number of objects,
   queries and requests. The parts share nothing; a section for each of them.      *)
EXTENDS RecentList, QuerySuggestions, ObjectData, PageFetches, PluginTabs, RemoteViews,
        RemoteTransfers, PagedLists, QueryLexer, RelationsPlot, TemplatePaths, FiniteSetTheorems,
        SequenceTheorems, WellFoundedInduction, TLAPS

(* The counters are one page apart at most; only loaded pages have elements. *)
CountersFit ==
    /\ list.pageToLoad =< list.loadedPages + 1
    /\ Len(list.pages) =< list.loadedPages

ListInv == ListTypeOK /\ CountersFit /\ OneLoad /\ PagesInOrder /\ LaterPagesMatch

Lists == [pageToLoad : Nat, loadedPages : Nat, hasMore : BOOLEAN,
          failed : BOOLEAN, pages : Seq(Page)]
Loads == [query : Queries, after : Nat, live : BOOLEAN]
Counters(l) == <<l.pageToLoad, l.loadedPages>>

(* What the list and its requests must fulfil, without the other variables. *)
ListPart ==
    /\ query \in Queries
    /\ list \in Lists
    /\ loads \subseteq Loads
    /\ CountersFit /\ OneLoad /\ PagesInOrder /\ LaterPagesMatch

ListRestOK ==
    /\ counting \in BOOLEAN
    /\ count \in Queries \cup {None}
    /\ counts \subseteq Queries
    /\ error \in Queries \cup {None}

LEMMA ListInvInParts == ListInv <=> ListPart /\ ListRestOK
BY DEF ListInv, ListTypeOK, ListPart, ListRestOK, Lists, Loads

-------------------------------------------------------------------------------
LEMMA EmptyLists ==
    /\ NoList \in Lists /\ NoList.pages = <<>>
    /\ NoList.pageToLoad = 0 /\ NoList.loadedPages = 0
    /\ Reloaded \in Lists /\ Reloaded.pages = <<>>
    /\ Reloaded.pageToLoad = 1 /\ Reloaded.loadedPages = 0
<1>1. <<>> \in Seq(Page)
  OBVIOUS
<1>2. NoList \in Lists
  BY <1>1 DEF NoList, Lists
<1>3. Reloaded \in Lists
  BY <1>1 DEF NoList, Reloaded, Lists
<1>4. QED
  BY <1>2, <1>3 DEF NoList, Reloaded

(* The effect with other counters leaves one live request, or none. *)
LEMMA OnlyTheNew ==
    ASSUME NEW l \in Lists, NEW q \in Queries, NEW requests \in SUBSET Loads,
           Dispatch(l, q, requests), Counters(l) # Counters(list)
    PROVE  /\ list' = l
           /\ loads' \subseteq Loads
           /\ Live' = IF l.pageToLoad > l.loadedPages
                      THEN {[query |-> q, after |-> Len(l.pages), live |-> TRUE]}
                      ELSE {}
<1> DEFINE new == [query |-> q, after |-> Len(l.pages), live |-> TRUE]
           news == IF l.pageToLoad > l.loadedPages THEN {new} ELSE {}
<1>1. list' = l /\ loads' = Cancelled(requests) \cup news
  BY DEF Dispatch, Counters
<1>2. /\ Cancelled(requests) \subseteq Loads
      /\ \A r \in Cancelled(requests) : ~r.live
  BY DEF Cancelled, Loads
<1>3. new \in Loads /\ new.live
  <2>1. Len(l.pages) \in Nat
    BY DEF Lists
  <2>2. QED
    BY <2>1 DEF Loads
<1>4. Live' = news
  BY <1>1, <1>2, <1>3 DEF Live
<1>5. QED
  BY <1>1, <1>2, <1>3, <1>4

(* The list is emptied for a query, as ResetList does. *)
LEMMA EmptiedFits ==
    ASSUME ListPart, NEW q \in Queries, query' = q, NEW l \in {NoList, Reloaded},
           Dispatch(l, q, loads)
    PROVE  ListPart'
<1>1. /\ l \in Lists /\ l.pages = <<>> /\ l.loadedPages = 0
      /\ l.pageToLoad \in {0, 1}
  BY EmptyLists
<1>2. CASE Counters(l) # Counters(list)
  <2>1. /\ list' = l
        /\ loads' \subseteq Loads
        /\ Live' = IF l.pageToLoad > 0
                   THEN {[query |-> q, after |-> 0, live |-> TRUE]} ELSE {}
    BY <1>1, <1>2, OnlyTheNew DEF ListPart
  <2>2. /\ list'.pages = <<>> /\ list'.loadedPages = 0
        /\ list'.pageToLoad = l.pageToLoad /\ list' \in Lists
    BY <1>1, <2>1
  <2>3. /\ \A r \in Live' : r.after = 0
        /\ \A r, s \in Live' : r = s
        /\ Live' # {} <=> l.pageToLoad > 0
    <3>1. CASE l.pageToLoad > 0
      <4> DEFINE r0 == [query |-> q, after |-> 0, live |-> TRUE]
      <4>1. Live' = {r0} /\ r0.after = 0
        BY <2>1, <3>1
      <4> HIDE DEF r0
      <4>2. QED
        BY <3>1, <4>1
    <3>2. CASE ~(l.pageToLoad > 0)
      <4>1. Live' = {}
        BY <2>1, <3>2
      <4>2. QED
        BY <3>2, <4>1
    <3>3. QED
      BY <3>1, <3>2
  <2>4. CountersFit' /\ OneLoad'
    BY <1>1, <2>2, <2>3 DEF CountersFit, OneLoad, PendingLoad
  <2>5. PagesInOrder' /\ LaterPagesMatch'
    BY <2>2, <2>3 DEF PagesInOrder, LaterPagesMatch
  <2>6. QED
    BY <2>1, <2>2, <2>4, <2>5 DEF ListPart
<1>3. CASE Counters(l) = Counters(list)
  <2>1. list' = l /\ loads' = loads /\ Live' = Live
    BY <1>3 DEF Dispatch, Counters, Live
  <2>2. list.loadedPages = 0 /\ list.pageToLoad = l.pageToLoad
    BY <1>1, <1>3 DEF Counters
  <2>3. Len(list.pages) = 0
    BY <2>2 DEF ListPart, CountersFit, Lists
  <2>4. \A r \in Live : r.after = 0
    BY <2>3 DEF ListPart, PagesInOrder
  <2>5. QED
    BY <1>1, <2>1, <2>2, <2>4
    DEF ListPart, CountersFit, OneLoad, PagesInOrder, LaterPagesMatch, PendingLoad
<1>4. QED
  BY <1>2, <1>3

(* A cancelled request is forgotten. *)
LEMMA ForgottenFits ==
    ASSUME ListPart, NEW r \in loads, ~r.live, loads' = loads \ {r},
           UNCHANGED <<query, list>>
    PROVE  ListPart'
<1>1. Live' = Live
  BY DEF Live
<1>2. QED
  BY <1>1 DEF ListPart, CountersFit, OneLoad, PagesInOrder, LaterPagesMatch, PendingLoad

(* The live request ends: the list has loaded a page more, and nothing is live. *)
LEMMA EndedFits ==
    ASSUME ListPart, NEW r \in loads, r.live, query' = query, NEW l \in Lists,
           l.pageToLoad = list.pageToLoad, l.loadedPages = list.loadedPages + 1,
           l.pages \in {list.pages, Append(list.pages, [query |-> r.query, after |-> r.after])},
           Dispatch(l, query, loads \ {r})
    PROVE  ListPart'
<1> DEFINE p == [query |-> r.query, after |-> r.after]
           n == Len(list.pages)
<1>1. r \in Live /\ list \in Lists /\ list.pages \in Seq(Page) /\ n \in Nat
  BY DEF Live, ListPart, Lists
<1>2. list.pageToLoad \in Nat /\ list.loadedPages \in Nat
  BY <1>1 DEF Lists
<1>3. list.pageToLoad = list.loadedPages + 1
  BY <1>1, <1>2 DEF ListPart, OneLoad, PendingLoad, CountersFit
<1>4. Counters(l) # Counters(list) /\ ~(l.pageToLoad > l.loadedPages)
  BY <1>2, <1>3 DEF Counters
<1>5. list' = l /\ loads' \subseteq Loads /\ Live' = {}
  BY <1>4, OnlyTheNew DEF ListPart
<1>6. r.after = n /\ (r.after > 0 => r.query = query) /\ p \in Page
  BY <1>1 DEF ListPart, PagesInOrder, LaterPagesMatch, Page, Loads
<1>7. CASE l.pages = list.pages
  BY <1>2, <1>3, <1>5, <1>7
  DEF ListPart, CountersFit, OneLoad, PagesInOrder, LaterPagesMatch, PendingLoad
<1>8. CASE l.pages = Append(list.pages, p)
  <2>1. /\ Len(l.pages) = n + 1
        /\ \A k \in 1..n : l.pages[k] = list.pages[k]
        /\ l.pages[n + 1] = p
    BY <1>1, <1>6, <1>8
  <2>2. \A k \in 1..(n + 1) : l.pages[k].after = k - 1
    <3>1. \A k \in 1..n : l.pages[k].after = k - 1
      BY <2>1 DEF ListPart, PagesInOrder
    <3>2. l.pages[n + 1].after = (n + 1) - 1
      BY <1>1, <1>6, <2>1
    <3>3. \A k \in 1..(n + 1) : k \in 1..n \/ k = n + 1
      BY <1>1
    <3>4. QED
      BY <3>1, <3>2, <3>3
  <2>3. \A k \in 2..(n + 1) : l.pages[k].query = query
    <3>1. \A k \in 2..n : l.pages[k].query = query
      BY <1>1, <2>1 DEF ListPart, LaterPagesMatch
    <3>2. n > 0 => l.pages[n + 1].query = query
      BY <1>6, <2>1
    <3>3. QED
      BY <1>1, <3>1, <3>2
  <2>4. CountersFit' /\ OneLoad'
    BY <1>1, <1>2, <1>3, <1>5, <2>1 DEF ListPart, CountersFit, OneLoad, PendingLoad
  <2>5. QED
    BY <1>5, <2>1, <2>2, <2>3, <2>4 DEF ListPart, PagesInOrder, LaterPagesMatch
<1>9. QED
  BY <1>7, <1>8

-------------------------------------------------------------------------------
LEMMA ListInitially == ListInit => ListInv
<1> SUFFICES ASSUME ListInit PROVE ListPart /\ ListRestOK
  BY ListInvInParts
<1>1. ListRestOK /\ query \in Queries
  BY DEF ListInit, ListRestOK
<1>2. CASE list = NoList /\ loads = {}
  BY <1>1, <1>2, EmptyLists
  DEF ListPart, CountersFit, OneLoad, PagesInOrder, LaterPagesMatch, PendingLoad, Live
<1>3. CASE list = Reloaded /\ loads = {[query |-> query, after |-> 0, live |-> TRUE]}
  <2>1. Live = loads /\ loads \subseteq Loads
    BY <1>1, <1>3 DEF Live, Loads
  <2>2. QED
    BY <1>1, <1>3, <2>1, EmptyLists
    DEF ListPart, CountersFit, OneLoad, PagesInOrder, LaterPagesMatch, PendingLoad
<1>4. QED
  BY <1>1, <1>2, <1>3 DEF ListInit

LEMMA ListStep == ListInv /\ [ListNext]_listVars => ListInv'
<1> SUFFICES ASSUME ListPart, ListRestOK, [ListNext]_listVars
             PROVE  ListPart' /\ ListRestOK'
  BY DEF ListInv, ListTypeOK, ListPart, ListRestOK, Lists, Loads
<1>1. ASSUME NEW q \in Queries, Search(q)
      PROVE  ListPart' /\ ListRestOK'
  <2>1. ListRestOK'
    BY <1>1 DEF Search, Count, ListRestOK
  <2>2. CASE q = query
    BY <1>1, <2>1, <2>2
    DEF Search, ListPart, CountersFit, OneLoad, PagesInOrder, LaterPagesMatch,
        PendingLoad, Live
  <2>3. CASE q # query
    BY <1>1, <2>1, <2>3, EmptiedFits DEF Search, ResetList
  <2>4. QED
    BY <2>2, <2>3
<1>2. ASSUME UNCHANGED <<query, list, loads>> PROVE ListPart'
  BY <1>2 DEF ListPart, CountersFit, OneLoad, PagesInOrder, LaterPagesMatch,
              PendingLoad, Live
<1>3. CASE ToggleCount
  <2>1. ListRestOK'
    BY <1>3 DEF ToggleCount, Count, ListRestOK, ListPart
  <2>2. QED
    BY <1>2, <1>3, <2>1 DEF ToggleCount
<1>4. CASE LoadMore
  <2>1. /\ list \in Lists /\ Len(list.pages) \in Nat
        /\ list.pageToLoad \in Nat /\ list.loadedPages \in Nat
    BY DEF ListPart, Lists
  <2>2. /\ NextPage \in Lists /\ NextPage.pageToLoad = list.loadedPages + 1
        /\ NextPage.loadedPages = list.loadedPages /\ NextPage.pages = list.pages
    BY <2>1 DEF NextPage, Lists
  <2>3. Counters(NextPage) # Counters(list)
    BY <1>4, <2>1, <2>2 DEF LoadMore, HasMore, PendingLoad, Counters
  <2>4. /\ list' = NextPage
        /\ loads' \subseteq Loads
        /\ Live' = {[query |-> query, after |-> Len(list.pages), live |-> TRUE]}
    BY <1>4, <2>1, <2>2, <2>3, OnlyTheNew DEF LoadMore, ListPart
  <2>5. ListPart'
    BY <1>4, <2>1, <2>2, <2>4
    DEF LoadMore, ListPart, CountersFit, OneLoad, PagesInOrder, LaterPagesMatch,
        PendingLoad
  <2>6. QED
    BY <1>4, <2>5 DEF LoadMore, ListRestOK
<1>5. ASSUME NEW r \in loads, PageArrives(r)
      PROVE  ListPart' /\ ListRestOK'
  <2>1. ListRestOK' /\ query' = query
    BY <1>5 DEF PageArrives, ListRestOK
  <2>2. CASE ~r.live
    BY <1>5, <2>1, <2>2, ForgottenFits DEF PageArrives
  <2>3. CASE r.live
    <3> DEFINE p == [query |-> r.query, after |-> r.after]
    <3>1. PICK more \in BOOLEAN : Dispatch(PageLoaded(p, more), query, loads \ {r})
      BY <1>5, <2>3 DEF PageArrives
    <3>2. list \in Lists /\ p \in Page
      BY DEF ListPart, Loads, Page
    <3>3. Append(list.pages, p) \in Seq(Page) /\ list.loadedPages + 1 \in Nat
      BY <3>2 DEF Lists
    <3> DEFINE l == PageLoaded(p, more)
    <3>4. /\ l \in Lists /\ l.pageToLoad = list.pageToLoad
          /\ l.loadedPages = list.loadedPages + 1
          /\ l.pages \in {list.pages, Append(list.pages, p)}
      <4>1. CASE more
        BY <3>2, <3>3, <4>1 DEF PageLoaded, Lists
      <4>2. CASE ~more
        BY <3>2, <3>3, <4>2 DEF PageLoaded, Lists
      <4>3. QED
        BY <4>1, <4>2
    <3> HIDE DEF l
    <3>5. ListPart'
      BY <2>1, <2>3, <3>1, <3>4, EndedFits DEF l
    <3>6. QED
      BY <2>1, <3>5
  <2>4. QED
    BY <2>2, <2>3
<1>6. ASSUME NEW r \in loads, PageFails(r)
      PROVE  ListPart' /\ ListRestOK'
  <2>1. ListRestOK' /\ query' = query
    BY <1>6 DEF PageFails, ListRestOK, ListPart, Loads
  <2>2. CASE ~r.live
    BY <1>6, <2>1, <2>2, ForgottenFits DEF PageFails
  <2>3. CASE r.live
    <3>1. list \in Lists /\ list.loadedPages + 1 \in Nat
      BY DEF ListPart, Lists
    <3>2. /\ LoadFailed \in Lists /\ LoadFailed.pageToLoad = list.pageToLoad
          /\ LoadFailed.loadedPages = list.loadedPages + 1
          /\ LoadFailed.pages = list.pages
      BY <3>1 DEF LoadFailed, Lists
    <3>3. ListPart'
      BY <1>6, <2>1, <2>3, <3>2, EndedFits DEF PageFails
    <3>4. QED
      BY <2>1, <3>3
  <2>4. QED
    BY <2>2, <2>3
<1>7. ASSUME NEW q \in counts, CountArrives(q) \/ CountFails(q)
      PROVE  ListPart' /\ ListRestOK'
  BY <1>2, <1>7 DEF CountArrives, CountFails, ListRestOK
<1>8. CASE UNCHANGED listVars
  BY <1>2, <1>8 DEF listVars, ListRestOK
<1>9. QED
  BY <1>1, <1>3, <1>4, <1>5, <1>6, <1>7, <1>8 DEF ListNext, Reply

-------------------------------------------------------------------------------
(* "Loading..." stands for one live request; no page is missing between two others and
   none is there twice; only the first page may be of a former query.             *)
THEOREM PagesFollow == ListSpec => []PagesOfTheQuery
<1>1. ListInv => PagesOfTheQuery
  BY DEF ListInv, PagesOfTheQuery
<1>2. QED
  BY <1>1, ListInitially, ListStep, PTL DEF ListSpec

-------------------------------------------------------------------------------
Valid == {c \in calls : c.valid}

(* OneValidCall without a cardinality. *)
ValidIsTheTexts ==
    /\ \A c, d \in Valid : c = d
    /\ \A c \in Valid : c.text = text
    /\ loading <=> Valid # {}

SuggestInv == SuggestTypeOK /\ ValidIsTheTexts /\ OfferedForThisText

-------------------------------------------------------------------------------
LEMMA SingleIsOne ==
    ASSUME NEW S, \A c, d \in S : c = d
    PROVE  Cardinality(S) =< 1
<1>1. CASE S = {}
  BY <1>1, FS_EmptySet
<1>2. CASE S # {}
  <2>1. PICK c : c \in S
    BY <1>2
  <2>2. S = {c}
    BY <2>1
  <2>3. Cardinality({c}) = 1
    BY FS_Singleton
  <2>4. QED
    BY <2>2, <2>3
<1>3. QED
  BY <1>1, <1>2

LEMMA ValidFits == ValidIsTheTexts => OneValidCall
BY SingleIsOne DEF ValidIsTheTexts, OneValidCall, Valid

LEMMA SuggestInitially == SuggestInit => SuggestInv
BY DEF SuggestInit, SuggestInv, SuggestTypeOK, ValidIsTheTexts, Valid,
       OfferedForThisText, Texts, PromiseStates

LEMMA SuggestStep == SuggestInv /\ [SuggestNext]_suggestVars => SuggestInv'
<1> SUFFICES ASSUME SuggestInv, [SuggestNext]_suggestVars PROVE SuggestInv'
  OBVIOUS
<1> USE DEF SuggestInv
<1>0. /\ GivenUp \subseteq [text : Texts, valid : BOOLEAN]
      /\ \A c \in GivenUp : ~c.valid
  BY DEF GivenUp, SuggestTypeOK
<1>1. ASSUME NEW t \in Texts \ {text}, text' = t, Look(t)
      PROVE  SuggestInv'
  <2>1. CASE t \in AttributeTexts /\ definitions # "resolved"
    <3>1. /\ calls' = GivenUp \cup {Wait(t)}
          /\ loading' = TRUE
          /\ suggestions' = suggestions
          /\ definitions' \in {"pending", definitions}
      BY <1>1, <2>1 DEF Look, Spinner
    <3>2. Valid' = {Wait(t)}
      BY <1>0, <3>1 DEF Valid, Wait
    <3>3. ValidIsTheTexts' /\ OfferedForThisText'
      BY <1>1, <3>1, <3>2 DEF ValidIsTheTexts, OfferedForThisText, Wait
    <3>4. SuggestTypeOK'
      <4>1. Wait(t) \in [text : Texts, valid : BOOLEAN]
        BY DEF Wait
      <4>2. calls' \subseteq [text : Texts, valid : BOOLEAN]
        BY <1>0, <3>1, <4>1
      <4>3. definitions' \in PromiseStates
        BY <3>1 DEF SuggestTypeOK, PromiseStates
      <4>4. QED
        BY <1>1, <3>1, <4>2, <4>3 DEF SuggestTypeOK
    <3>5. QED
      BY <3>3, <3>4
  <2>2. CASE ~(t \in AttributeTexts /\ definitions # "resolved")
    <3>1. /\ calls' = GivenUp
          /\ suggestions' = t
          /\ loading' = FALSE
          /\ definitions' = definitions
      BY <1>1, <2>2 DEF Look
    <3>2. Valid' = {}
      BY <1>0, <3>1 DEF Valid
    <3>3. QED
      BY <1>0, <1>1, <3>1, <3>2
      DEF SuggestTypeOK, ValidIsTheTexts, OfferedForThisText
  <2>3. QED
    BY <2>1, <2>2
<1>2. CASE Resolve
  <2>1. Valid' = {}
    BY <1>2 DEF Resolve, Valid
  <2>2. CASE \E c \in calls : c.valid /\ suggestions' = c.text /\ loading' = FALSE
    <3>1. suggestions' = text /\ loading' = FALSE
      BY <2>2 DEF ValidIsTheTexts, Valid
    <3>2. QED
      BY <1>2, <2>1, <3>1
      DEF Resolve, SuggestTypeOK, ValidIsTheTexts, OfferedForThisText, PromiseStates
  <2>3. CASE (~ \E c \in calls : c.valid) /\ UNCHANGED <<suggestions, loading>>
    <3>1. loading = FALSE
      BY <2>3 DEF ValidIsTheTexts, Valid, SuggestTypeOK
    <3>2. QED
      BY <1>2, <2>1, <2>3, <3>1
      DEF Resolve, SuggestTypeOK, ValidIsTheTexts, OfferedForThisText, PromiseStates
  <2>4. QED
    BY <1>2, <2>2, <2>3 DEF Resolve
<1>3. CASE Lose
  BY <1>3 DEF Lose, SuggestTypeOK, ValidIsTheTexts, Valid, OfferedForThisText,
              PromiseStates
<1>4. CASE UNCHANGED suggestVars
  BY <1>4 DEF suggestVars, SuggestTypeOK, ValidIsTheTexts, Valid, OfferedForThisText
<1>5. QED
  BY <1>1, <1>2, <1>3, <1>4 DEF SuggestNext, Type

-------------------------------------------------------------------------------
(* One call at most may show what it has found: that of the text in the bar, while
   the spinner turns.                                                             *)
THEOREM OneCallIsValid == SuggestSpec => []OneValidCall
<1>1. SuggestInv => OneValidCall
  BY ValidFits DEF SuggestInv
<1>2. QED
  BY <1>1, SuggestInitially, SuggestStep, PTL DEF SuggestSpec

(* The suggestions implement LatestAnswer: a text whose attributes are looked up is
   asked for, any other is asked for and answered in one step, and the answers of
   calls that were given up leave no trace.                                       *)
THEOREM LatestSuggestions == SuggestSpec => SuggestionsAreLatest
<1>1. SuggestInit => Abstract!AnswerInit
  BY DEF SuggestInit, Abstract!AnswerInit, Texts
<1>2. SuggestInv /\ [SuggestNext]_suggestVars
         => [Abstract!AnswerNext]_Abstract!answerVars
  <2> SUFFICES ASSUME SuggestInv, [SuggestNext]_suggestVars
               PROVE  [Abstract!AnswerNext]_Abstract!answerVars
    OBVIOUS
  <2> USE DEF Abstract!AnswerNext, Abstract!answerVars
  <2>1. ASSUME NEW t \in Texts \ {text}, text' = t, Look(t)
        PROVE  Abstract!AnswerNext
    <3>1. CASE t \in AttributeTexts /\ definitions # "resolved"
      <4>1. text' \in Texts /\ loading' = TRUE /\ suggestions' = suggestions
        BY <2>1, <3>1 DEF Look, Spinner
      <4>2. QED
        BY <4>1 DEF Abstract!Ask
    <3>2. CASE ~(t \in AttributeTexts /\ definitions # "resolved")
      <4>1. text' \in Texts /\ loading' = FALSE /\ suggestions' = text'
        BY <2>1, <3>2 DEF Look
      <4>2. QED
        BY <4>1 DEF Abstract!AskAndAnswer
    <3>3. QED
      BY <3>1, <3>2
  <2>2. CASE Resolve
    <3>1. CASE \E c \in calls : c.valid /\ suggestions' = c.text /\ loading' = FALSE
      <4>1. loading /\ loading' = FALSE /\ suggestions' = text /\ text' = text
        BY <2>2, <3>1 DEF Resolve, SuggestInv, ValidIsTheTexts, Valid
      <4>2. QED
        BY <4>1 DEF Abstract!Answer
    <3>2. CASE UNCHANGED <<suggestions, loading>>
      BY <2>2, <3>2 DEF Resolve
    <3>3. QED
      BY <2>2, <3>1, <3>2 DEF Resolve
  <2>3. CASE Lose \/ UNCHANGED suggestVars
    BY <2>3 DEF Lose, suggestVars
  <2>4. QED
    BY <2>1, <2>2, <2>3 DEF SuggestNext, Type
<1>3. QED
  BY <1>1, <1>2, SuggestInitially, SuggestStep, PTL
  DEF SuggestSpec, SuggestionsAreLatest, Abstract!AnswerSpec

-------------------------------------------------------------------------------
(* ObjectData: adding to a bag and taking from it. *)
LEMMA BagAdds ==
    ASSUME NEW B, NEW C, IsABag(B), IsABag(C)
    PROVE  IsABag(B (+) C) /\ DOMAIN (B (+) C) = DOMAIN B \cup DOMAIN C
BY DEF IsABag, (+)

LEMMA BagTakes ==
    ASSUME NEW B, IsABag(B), NEW e
    PROVE  /\ IsABag(B (-) SetToBag({e}))
           /\ DOMAIN (B (-) SetToBag({e})) \subseteq DOMAIN B
           /\ DOMAIN B \ {e} \subseteq DOMAIN (B (-) SetToBag({e}))
BY DEF IsABag, (-), SetToBag

LEMMA SetIsBag ==
    ASSUME NEW S
    PROVE  IsABag(SetToBag(S)) /\ DOMAIN SetToBag(S) = S
BY DEF IsABag, SetToBag

LEMMA NothingInEmpty == DOMAIN EmptyBag = {}
BY DEF EmptyBag, SetToBag

(* What is missing of the object that is looked at is under way: the object itself, or
   the parts that it does not have. *)
Asked(what, o) == [what |-> what, of |-> o] \in DOMAIN pending

Complete ==
    /\ object.id = objectId
    /\ \A b \in Boxes : object.parts[b] = objectId \/ Asked(b, objectId)

MissingIsAsked == ~crossed => Asked("load", objectId) \/ Complete

DataInv ==
    /\ DataTypeOK /\ IsABag(pending)
    /\ object \in [id : Objects \cup {Nobody}, parts : [Boxes -> Objects \cup {Nobody}]]
    /\ object = NoObject <=> object.id = Nobody
    /\ object = NoObject => \A r \in DOMAIN pending : r.what = "load"
    /\ MissingIsAsked

LEMMA DataInitially == DataInit => DataInv
<1> SUFFICES ASSUME DataInit PROVE DataInv
  OBVIOUS
<1> DEFINE first == [what |-> "load", of |-> objectId]
<1>1. pending = SetToBag({first})
  BY DEF DataInit, Request
<1>2. IsABag(pending) /\ DOMAIN pending = {first}
  BY <1>1, SetIsBag
<1>3. first \in DataRequests /\ first.what = "load"
  BY DEF DataInit, DataRequests
<1>4. /\ object \in [id : Objects \cup {Nobody}, parts : [Boxes -> Objects \cup {Nobody}]]
      /\ object.id = Nobody /\ object = NoObject
  BY DEF DataInit, NoObject
<1>5. Asked("load", objectId)
  BY <1>2 DEF Asked
<1> HIDE DEF first
<1>6. DataTypeOK
  <2>1. BagToSet(pending) \subseteq DataRequests
    BY <1>2, <1>3 DEF BagToSet
  <2>2. object.id \in Objects \cup {Nobody} /\ object.parts \in [Boxes -> Objects \cup {Nobody}]
    BY <1>4
  <2>3. moves \in 0..MaxMoves
    BY DataAssumption DEF DataInit
  <2>4. QED
    BY <2>1, <2>2, <2>3 DEF DataInit, DataTypeOK
<1>7. QED
  BY <1>2, <1>3, <1>4, <1>5, <1>6 DEF DataInv, MissingIsAsked

(* One more request, for the same object on the page. *)
LEMMA AskKeeps ==
    ASSUME DataInv, NEW what \in Boxes \cup {"load", "update"}, NEW o \in Objects,
           pending' = pending (+) Request(what, o), UNCHANGED object,
           object = NoObject => what = "load",
           objectId' \in Objects, moves' \in 0..MaxMoves, crossed' = crossed,
           objectId' = objectId \/ (what = "load" /\ o = objectId')
    PROVE  DataInv'
<1> DEFINE new == [what |-> what, of |-> o]
<1>1. IsABag(pending)' /\ DOMAIN pending' = DOMAIN pending \cup {new}
  <2>1. IsABag(SetToBag({new})) /\ DOMAIN SetToBag({new}) = {new}
    BY SetIsBag
  <2>2. pending' = pending (+) SetToBag({new}) /\ IsABag(pending)
    BY DEF Request, DataInv
  <2> HIDE DEF new
  <2>3. QED
    BY <2>1, <2>2, BagAdds
<1>2. new \in DataRequests /\ new.what = what
  BY DEF DataRequests
<1>3. what = "load" => Asked("load", o)'
  BY <1>1 DEF Asked
<1> HIDE DEF new
<1>4. DataTypeOK'
  BY <1>1, <1>2 DEF DataInv, DataTypeOK, BagToSet
<1>5. \A b, p : Asked(b, p) => Asked(b, p)'
  BY <1>1 DEF Asked
<1>6. MissingIsAsked'
  <2>1. CASE objectId' = objectId
    BY <1>5, <2>1 DEF DataInv, MissingIsAsked, Complete
  <2>2. CASE what = "load" /\ o = objectId'
    BY <1>3, <2>2 DEF MissingIsAsked
  <2>3. QED
    BY <2>1, <2>2
<1>7. QED
  BY <1>1, <1>2, <1>4, <1>6 DEF DataInv

LEMMA DataStep == DataInv /\ [DataNext]_dataVars => DataInv'
<1> SUFFICES ASSUME DataInv, [DataNext]_dataVars PROVE DataInv'
  OBVIOUS
<1>1. ASSUME NEW o \in Objects, GoTo(o) PROVE DataInv'
  <2>1. moves' \in 0..MaxMoves
    BY <1>1, DataAssumption DEF GoTo, DataInv, DataTypeOK
  <2>2. QED
    BY <1>1, <2>1, AskKeeps DEF GoTo
<1>2. CASE UpdateObject
  BY <1>2, AskKeeps DEF UpdateObject, DataInv, DataTypeOK
<1>3. CASE PollAnalyses
  <2>1. object.id \in Objects /\ Polled \in Boxes
    BY <1>3, DataAssumption DEF PollAnalyses, DataInv, DataTypeOK
  <2>2. QED
    BY <1>3, <2>1, AskKeeps DEF PollAnalyses, DataInv, DataTypeOK
<1>4. ASSUME NEW r \in DOMAIN pending, Arrives(r) PROVE DataInv'
  <2> DEFINE rest == pending (-) Request(r.what, r.of)
             lazy == Effects(object')
  <2>1. r \in DataRequests /\ r = [what |-> r.what, of |-> r.of]
    BY DEF DataInv, DataTypeOK, BagToSet, DataRequests
  <2>2. IsABag(rest) /\ DOMAIN rest \subseteq DOMAIN pending
        /\ DOMAIN pending \ {r} \subseteq DOMAIN rest
    BY <2>1, BagTakes DEF DataInv, Request
  <2>3. pending' = rest (+) lazy
    BY <1>4 DEF Arrives
  <2>4. /\ IsABag(lazy)
        /\ object'.id = object.id => DOMAIN lazy = {}
        /\ object'.id # object.id => DOMAIN lazy = {[what |-> b, of |-> object'.id] : b \in Boxes}
    BY SetIsBag, NothingInEmpty DEF Effects, Lazy, EmptyBag
  <2> HIDE DEF rest, lazy
  <2>5. IsABag(pending)' /\ DOMAIN pending' = DOMAIN rest \cup DOMAIN lazy
    BY <2>2, <2>3, <2>4, BagAdds
  <2>6. r.what \in Boxes \cup {"load", "update"} /\ r.of \in Objects
    BY <2>1 DEF DataRequests
  <2>7. /\ object' \in [id : Objects \cup {Nobody}, parts : [Boxes -> Objects \cup {Nobody}]]
        /\ object'.id \in Objects
        /\ r.what \in {"load", "update"} => object'.id = r.of
        /\ r.what \in Boxes => object'.id = object.id
    <3>1. CASE r.what = "load"
      BY <1>4, <2>6, <3>1, DataAssumption DEF Arrives, ObjectLoad
    <3>2. CASE r.what # "load"
      <4>1. object' = ObjectMerge(r) /\ object # NoObject
        BY <1>4, <3>2 DEF Arrives, DataInv
      <4>2. object.id \in Objects
        BY <4>1 DEF DataInv
      <4>3. CASE r.what = "update"
        BY <2>6, <4>1, <4>2, <4>3, DataAssumption DEF DataInv, ObjectMerge
      <4>4. CASE r.what \in Boxes
        <5>1. object' = [object EXCEPT !.parts[r.what] = r.of]
          BY <4>1, <4>4, DataAssumption DEF ObjectMerge
        <5>2. QED
          BY <2>6, <4>2, <4>4, <5>1, DataAssumption DEF DataInv
      <4>5. QED
        BY <2>6, <3>2, <4>3, <4>4
    <3>3. QED
      BY <3>1, <3>2
  <2>8. object'.id # Nobody /\ object' # NoObject
    BY <2>7, DataAssumption DEF NoObject
  <2>9. \A q \in DOMAIN lazy : q \in DataRequests
    BY <2>4, <2>7 DEF DataRequests
  <2>10. crossed' \in BOOLEAN /\ UNCHANGED <<objectId, moves>>
    BY <1>4 DEF Arrives, DataInv, DataTypeOK
  <2>11. DataTypeOK'
    <3>1. BagToSet(pending)' \subseteq DataRequests
      BY <2>2, <2>5, <2>9 DEF DataInv, DataTypeOK, BagToSet
    <3>2. QED
      BY <2>7, <2>10, <3>1 DEF DataInv, DataTypeOK
  <2>12. ASSUME NEW b, NEW o, [what |-> b, of |-> o] \in DOMAIN pending, b # r.what
         PROVE  [what |-> b, of |-> o] \in DOMAIN pending'
    <3>1. [what |-> b, of |-> o] # r
      BY <2>12
    <3>2. QED
      BY <2>2, <2>5, <2>12, <3>1
  <2>13. object'.id # object.id =>
            \A b \in Boxes : [what |-> b, of |-> object'.id] \in DOMAIN pending'
    BY <2>4, <2>5
  <2>14. MissingIsAsked'
    <3> SUFFICES ASSUME ~crossed' PROVE Asked("load", objectId)' \/ Complete'
      BY DEF MissingIsAsked
    <3>1. CASE r.what = "load"
      <4>1. r.of = objectId /\ object'.id = objectId /\ object'.id # object.id
        BY <1>4, <2>7, <3>1 DEF Arrives
      <4>2. \A b \in Boxes : Asked(b, objectId)'
        BY <2>10, <2>13, <4>1 DEF Asked
      <4>3. QED
        BY <2>10, <4>1, <4>2 DEF Complete
    <3>2. CASE r.what # "load"
      <4>1. ~crossed /\ r.of = objectId
        BY <1>4, <3>2 DEF Arrives
      <4>2. CASE Asked("load", objectId)
        BY <2>10, <2>12, <3>2, <4>2 DEF Asked
      <4>3. CASE Complete
        <5>1. object.id = objectId /\ object'.id = objectId
          BY <2>6, <2>7, <3>2, <4>1, <4>3 DEF Complete
        <5>2. ASSUME NEW b \in Boxes, b # r.what
              PROVE  object'.parts[b] = object.parts[b]
          BY <1>4, <2>6, <3>2, <5>2 DEF Arrives, ObjectMerge, DataInv
        <5>3. r.what \in Boxes => object'.parts[r.what] = objectId
          BY <1>4, <3>2, <4>1, DataAssumption DEF Arrives, ObjectMerge, DataInv
        <5>4. ASSUME NEW b \in Boxes
              PROVE  object'.parts[b] = objectId \/ Asked(b, objectId)'
          <6>1. Asked(b, objectId) /\ b # r.what => Asked(b, objectId)'
            BY <2>10, <2>12 DEF Asked
          <6>2. QED
            BY <4>3, <5>2, <5>3, <6>1 DEF Complete
        <5>5. QED
          BY <2>10, <5>1, <5>4 DEF Complete
      <4>4. QED
        BY <4>1, <4>2, <4>3 DEF DataInv, MissingIsAsked
    <3>3. QED
      BY <3>1, <3>2
  <2>15. QED
    BY <2>5, <2>7, <2>8, <2>11, <2>14 DEF DataInv
<1>5. ASSUME NEW r \in DOMAIN pending, Fails(r) PROVE DataInv'
  <2>1. r \in DataRequests /\ r = [what |-> r.what, of |-> r.of]
    BY DEF DataInv, DataTypeOK, BagToSet, DataRequests
  <2>2. IsABag(pending)' /\ DOMAIN pending' \subseteq DOMAIN pending
    BY <1>5, <2>1, BagTakes DEF Fails, DataInv, Request
  <2>3. crossed' = TRUE /\ UNCHANGED <<objectId, object, moves>>
    BY <1>5 DEF Fails
  <2>4. DataTypeOK'
    BY <2>2, <2>3 DEF DataInv, DataTypeOK, BagToSet
  <2>5. QED
    BY <2>2, <2>3, <2>4 DEF DataInv, MissingIsAsked
<1>6. CASE UNCHANGED dataVars
  BY <1>6 DEF dataVars, DataInv, DataTypeOK, MissingIsAsked, Complete, Asked
<1>7. QED
  BY <1>1, <1>2, <1>3, <1>4, <1>5, <1>6 DEF DataNext, BagToSet

(* A page that has got all its answers shows its object with all of its parts; when an
   answer has crossed the user's way, for now it may not.                         *)
THEOREM PageGetsAll == DataSpec => []NothingMissing
<1>1. DataInv => NothingMissing
  BY NothingInEmpty DEF DataInv, MissingIsAsked, Complete, Asked, NothingMissing
<1>2. QED
  BY <1>1, DataInitially, DataStep, PTL DEF DataSpec

-------------------------------------------------------------------------------
(* PageFetches: the requests of the last run of the effect ask for what is to be shown;
   until they are answered nothing is overdue; and a view with a flag has no others. *)
Fetches == [of : Looked, full : BOOLEAN, step : Nat, turn : Nat]

LastAsksForIt ==
    \A r \in sent : r.turn = turn => r.of = looked /\ r.full = full

NothingOverdue ==
    ~outrun => (\E r \in sent : r.turn = turn) \/ (got.of = looked /\ got.full = full)

OnlyTheLast == view.guarded => \A r \in sent : r.turn = turn

FetchesInv ==
    /\ FetchesTypeOK
    /\ LastAsksForIt /\ NothingOverdue /\ OnlyTheLast

LEMMA ViewSteps ==
    ASSUME NEW v \in KeyedViews \cup SingleViews
    PROVE  v.steps \in Nat \ {0}
BY DEF KeyedViews, SingleViews, Entry, NormalizedCodeTab, DiffTextBlobView, SamplePreview,
       ConfigStatsView, ProfileView, ProfileGroup, ProfileGroups, ProfileGroupMembers,
       SettingsOverviewView, OAuthListProvidersView, QuickQuery

(* The effect has run: its request is the only one of the last run. *)
LEMMA RunKeeps ==
    ASSUME FetchesInv, turn < MaxTurns, NEW s \in Looked, NEW f \in BOOLEAN, Run(s, f),
           view' = view, looked' = s, full' = f, UNCHANGED <<got, outrun>>
    PROVE  FetchesInv'
<1> DEFINE new == [of |-> s, full |-> f, step |-> 1, turn |-> turn + 1]
           old == IF view.guarded THEN {} ELSE sent
<1> USE FetchesAssumption
<1>1. turn \in Nat /\ view.steps \in Nat \ {0} /\ turn + 1 \in 0..MaxTurns
  BY ViewSteps DEF FetchesInv, FetchesTypeOK
<1>2. new \in [of : Looked, full : BOOLEAN, step : 1..view.steps, turn : 0..(turn + 1)]
  BY <1>1
<1>3. \A r \in old : /\ r \in [of : Looked, full : BOOLEAN, step : 1..view.steps,
                               turn : 0..(turn + 1)]
                     /\ r.turn # turn + 1
  <2>1. \A r \in sent : r \in [of : Looked, full : BOOLEAN, step : 1..view.steps,
                               turn : 0..turn]
    BY DEF FetchesInv, FetchesTypeOK
  <2>2. QED
    BY <1>1, <2>1
<1>4. sent' = old \cup {new} /\ turn' = turn + 1
  BY DEF Run
<1>5. new.of = s /\ new.full = f /\ new.turn = turn + 1
  OBVIOUS
<1>6. view.guarded => old = {}
  OBVIOUS
<1> HIDE DEF new, old
<1>7. FetchesTypeOK'
  BY <1>1, <1>2, <1>3, <1>4 DEF FetchesInv, FetchesTypeOK
<1>8. LastAsksForIt' /\ NothingOverdue' /\ OnlyTheLast'
  BY <1>3, <1>4, <1>5, <1>6 DEF LastAsksForIt, NothingOverdue, OnlyTheLast
<1>9. QED
  BY <1>7, <1>8 DEF FetchesInv

LEMMA FetchesInitially == FetchesInit => FetchesInv
<1> SUFFICES ASSUME FetchesInit PROVE FetchesInv
  OBVIOUS
<1> DEFINE first == [of |-> looked, full |-> FALSE, step |-> 1, turn |-> 0]
<1>1. view.steps \in Nat \ {0} /\ 0 \in 0..MaxTurns
  BY ViewSteps, FetchesAssumption DEF FetchesInit
<1>2. /\ first \in [of : Looked, full : BOOLEAN, step : 1..view.steps, turn : 0..0]
      /\ first.of = looked /\ first.full = FALSE /\ first.turn = 0
  BY <1>1 DEF FetchesInit
<1>3. sent = {first}
  BY DEF FetchesInit
<1> HIDE DEF first
<1>4. FetchesTypeOK
  BY <1>1, <1>2, <1>3 DEF FetchesInit, FetchesTypeOK, NothingYet
<1>5. QED
  BY <1>2, <1>3, <1>4 DEF FetchesInit, FetchesInv, LastAsksForIt, NothingOverdue, OnlyTheLast

LEMMA FetchesStep == FetchesInv /\ [FetchesNext]_fetchVars => FetchesInv'
<1> SUFFICES ASSUME FetchesInv, [FetchesNext]_fetchVars PROVE FetchesInv'
  OBVIOUS
<1>1. ASSUME NEW s \in Looked, LookAt(s) PROVE FetchesInv'
  BY <1>1, RunKeeps DEF LookAt, FetchesInv, FetchesTypeOK
<1>2. CASE LoadAll
  BY <1>2, RunKeeps DEF LoadAll, FetchesInv, FetchesTypeOK
<1>3. ASSUME NEW r \in sent, Answers(r) PROVE FetchesInv'
  <2>1. /\ r \in [of : Looked, full : BOOLEAN, step : 1..view.steps, turn : 0..turn]
        /\ view.steps \in Nat \ {0}
    BY ViewSteps DEF FetchesInv, FetchesTypeOK
  <2>2. CASE r.step < view.steps
    <3> DEFINE next == [r EXCEPT !.step = @ + 1]
    <3>1. /\ next \in [of : Looked, full : BOOLEAN, step : 1..view.steps, turn : 0..turn]
          /\ next.turn = r.turn /\ next.of = r.of /\ next.full = r.full
      BY <2>1, <2>2
    <3>2. sent' = (sent \ {r}) \cup {next} /\ UNCHANGED <<view, looked, full, turn, got, outrun>>
      BY <1>3, <2>2 DEF Answers, Step
    <3> HIDE DEF next
    <3>3. FetchesTypeOK'
      BY <3>1, <3>2 DEF FetchesInv, FetchesTypeOK
    <3>4. QED
      BY <3>1, <3>2, <3>3 DEF FetchesInv, LastAsksForIt, NothingOverdue, OnlyTheLast
  <2>3. CASE ~(r.step < view.steps)
    <3>1. /\ sent' = sent \ {r} /\ UNCHANGED <<view, looked, full, turn>>
          /\ got' = [of |-> r.of, full |-> r.full]
          /\ outrun' = (r.turn # turn)
      BY <1>3, <2>3 DEF Answers, Step
    <3>2. FetchesTypeOK'
      BY <2>1, <3>1 DEF FetchesInv, FetchesTypeOK
    <3>3. QED
      BY <3>1, <3>2 DEF FetchesInv, LastAsksForIt, NothingOverdue, OnlyTheLast
  <2>4. QED
    BY <2>2, <2>3
<1>4. ASSUME NEW r \in sent, Breaks(r) PROVE FetchesInv'
  <2>1. FetchesTypeOK'
    BY <1>4 DEF Breaks, FetchesInv, FetchesTypeOK, NothingYet
  <2>2. QED
    BY <1>4, <2>1 DEF Breaks, FetchesInv, LastAsksForIt, NothingOverdue, OnlyTheLast
<1>5. CASE UNCHANGED fetchVars
  BY <1>5 DEF fetchVars, FetchesInv, FetchesTypeOK, LastAsksForIt, NothingOverdue, OnlyTheLast
<1>6. QED
  BY <1>1, <1>2, <1>3, <1>4, <1>5 DEF FetchesNext

(* What a view of the pages of objects shows is of its subject and all that was asked
   for, once everything is answered in the order it was asked in.                 *)
THEOREM ViewsSettle == FetchesSpec => []SettledOnSubject
<1>1. FetchesInv => SettledOnSubject
  BY DEF FetchesInv, NothingOverdue, SettledOnSubject
<1>2. QED
  BY <1>1, FetchesInitially, FetchesStep, PTL DEF FetchesSpec

(* The view with the flag never shows an answer for a subject that has been left. *)
THEOREM FlagDropsTheLate == FetchesSpec => LateAnswersDropped
<1>1. FetchesInv /\ [FetchesNext]_fetchVars
        => [view = NormalizedCodeTab /\ got' # got => got'.of = looked]_fetchVars
  <2> SUFFICES ASSUME FetchesInv, FetchesNext, view = NormalizedCodeTab, got' # got
               PROVE  got'.of = looked
    BY DEF fetchVars
  <2>1. view.guarded /\ ~view.leaves
    BY DEF NormalizedCodeTab, Entry
  <2>2. PICK r \in sent : Answers(r)
    BY <2>1 DEF FetchesNext, LookAt, LoadAll, Breaks
  <2>3. r.of = looked
    BY <2>1, <2>2 DEF FetchesInv, OnlyTheLast, LastAsksForIt
  <2>4. QED
    BY <2>2, <2>3 DEF Answers, Step
<1>2. QED
  BY <1>1, FetchesInitially, FetchesStep, PTL DEF FetchesSpec, LateAnswersDropped

-------------------------------------------------------------------------------
(* PluginTabs: what is under way is for the sample and the expression that are shown,
   and the timer only runs for an expression. *)
ForWhatIsShown ==
    /\ runs \subseteq {sample}
    /\ evals \subseteq {<<sample, regex>>}
    /\ timer => regex # Empty

TabsInv == TabsTypeOK /\ ForWhatIsShown /\ MatchesOfInput

LEMMA TabsInitially == TabsInit => TabsInv
<1> SUFFICES ASSUME TabsInit PROVE TabsInv
  OBVIOUS
<1>1. TabsTypeOK
  BY DEF TabsInit, TabsTypeOK, Idle
<1>2. QED
  BY <1>1 DEF TabsInit, TabsInv, ForWhatIsShown, MatchesOfInput

(* The evaluation of before is aborted; another waits for the timer, unless there is
   nothing to evaluate.                                                           *)
LEMMA EvaluateKeeps ==
    ASSUME TabsInv, NEW x \in Typed, Evaluate(x), regex' = x, sample' \in Samples,
           drafts' \in [Samples -> Typed], runs' \subseteq {sample'},
           UNCHANGED shownRun, left' \in BOOLEAN
    PROVE  TabsInv'
<1>1. /\ evals' = {} /\ inFlight' = FALSE /\ timer' = (x # Empty)
      /\ result' = (IF x = Empty THEN NoResult ELSE result)
      /\ UNCHANGED <<lastOk, banner>>
  BY DEF Evaluate, Aborted, TabsInv, TabsTypeOK
<1>2. TabsTypeOK'
  BY <1>1 DEF TabsInv, TabsTypeOK
<1>3. QED
  BY <1>1, <1>2 DEF TabsInv, ForWhatIsShown, MatchesOfInput

LEMMA TabsStep == TabsInv /\ [TabsNext]_tabsVars => TabsInv'
<1> SUFFICES ASSUME TabsInv, [TabsNext]_tabsVars PROVE TabsInv'
  OBVIOUS
<1>0. regex \in Typed /\ drafts \in [Samples -> Typed] /\ sample \in Samples
  BY DEF TabsInv, TabsTypeOK
<1>1. ASSUME NEW s \in Samples, GoToSample(s) PROVE TabsInv'
  <2>1. /\ left' = (left \/ (runs # {} /\ runs' = {})) /\ sample' = s
        /\ drafts' = (IF banner THEN drafts ELSE [drafts EXCEPT ![s] = regex])
        /\ runs' = {} /\ Evaluate(regex) /\ regex' = regex /\ UNCHANGED shownRun
    BY <1>1 DEF GoToSample, Aborted
  <2>2. left' \in BOOLEAN /\ drafts' \in [Samples -> Typed]
    BY <1>0, <2>1 DEF TabsInv, TabsTypeOK
  <2>3. QED
    BY <1>0, <2>1, <2>2, EvaluateKeeps
<1>2. ASSUME NEW x \in Typed, TypeRegex(x) PROVE TabsInv'
  <2>1. /\ UNCHANGED <<sample, runs, shownRun, left>> /\ regex' = x /\ Evaluate(x)
        /\ drafts' \in [Samples -> Typed]
    BY <1>0, <1>2 DEF TypeRegex, deobfVars
  <2>2. QED
    BY <1>0, <2>1, EvaluateKeeps DEF TabsInv, TabsTypeOK, ForWhatIsShown
<1>3. ASSUME NEW s \in Samples, Deobfuscated(s) PROVE TabsInv'
  <2>1. PICK k \in {"done", "unavailable"} : shownRun' = [kind |-> k, of |-> s]
    BY <1>3 DEF Deobfuscated
  <2>2. TabsTypeOK'
    BY <1>3, <2>1 DEF Deobfuscated, regexVars, TabsInv, TabsTypeOK
  <2>3. QED
    BY <1>3, <2>2 DEF Deobfuscated, regexVars, TabsInv, ForWhatIsShown, MatchesOfInput
<1>4. CASE OnRun
  <2>1. TabsTypeOK'
    BY <1>4 DEF OnRun, Aborted, regexVars, TabsInv, TabsTypeOK
  <2>2. QED
    BY <1>4, <2>1
    DEF OnRun, Aborted, regexVars, TabsInv, ForWhatIsShown, MatchesOfInput
<1>5. CASE Debounced
  <2>1. evals' = {<<sample, regex>>} /\ timer' = FALSE /\ inFlight' = TRUE
    BY <1>5 DEF Debounced, Aborted
  <2>2. <<sample, regex>> \in Evals
    BY <1>0, <1>5 DEF Debounced, TabsInv, ForWhatIsShown, Typed, Evals
  <2>3. TabsTypeOK'
    BY <1>5, <2>1, <2>2 DEF Debounced, deobfVars, TabsInv, TabsTypeOK
  <2>4. QED
    BY <1>5, <2>1, <2>3
    DEF Debounced, deobfVars, TabsInv, ForWhatIsShown, MatchesOfInput
<1>6. ASSUME NEW e \in Evals, Evaluated(e) PROVE TabsInv'
  <2>1. e = <<sample, regex>> /\ evals' = {} /\ inFlight' = FALSE
    BY <1>6 DEF Evaluated, TabsInv, ForWhatIsShown
  <2>2. regex # Empty
    BY <2>1, TabsAssumption DEF Evals
  <2>3. TabsTypeOK'
    BY <1>6, <2>1 DEF Evaluated, deobfVars, TabsInv, TabsTypeOK
  <2>4. QED
    BY <1>6, <2>1, <2>2, <2>3
    DEF Evaluated, deobfVars, TabsInv, ForWhatIsShown, MatchesOfInput
<1>7. CASE UNCHANGED tabsVars
  BY <1>7 DEF tabsVars, deobfVars, regexVars, TabsInv, TabsTypeOK, ForWhatIsShown,
              MatchesOfInput
<1>8. QED
  BY <1>1, <1>2, <1>3, <1>4, <1>5, <1>6, <1>7 DEF TabsNext

(* Whenever nothing is under way, the matches are those of the expression that is in
   the input, on the sample that is shown; the spinner turns as long as it is.    *)
THEOREM MatchesSettle == TabsSpec => []MatchesOfInput
<1>1. TabsInv => MatchesOfInput
  BY DEF TabsInv
<1>2. QED
  BY <1>1, TabsInitially, TabsStep, PTL DEF TabsSpec

(* No answer of the deobfuscation lands on another sample than it was asked for. *)
THEOREM AnswersLand == TabsSpec => LandsOnItsSample
<1>1. TabsInv /\ [TabsNext]_tabsVars
        => [shownRun' # shownRun /\ shownRun'.kind # "running"
               => shownRun'.of = sample]_tabsVars
  <2> SUFFICES ASSUME TabsInv, TabsNext, shownRun' # shownRun, shownRun'.kind # "running"
               PROVE  shownRun'.of = sample
    BY DEF tabsVars, deobfVars
  <2>1. PICK s \in Samples : Deobfuscated(s)
    BY DEF TabsNext, GoToSample, TypeRegex, OnRun, Debounced, Evaluated, deobfVars
  <2>2. s = sample /\ shownRun'.of = s
    BY <2>1 DEF Deobfuscated, TabsInv, ForWhatIsShown
  <2>3. QED
    BY <2>2
<1>2. QED
  BY <1>1, TabsInitially, TabsStep, PTL DEF TabsSpec, LandsOnItsSample

-------------------------------------------------------------------------------
(* RemoteViews: what is under way was offered on its page and goes where the api of that
   page sends it; what is read is for the page that is shown. *)
AskedOf(c) ==
    /\ OfferedAt(tried, c.from)
    /\ c.to \in IF tried = "pushObjectRemote" THEN Remotes ELSE {Target(tried, c.from)}
    /\ tried \in ShownReads => c.from = place.at /\ c.of = place.of

RemoteInv ==
    /\ RemoteTypeOK
    /\ \A c \in asks : AskedOf(c)
    /\ ShownOfItsInstance

(* Which functions the names of the api stand for. *)
LEMMA NamesOfTheApi ==
    /\ ShownReads \ NotOfThePage \subseteq Overrides
    /\ "pushObjectRemote" \notin Overrides
BY DEF ShownReads, NotOfThePage, Overrides, ObjectReads, HelpReads, FileReads,
       AnalysisReads, PluginReads

(* Whatever an answer does to an object leaves it a version within the bound. *)
LEMMA HeldStays ==
    ASSUME RemoteInv, NEW c \in asks, Answered(c)
    PROVE  held' \in [Instances -> [Hashes -> 0..MaxChanges]]
<1>1. /\ c.to \in Instances /\ c.of \in Hashes
      /\ held \in [Instances -> [Hashes -> 0..MaxChanges]]
      /\ held[c.to][c.of] \in 0..MaxChanges
  BY DEF RemoteInv, RemoteTypeOK
<1>2. MaxChanges \in Nat \ {0} /\ 0 \in 0..MaxChanges /\ 1 \in 0..MaxChanges
  BY RemotesAssumption
<1>3. ASSUME NEW n \in 0..MaxChanges, held' = [held EXCEPT ![c.to][c.of] = n]
      PROVE  held' \in [Instances -> [Hashes -> 0..MaxChanges]]
  BY <1>1, <1>3
<1>4. CASE Change(c)
  <2> DEFINE n == IF tried = "removeObject" THEN 0 ELSE held[c.to][c.of] + 1
  <2>1. n \in 0..MaxChanges /\ held' = [held EXCEPT ![c.to][c.of] = n]
    BY <1>1, <1>2, <1>4 DEF Change
  <2> HIDE DEF n
  <2>2. QED
    BY <1>3, <2>1
<1>5. CASE Upload(c)
  BY <1>2, <1>3, <1>5 DEF Upload
<1>6. CASE Transfer(c)
  <2> DEFINE n == IF held[c.to][c.of] = 0 THEN 1 ELSE held[c.to][c.of]
  <2>1. n \in 0..MaxChanges /\ held' = [held EXCEPT ![c.to][c.of] = n]
    BY <1>1, <1>2, <1>6 DEF Transfer
  <2> HIDE DEF n
  <2>2. QED
    BY <1>3, <2>1
<1>7. QED
  BY <1>1, <1>4, <1>5, <1>6 DEF Answered, Show, Refused

LEMMA RemoteInitially == RemoteInit => RemoteInv
<1> SUFFICES ASSUME RemoteInit PROVE RemoteInv
  OBVIOUS
<1>1. {0, 1} \subseteq 0..MaxChanges /\ Local \in Instances
  BY RemotesAssumption DEF Instances
<1>2. QED
  BY <1>1 DEF RemoteInit, RemoteInv, RemoteTypeOK, ShownOfItsInstance, Unseen

LEMMA RemoteStep == RemoteInv /\ [RemoteNext]_remoteVars => RemoteInv'
<1> SUFFICES ASSUME RemoteInv, [RemoteNext]_remoteVars PROVE RemoteInv'
  OBVIOUS
<1>1. ASSUME NEW p \in Places, Visit(p) PROVE RemoteInv'
  <2>1. RemoteTypeOK' /\ ShownOfItsInstance'
    BY <1>1 DEF Visit, RemoteInv, RemoteTypeOK, ShownOfItsInstance, Unseen, Instances
  <2>2. \A c \in asks' : AskedOf(c)'
    BY <1>1 DEF Visit, RemoteInv, AskedOf
  <2>3. QED
    BY <2>1, <2>2 DEF RemoteInv
<1>2. CASE Ask
  <2>1. PICK to \in IF tried = "pushObjectRemote" THEN Remotes
                    ELSE {Target(tried, place.at)} :
              asks' = asks \cup {[from |-> place.at, of |-> place.of, to |-> to]}
    BY <1>2 DEF Ask
  <2> DEFINE new == [from |-> place.at, of |-> place.of, to |-> to]
  <2>2. place.at \in Instances /\ place.of \in Hashes /\ to \in Instances
    BY <2>1 DEF RemoteInv, RemoteTypeOK, Places, Target, Instances
  <2>3. /\ new \in [from : Instances, of : Hashes, to : Instances]
        /\ new.from = place.at /\ new.of = place.of /\ new.to = to
    BY <2>2
  <2>4. AskedOf(new)
    BY <1>2, <2>1, <2>3 DEF Ask, AskedOf
  <2>5. asks' = asks \cup {new} /\ UNCHANGED <<tried, place, held, seen>>
    BY <1>2, <2>1 DEF Ask
  <2> HIDE DEF new
  <2>6. \A c \in asks' : AskedOf(c)'
    BY <2>4, <2>5 DEF AskedOf, RemoteInv
  <2>7. QED
    BY <2>3, <2>5, <2>6 DEF RemoteInv, RemoteTypeOK, ShownOfItsInstance
<1>3. ASSUME NEW c \in asks, Answered(c) PROVE RemoteInv'
  <2>1. /\ asks' = asks \ {c} /\ UNCHANGED <<tried, place>>
        /\ seen' = seen \/ (Show(c) /\ seen' = [at |-> c.to, of |-> c.of])
    BY <1>3 DEF Answered, Show, Change, Upload, Transfer, Refused
  <2>2. c.to \in Instances /\ c.of \in Hashes
    BY DEF RemoteInv, RemoteTypeOK
  <2>3. RemoteTypeOK'
    BY <1>3, <2>1, <2>2, HeldStays DEF RemoteInv, RemoteTypeOK
  <2>4. \A d \in asks' : AskedOf(d)'
    BY <2>1 DEF AskedOf, RemoteInv
  <2>5. ASSUME Show(c), seen' = [at |-> c.to, of |-> c.of], tried \notin NotOfThePage
        PROVE  seen' = place
    <3>1. tried \in ShownReads /\ tried \in Overrides
      BY <2>5, NamesOfTheApi DEF Show
    <3>2. tried # "pushObjectRemote"
      BY <3>1, NamesOfTheApi
    <3>3. c.to = place.at /\ c.of = place.of
      BY <3>1, <3>2 DEF RemoteInv, AskedOf, Target
    <3>4. QED
      BY <2>5, <3>3 DEF RemoteInv, RemoteTypeOK, Places
  <2>6. ShownOfItsInstance'
    BY <2>1, <2>5 DEF RemoteInv, ShownOfItsInstance
  <2>7. QED
    BY <2>3, <2>4, <2>6 DEF RemoteInv
<1>4. CASE UNCHANGED remoteVars
  BY <1>4 DEF remoteVars, RemoteInv, RemoteTypeOK, AskedOf, ShownOfItsInstance
<1>5. QED
  BY <1>1, <1>2, <1>3, <1>4 DEF RemoteNext

(* What a page of a remote instance shows is of that instance and of the object of its
   address, whatever the user has asked for on the pages before it; but for the names
   the api of these pages does not replace.                                       *)
THEOREM PagesShowTheirs == RemoteSpec => []ShownOfItsInstance
<1>1. RemoteInv => ShownOfItsInstance
  BY DEF RemoteInv
<1>2. QED
  BY <1>1, RemoteInitially, RemoteStep, PTL DEF RemoteSpec

-------------------------------------------------------------------------------
(* RemoteTransfers: as long as none of them is lost, what a pull has found is here, as
   blobs; and what it embeds has been found or inserted, or is still to be looked up. *)
FoundStays(j) == j.way = "pull" /\ ~j.lost => \A b \in j.found : rows[Home][b] = "blob"
EmbedsKept(j) == InBlobs(j.of) \subseteq j.todo \cup j.found \cup j.made
PushKept(j) == j.way = "push" => j.made = {}

TransferInv ==
    /\ TransferTypeOK
    /\ \A j \in jobs : FoundStays(j) /\ EmbedsKept(j) /\ PushKept(j)

(* What a commit leaves at its instance and at the others. *)
LEMMA Committed ==
    ASSUME TransferTypeOK, NEW i \in Sites, NEW objects, NEW type, NEW blobs,
           Commit(i, objects, type, blobs)
    PROVE  /\ type \in {"none", "file", "blob", "config"}
                 => rows' \in [Sites -> [Stored -> {"none", "file", "blob", "config"}]]
           /\ \A o \in Stored : rows'[i][o] = IF o \in objects THEN type
                                              ELSE IF o \in blobs THEN "blob"
                                              ELSE rows[i][o]
           /\ \A k \in Sites \ {i} : rows'[k] = rows[k]
BY DEF TransferTypeOK, Commit

(* Where only blobs are added, the blobs that were there still are, and no type of an
   object that is not among them changes. *)
LEMMA BlobsStay ==
    ASSUME TransferTypeOK, NEW i \in Sites, NEW objects, NEW type, NEW blobs,
           Commit(i, objects, type, blobs),
           \A o \in objects : o \in Stored /\ Agrees(i, o, type)
    PROVE  \A b \in Stored : rows[Home][b] = "blob" => rows'[Home][b] = "blob"
<1>1. Home \in Sites
  BY DEF Sites
<1>2. CASE i = Home
  BY <1>2, Committed DEF Agrees
<1>3. CASE i # Home
  BY <1>1, <1>3, Committed
<1>4. QED
  BY <1>2, <1>3

LEMMA BlobsOf ==
    \A o \in Stored : InBlobs(o) \subseteq Contents
BY TransfersAssumption DEF InBlobs

LEMMA NewJobFits ==
    ASSUME NEW w \in Workers, NEW way \in {"pull", "push"}, NEW r \in Peers,
           NEW o \in Stored, NEW type \in TypesOf(o)
    PROVE  LET j == NewJob(w, way, r, o, type)
           IN  j \in Jobs /\ FoundStays(j) /\ EmbedsKept(j) /\ PushKept(j)
<1>1. type \in {"file", "blob", "config"}
  BY TransfersAssumption DEF TypesOf, Stored
<1>2. InBlobs(o) \subseteq Contents
  BY BlobsOf
<1>3. QED
  BY <1>1, <1>2 DEF NewJob, Jobs, FoundStays, EmbedsKept, PushKept

LEMMA TransfersInitially == TransferInit => TransferInv
BY DEF TransferInit, TransferInv, TransferTypeOK

(* Jobs that keep their blobs keep the invariant: one has come, ended or moved on. *)
LEMMA JobsStay ==
    ASSUME TransferInv, rows' \in [Sites -> [Stored -> {"none", "file", "blob", "config"}]],
           \A b \in Stored : rows[Home][b] = "blob" => rows'[Home][b] = "blob",
           \A j \in jobs' : \/ j \in jobs
                            \/ j \in Jobs /\ FoundStays(j)' /\ EmbedsKept(j) /\ PushKept(j)
    PROVE  TransferInv'
<1>1. ASSUME NEW j \in jobs PROVE FoundStays(j)' /\ j.found \subseteq Stored
  BY DEF TransferInv, TransferTypeOK, Jobs, FoundStays, Stored
<1>2. QED
  BY <1>1 DEF TransferInv, TransferTypeOK, EmbedsKept, PushKept

LEMMA TransferStep == TransferInv /\ [TransferNext]_transferVars => TransferInv'
<1> SUFFICES ASSUME TransferInv, [TransferNext]_transferVars PROVE TransferInv'
  OBVIOUS
<1> DEFINE RowsOK == rows \in [Sites -> [Stored -> {"none", "file", "blob", "config"}]]
           Kept == \A b \in Stored : rows[Home][b] = "blob" => rows'[Home][b] = "blob"
<1>0. /\ RowsOK /\ TransferTypeOK /\ jobs \subseteq Jobs /\ Home \in Sites
      /\ Peers \subseteq Sites /\ Contents \subseteq Stored
      /\ UNCHANGED rows => RowsOK' /\ Kept
  BY DEF TransferInv, TransferTypeOK, Sites, Stored
<1>1. ASSUME NEW w \in Workers, StartPull(w) \/ StartPush(w) PROVE TransferInv'
  <2>1. PICK way \in {"pull", "push"}, r \in Peers, o \in Stored :
           \E type \in TypesOf(o) : jobs' = jobs \cup {NewJob(w, way, r, o, type)}
    BY <1>1 DEF StartPull, StartPush
  <2>2. PICK type \in TypesOf(o) : jobs' = jobs \cup {NewJob(w, way, r, o, type)}
    BY <2>1
  <2>3. UNCHANGED rows
    BY <1>1 DEF StartPull, StartPush
  <2> DEFINE j == NewJob(w, way, r, o, type)
  <2>4. j \in Jobs /\ FoundStays(j) /\ EmbedsKept(j) /\ PushKept(j)
    BY NewJobFits
  <2> HIDE DEF j
  <2>5. FoundStays(j)'
    BY <2>3, <2>4 DEF FoundStays
  <2>6. QED
    BY <1>0, <2>2, <2>3, <2>4, <2>5, JobsStay DEF j
<1>2. ASSUME NEW j \in jobs, NEW b \in Contents, FindBlob(j, b) PROVE TransferInv'
  <2>1. j \in Jobs /\ FoundStays(j) /\ EmbedsKept(j) /\ PushKept(j)
    BY <1>0 DEF TransferInv
  <2>2. CASE /\ Becomes(j, [j EXCEPT !.todo = @ \ {b}, !.found = @ \cup {b}])
             /\ UNCHANGED rows
    <3> DEFINE k == [j EXCEPT !.todo = @ \ {b}, !.found = @ \cup {b}]
    <3>1. /\ k \in Jobs /\ k.way = j.way /\ k.of = j.of /\ k.lost = j.lost
          /\ k.todo = j.todo \ {b} /\ k.found = j.found \cup {b} /\ k.made = j.made
      BY <2>1 DEF Jobs
    <3> HIDE DEF k
    <3>2. FoundStays(k)' /\ EmbedsKept(k) /\ PushKept(k)
      BY <1>2, <2>1, <2>2, <3>1
         DEF FindBlob, TextBlobAccess, FoundStays, EmbedsKept, PushKept
    <3>3. jobs' = (jobs \ {j}) \cup {k}
      BY <2>2 DEF Becomes, k
    <3>4. QED
      BY <1>0, <2>2, <3>1, <3>2, <3>3, JobsStay
  <2>3. CASE /\ Becomes(j, [j EXCEPT !.todo = @ \ {b}, !.found = @ \cup {b} \cup j.made,
                                     !.made = {}])
             /\ Commit(Home, {}, "blob", j.made)
    <3> DEFINE k == [j EXCEPT !.todo = @ \ {b}, !.found = @ \cup {b} \cup j.made,
                              !.made = {}]
    <3>1. /\ k \in Jobs /\ k.way = j.way /\ k.of = j.of /\ k.lost = j.lost
          /\ k.todo = j.todo \ {b} /\ k.found = j.found \cup {b} \cup j.made
          /\ k.made = {}
      BY <2>1 DEF Jobs
    <3> HIDE DEF k
    <3>2. RowsOK' /\ Kept /\ \A x \in j.made : rows'[Home][x] = "blob"
      <4>1. /\ RowsOK'
            /\ \A o \in Stored : rows'[Home][o] = IF o \in j.made THEN "blob"
                                                  ELSE rows[Home][o]
        BY <1>0, <2>3, Committed
      <4>2. j.made \subseteq Stored
        BY <1>0, <2>1 DEF Jobs
      <4>3. QED
        BY <4>1, <4>2
    <3>3. FoundStays(k)' /\ EmbedsKept(k) /\ PushKept(k)
      <4>1. rows[Home][b] = "blob" /\ b \in Stored /\ j.found \subseteq Stored
        BY <1>0, <1>2, <2>1 DEF FindBlob, TextBlobAccess, Jobs
      <4>2. QED
        BY <2>1, <3>1, <3>2, <4>1 DEF FoundStays, EmbedsKept, PushKept
    <3>4. jobs' = (jobs \ {j}) \cup {k}
      BY <2>3 DEF Becomes, k
    <3>5. QED
      BY <3>1, <3>2, <3>3, <3>4, JobsStay
  <2>4. QED
    BY <1>2, <2>2, <2>3 DEF FindBlob
<1>3. ASSUME NEW j \in jobs, NEW b \in Contents, PullBlob(j, b) \/ ReadBlob(j, b)
      PROVE  TransferInv'
  <2>1. j \in Jobs /\ FoundStays(j) /\ EmbedsKept(j) /\ PushKept(j) /\ UNCHANGED rows
    BY <1>0, <1>3 DEF TransferInv, PullBlob, ReadBlob
  <2> DEFINE f == [j EXCEPT !.todo = @ \ {b}, !.found = @ \cup {b}]
             m == [j EXCEPT !.todo = @ \ {b}, !.made = @ \cup {b}]
  <2>2. /\ f \in Jobs /\ f.way = j.way /\ f.of = j.of /\ f.lost = j.lost
        /\ f.todo = j.todo \ {b} /\ f.found = j.found \cup {b} /\ f.made = j.made
        /\ m \in Jobs /\ m.way = j.way /\ m.of = j.of /\ m.lost = j.lost
        /\ m.todo = j.todo \ {b} /\ m.found = j.found /\ m.made = j.made \cup {b}
    BY <2>1 DEF Jobs
  <2>3. \/ Becomes(j, f) /\ (j.way = "pull" => rows[Home][b] = "blob")
        \/ Becomes(j, m) /\ j.way = "pull"
    BY <1>3 DEF PullBlob, ReadBlob
  <2> HIDE DEF f, m
  <2>4. CASE Becomes(j, f) /\ (j.way = "pull" => rows[Home][b] = "blob")
    <3>1. FoundStays(f)' /\ EmbedsKept(f) /\ PushKept(f)
      BY <2>1, <2>2, <2>4 DEF FoundStays, EmbedsKept, PushKept
    <3>2. QED
      BY <1>0, <2>1, <2>2, <2>4, <3>1, JobsStay DEF Becomes
  <2>5. CASE Becomes(j, m) /\ j.way = "pull"
    <3>1. FoundStays(m)' /\ EmbedsKept(m) /\ PushKept(m)
      BY <2>1, <2>2, <2>5 DEF FoundStays, EmbedsKept, PushKept
    <3>2. QED
      BY <1>0, <2>1, <2>2, <2>5, <3>1, JobsStay DEF Becomes
  <2>6. QED
    BY <2>3, <2>4, <2>5
<1>4. ASSUME NEW j \in jobs, EndPull(j) \/ EndPush(j) PROVE TransferInv'
  <2>1. j \in Jobs
    BY <1>0
  <2>2. PICK i \in Sites, blobs \in SUBSET Contents :
           Commit(i, {j.of}, j.kind, blobs) /\ Agrees(i, j.of, j.kind)
    <3>1. CASE EndPull(j)
      BY <1>0, <2>1, <3>1 DEF EndPull, Jobs
    <3>2. CASE EndPush(j)
      BY <1>0, <2>1, <3>2 DEF EndPush, Jobs
    <3>3. QED
      BY <1>4, <3>1, <3>2
  <2>3. j.of \in Stored /\ j.kind \in {"none", "file", "blob", "config"}
    BY <2>1 DEF Jobs
  <2>4. RowsOK' /\ Kept
    BY <1>0, <2>2, <2>3, Committed, BlobsStay
  <2>5. jobs' = jobs \ {j}
    BY <1>4 DEF EndPull, EndPush
  <2>6. QED
    BY <2>4, <2>5, JobsStay
<1>5. ASSUME NEW j \in jobs, GiveUp(j) PROVE TransferInv'
  BY <1>0, <1>5, JobsStay DEF GiveUp
<1>6. ASSUME NEW i \in Sites, NEW o \in Stored, NEW type \in {"file", "blob", "config"},
             UserUploads(i, o, type)
      PROVE  TransferInv'
  <2>1. /\ Commit(i, {o}, type, InBlobs(o)) /\ Agrees(i, o, type) /\ UNCHANGED jobs
    BY <1>6 DEF UserUploads
  <2>2. RowsOK' /\ Kept
    BY <1>0, <2>1, Committed, BlobsStay
  <2>3. QED
    BY <2>1, <2>2, JobsStay
<1>7. ASSUME NEW i \in Sites, NEW o \in Stored, UserRemoves(i, o) PROVE TransferInv'
  <2> DEFINE After(j) == [j EXCEPT !.lost = @ \/ Loses(j, i, o)]
  <2>1. Commit(i, {o}, "none", {}) /\ jobs' = {After(j) : j \in jobs}
    BY <1>7 DEF UserRemoves
  <2>2. /\ RowsOK'
        /\ \A x \in Stored : rows'[i][x] = IF x = o THEN "none" ELSE rows[i][x]
        /\ \A k \in Sites \ {i} : rows'[k] = rows[k]
    BY <1>0, <2>1, Committed
  <2>3. ASSUME NEW j \in jobs
        PROVE  /\ After(j) \in Jobs /\ FoundStays(After(j))'
               /\ EmbedsKept(After(j)) /\ PushKept(After(j))
    <3>1. j \in Jobs /\ FoundStays(j) /\ EmbedsKept(j) /\ PushKept(j)
      BY <1>0 DEF TransferInv
    <3> DEFINE k == After(j)
    <3>2. k \in Jobs
      BY <3>1 DEF Jobs, Loses
    <3>3. /\ k.way = j.way /\ k.of = j.of /\ k.todo = j.todo
          /\ k.found = j.found /\ k.made = j.made
          /\ ~k.lost => ~j.lost /\ ~Loses(j, i, o)
      BY <3>1 DEF Jobs
    <3>4. j.found \subseteq Stored
      BY <1>0, <3>1 DEF Jobs
    <3> HIDE DEF k
    <3>5. FoundStays(k)'
      <4> SUFFICES ASSUME k.way = "pull", ~k.lost, NEW b \in k.found
                   PROVE  rows'[Home][b] = "blob"
        BY DEF FoundStays
      <4>1. rows[Home][b] = "blob" /\ b \in Stored
        BY <3>1, <3>3, <3>4 DEF FoundStays
      <4>2. i = Home => b # o
        BY <3>3 DEF Loses
      <4>3. QED
        BY <1>0, <2>2, <4>1, <4>2
    <3>6. EmbedsKept(k) /\ PushKept(k)
      BY <3>1, <3>3 DEF EmbedsKept, PushKept
    <3>7. QED
      BY <3>2, <3>5, <3>6 DEF k
  <2> HIDE DEF After
  <2>4. QED
    BY <2>1, <2>2, <2>3 DEF TransferInv, TransferTypeOK, EmbedsKept, PushKept
<1>8. CASE UNCHANGED transferVars
  BY <1>8 DEF transferVars, TransferInv, TransferTypeOK, FoundStays, EmbedsKept, PushKept
<1>9. QED
  BY <1>1, <1>2, <1>3, <1>4, <1>5, <1>6, <1>7, <1>8 DEF TransferNext

(* A config is never at an instance sooner than the blobs it embeds: what a pull has
   looked up one by one is still there when it commits, or the pull fails; for any
   number of instances, objects and requests.                                      *)
THEOREM ConfigsArriveWhole == TransferSpec => ArrivesWhole
<1> DEFINE Whole == \A i \in Sites, c \in Configs :
                       rows[i][c] = "none" /\ rows'[i][c] # "none"
                          => \A b \in Embeds[c] : rows'[i][b] = "blob"
<1>1. TransferInv /\ [TransferNext]_transferVars => [Whole]_transferVars
  <2> SUFFICES ASSUME TransferInv, TransferNext, NEW i \in Sites, NEW c \in Configs,
                      rows[i][c] = "none", rows'[i][c] # "none", NEW b \in Embeds[c]
               PROVE  rows'[i][b] = "blob"
    OBVIOUS
  <2>1. /\ c \in Stored /\ b \in Stored /\ b \in InBlobs(c) /\ c \notin Contents
        /\ b \notin Configs /\ b # c
        /\ TransferTypeOK /\ Home \in Sites /\ Peers \subseteq Sites
    BY TransfersAssumption DEF Stored, InBlobs, TransferInv, Sites
  <2>2. ASSUME NEW k \in Sites, NEW objects, NEW type, NEW blobs,
               Commit(k, objects, type, blobs)
        PROVE  i = k /\ c \in objects \cup blobs
    BY <2>1, <2>2, Committed
  <2>3. ASSUME NEW j \in jobs, NEW x \in Contents, FindBlob(j, x) PROVE FALSE
    <3>1. j.made \subseteq Contents
      BY DEF TransferInv, TransferTypeOK, Jobs
    <3>2. Commit(Home, {}, "blob", j.made)
      BY <2>3 DEF FindBlob
    <3>3. QED
      BY <2>1, <2>2, <3>1, <3>2
  <2>4. ASSUME NEW j \in jobs, EndPull(j) PROVE rows'[i][b] = "blob"
    <3>1. /\ j \in Jobs /\ FoundStays(j) /\ EmbedsKept(j)
          /\ j.todo = {} /\ ~j.lost /\ j.way = "pull"
          /\ Commit(Home, {j.of}, j.kind, j.made)
      BY <2>4 DEF TransferInv, TransferTypeOK, EndPull
    <3>2. i = Home /\ c = j.of
      BY <2>1, <2>2, <3>1 DEF Jobs
    <3>3. b \in j.found \cup j.made
      BY <2>1, <3>1, <3>2 DEF EmbedsKept
    <3>4. b \in j.made \/ rows[Home][b] = "blob"
      BY <3>1, <3>3 DEF FoundStays
    <3>5. rows'[Home][b] = IF b \in {j.of} THEN j.kind
                           ELSE IF b \in j.made THEN "blob" ELSE rows[Home][b]
      BY <2>1, <3>1, Committed
    <3>6. QED
      BY <2>1, <3>2, <3>4, <3>5
  <2>5. ASSUME NEW j \in jobs, EndPush(j) PROVE rows'[i][b] = "blob"
    <3>1. /\ j \in Jobs /\ EmbedsKept(j) /\ PushKept(j) /\ j.at \in Sites
          /\ j.todo = {} /\ j.way = "push"
          /\ Commit(j.at, {j.of}, j.kind, j.found)
      BY <2>1, <2>5 DEF TransferInv, TransferTypeOK, EndPush, Jobs
    <3>2. i = j.at /\ c = j.of
      BY <2>1, <2>2, <3>1 DEF Jobs
    <3>3. b \in j.found
      BY <2>1, <3>1, <3>2 DEF EmbedsKept, PushKept
    <3>4. rows'[i][b] = IF b \in {j.of} THEN j.kind
                        ELSE IF b \in j.found THEN "blob" ELSE rows[i][b]
      BY <2>1, <3>1, <3>2, Committed
    <3>5. QED
      BY <2>1, <3>2, <3>3, <3>4
  <2>6. ASSUME NEW k \in Sites, NEW o \in Stored, NEW type, UserUploads(k, o, type)
        PROVE  rows'[i][b] = "blob"
    <3>1. Commit(k, {o}, type, InBlobs(o)) /\ InBlobs(o) \subseteq Contents
      BY <2>6, BlobsOf DEF UserUploads
    <3>2. i = k /\ c = o
      BY <2>1, <2>2, <3>1
    <3>3. rows'[i][b] = IF b \in {o} THEN type
                        ELSE IF b \in InBlobs(o) THEN "blob" ELSE rows[i][b]
      BY <2>1, <3>1, <3>2, Committed
    <3>4. QED
      BY <2>1, <3>2, <3>3
  <2>7. ASSUME NEW k \in Sites, NEW o \in Stored, UserRemoves(k, o) PROVE FALSE
    <3>1. /\ Commit(k, {o}, "none", {}) /\ i = k /\ c = o
      BY <2>2, <2>7 DEF UserRemoves
    <3>2. QED
      BY <2>1, <3>1, Committed
  <2>8. \/ UNCHANGED rows
        \/ \E j \in jobs : EndPull(j) \/ EndPush(j) \/ \E x \in Contents : FindBlob(j, x)
        \/ \E k \in Sites, o \in Stored :
              UserRemoves(k, o) \/ \E type \in {"file", "blob", "config"} :
                                     UserUploads(k, o, type)
    BY DEF TransferNext, StartPull, StartPush, PullBlob, ReadBlob, GiveUp
  <2>9. QED
    <3>1. CASE UNCHANGED rows
      BY <3>1
    <3>2. CASE \E j \in jobs : EndPull(j) \/ EndPush(j) \/ \E x \in Contents : FindBlob(j, x)
      BY <2>3, <2>4, <2>5, <3>2, Zenon
    <3>3. CASE \E k \in Sites, o \in Stored :
                  UserRemoves(k, o) \/ \E type \in {"file", "blob", "config"} :
                                         UserUploads(k, o, type)
      BY <2>6, <2>7, <3>3, Zenon
    <3>4. QED
      BY <2>8, <3>1, <3>2, <3>3, Zenon
<1>2. QED
  BY <1>1, TransfersInitially, TransferStep, PTL DEF TransferSpec, ArrivesWhole

-------------------------------------------------------------------------------
(* PagedLists: pages and indices. *)
LEMMA TimesMonotone ==
    ASSUME NEW a \in Nat, NEW b \in Nat, NEW k \in Nat, a =< b
    PROVE  a * k \in Nat /\ b * k \in Nat /\ a * k =< b * k
<1>1. PICK c \in Nat : b = a + c
  BY b - a \in Nat
<1>2. c * k \in Nat /\ a * k \in Nat
  OBVIOUS
<1>3. b * k = a * k + c * k
  BY <1>1
<1>4. QED
  BY <1>2, <1>3

LEMMA Division ==
    ASSUME NEW n \in Nat, NEW k \in Nat \ {0}
    PROVE  /\ n \div k \in Nat
           /\ (n \div k) * k =< n /\ n < (n \div k + 1) * k
OBVIOUS

(* Item n is on page p, of k items each. *)
On(n, p, k) == (p - 1) * k =< n /\ n < p * k

(* Every item is on one page, and on no other. *)
LEMMA OnOnePage ==
    ASSUME NEW n \in Nat, NEW k \in Nat \ {0}, NEW p \in Nat \ {0}, NEW q \in Nat \ {0},
           On(n, p, k), On(n, q, k)
    PROVE  p = q
<1>1. ASSUME NEW a \in Nat \ {0}, NEW b \in Nat \ {0}, On(n, a, k), On(n, b, k), a < b
      PROVE  FALSE
  <2>1. a \in Nat /\ b - 1 \in Nat /\ a =< b - 1 /\ k \in Nat
    BY <1>1
  <2>2. a * k =< (b - 1) * k /\ a * k \in Nat /\ (b - 1) * k \in Nat
    BY <2>1, TimesMonotone
  <2>3. n < a * k /\ (b - 1) * k =< n
    BY <1>1 DEF On
  <2>4. QED
    BY <2>2, <2>3
<1>2. p = q \/ p < q \/ q < p
  OBVIOUS
<1>3. QED
  BY <1>1, <1>2

(* The pages that are counted are those that begin before the end. *)
LEMMA PagesCounted ==
    ASSUME NEW n \in Nat, NEW p \in Nat \ {0}
    PROVE  /\ PageCount(n) \in Nat
           /\ (p - 1) * PerPage \in Nat
           /\ (p - 1) * PerPage < n <=> p =< PageCount(n)
<1> DEFINE k == PerPage
           c == PageCount(n)
<1>1. k \in Nat \ {0} /\ n + k - 1 \in Nat /\ p - 1 \in Nat
  BY PagesAssumption
<1>2. c \in Nat /\ c * k =< n + k - 1 /\ n + k - 1 < (c + 1) * k
  BY <1>1, Division DEF PageCount
<1> HIDE DEF k, c
<1>3. (c + 1) * k = c * k + k /\ c * k \in Nat /\ (p - 1) * k \in Nat /\ p * k \in Nat
      /\ p * k = (p - 1) * k + k
  BY <1>1, <1>2
<1>4. ASSUME p =< c PROVE (p - 1) * k < n
  <2>1. p * k =< c * k
    BY <1>1, <1>2, <1>4, TimesMonotone
  <2>2. QED
    BY <1>1, <1>2, <1>3, <2>1
<1>5. ASSUME (p - 1) * k < n PROVE p =< c
  <2>1. (p - 1) * k < c * k
    BY <1>1, <1>2, <1>3, <1>5
  <2>2. CASE c =< p - 1
    <3>1. c * k =< (p - 1) * k
      BY <1>1, <1>2, <2>2, TimesMonotone
    <3>2. QED
      BY <1>3, <2>1, <3>1
  <2>3. QED
    BY <1>1, <1>2, <2>2
<1>6. QED
  BY <1>2, <1>3, <1>4, <1>5 DEF k, c

(* A page is empty if it begins behind the end. *)
LEMMA EmptyPage ==
    ASSUME NEW n \in Nat, NEW p \in Nat \ {0}
    PROVE  OnPage(n, p) = {} <=> ~((p - 1) * PerPage < n)
<1> DEFINE i == (p - 1) * PerPage
<1>1. i \in Nat /\ p * PerPage = i + PerPage /\ PerPage \in Nat \ {0}
  BY PagesCounted, PagesAssumption
<1>2. OnPage(n, p) = {j \in 0..(n - 1) : i =< j /\ j < i + PerPage}
  BY <1>1 DEF OnPage, Slice
<1> HIDE DEF i
<1>3. CASE i < n
  <2>1. i \in OnPage(n, p)
    BY <1>1, <1>2, <1>3
  <2>2. QED
    BY <1>3, <2>1 DEF i
<1>4. CASE ~(i < n)
  <2>1. OnPage(n, p) = {}
    BY <1>1, <1>2, <1>4
  <2>2. QED
    BY <1>4, <2>1 DEF i
<1>5. QED
  BY <1>3, <1>4

(* Item n of np + nc is on the page it belongs to, and on no other. *)
LEMMA OnItsPage ==
    ASSUME NEW n \in Nat, NEW m \in Nat, n < m
    PROVE  \E p \in 1..PageCount(m) :
              \A q \in 1..PageCount(m) : On(n, q, PerPage) <=> q = p
<1>1. PerPage \in Nat \ {0}
  BY PagesAssumption
<1> DEFINE p == n \div PerPage + 1
<1>2. n \div PerPage \in Nat /\ p \in Nat \ {0} /\ p - 1 = n \div PerPage
  BY <1>1, Division
<1>3. On(n, p, PerPage)
  BY <1>1, <1>2, Division DEF On
<1> HIDE DEF p
<1>4. p =< PageCount(m) /\ PageCount(m) \in Nat
  <2>1. (p - 1) * PerPage < m /\ (p - 1) * PerPage \in Nat
    BY <1>2, <1>3, PagesCounted DEF On
  <2>2. QED
    BY <1>2, <2>1, PagesCounted
<1>5. \A q \in 1..PageCount(m) : On(n, q, PerPage) <=> q = p
  BY <1>1, <1>2, <1>3, <1>4, OnOnePage
<1>6. QED
  BY <1>2, <1>4, <1>5

LEMMA PagesHoldAll ==
    ASSUME NEW np \in Nat, NEW nc \in Nat
    PROVE  OnceEach(np, nc)
<1>1. np + nc \in Nat /\ PageCount(np + nc) \in Nat
  BY PagesCounted
<1>2. ASSUME NEW i \in 0..(np - 1), NEW q \in 1..PageCount(np + nc)
      PROVE  i \in ParentsOn(np, q) <=> On(i, q, PerPage)
  BY <1>2 DEF ParentsOn, OnPage, Slice, On
<1>3. ASSUME NEW i \in 0..(nc - 1), NEW q \in 1..PageCount(np + nc)
      PROVE  i \in ChildrenOn(np, nc, q) <=> On(np + i, q, PerPage)
  <2> DEFINE from == (q - 1) * PerPage
             to == q * PerPage
  <2>1. from \in Nat /\ to \in Nat
    <3>1. q \in Nat \ {0} /\ PerPage \in Nat
      BY <1>1, PagesAssumption
    <3>2. QED
      BY <3>1, PagesCounted
  <2>2. ChildrenOn(np, nc, q) =
           IF np < to THEN {j \in 0..(nc - 1) : (IF from < np THEN 0 ELSE from - np) =< j
                                                /\ j < to - np}
           ELSE {}
    BY DEF ChildrenOn, Slice
  <2>3. On(np + i, q, PerPage) <=> from =< np + i /\ np + i < to
    BY DEF On
  <2> HIDE DEF from, to
  <2>4. CASE np < to
    BY <2>1, <2>2, <2>3, <2>4
  <2>5. CASE ~(np < to)
    BY <2>1, <2>2, <2>3, <2>5
  <2>6. QED
    BY <2>4, <2>5
<1>4. ASSUME NEW i \in 0..(np - 1)
      PROVE  \E p \in 1..PageCount(np + nc) :
                \A q \in 1..PageCount(np + nc) : i \in ParentsOn(np, q) <=> q = p
  <2>1. i \in Nat /\ i < np + nc
    OBVIOUS
  <2>2. QED
    BY <1>1, <1>2, <2>1, OnItsPage
<1>5. ASSUME NEW i \in 0..(nc - 1)
      PROVE  \E p \in 1..PageCount(np + nc) :
                \A q \in 1..PageCount(np + nc) : i \in ChildrenOn(np, nc, q) <=> q = p
  <2>1. np + i \in Nat /\ np + i < np + nc
    OBVIOUS
  <2>2. QED
    BY <1>1, <1>3, <2>1, OnItsPage
<1>6. QED
  BY <1>4, <1>5 DEF OnceEach

(* Page p has an item of n, or is the first. *)
Fits(p, n) == p = 1 \/ (p - 1) * PerPage < n

(* The count of pages that is chosen from is the last known one, a page is left before
   it gets empty, and the removal that is under way leaves an item on the page.    *)
PageFits ==
    /\ kind \notin Filtered => matching = known
    /\ kind = "settings" => ~removing /\ Fits(page, matching)
                            /\ (fetching => page = 1 /\ known = 0)
    /\ kind = "comments" => Fits(page, matching)
    /\ kind = "relations" /\ ~overtaken =>
          /\ Fits(page, matching) /\ Fits(page, there)
          /\ removing => there >= known /\ known > 0 /\ Fits(page, known - 1)

PagedInv == PagedTypeOK /\ PageFits

LEMMA FitsIsNotEmpty ==
    ASSUME NEW n \in Nat, NEW p \in Nat \ {0}, Fits(p, n), n > 0
    PROVE  OnPage(n, p) # {}
<1>1. (p - 1) * PerPage < n
  BY PagesAssumption DEF Fits
<1>2. QED
  BY <1>1, EmptyPage

LEMMA FitsMore ==
    ASSUME NEW p \in Nat \ {0}, NEW m \in Nat, NEW n \in Nat, m =< n, Fits(p, m)
    PROVE  Fits(p, n)
<1>1. (p - 1) * PerPage \in Nat
  BY PagesCounted
<1>2. QED
  BY <1>1 DEF Fits

(* The box of relations moves back before the last item of a page is removed. *)
LEMMA MovedBackFits ==
    ASSUME NEW p \in Nat \ {0}, NEW n \in Nat \ {0}, Fits(p, n)
    PROVE  /\ MovedBack(p, n) \in Nat \ {0} /\ MovedBack(p, n) =< p
           /\ Fits(MovedBack(p, n), n - 1)
<1> DEFINE k == PerPage
           m == n - 1
<1>1. k \in Nat \ {0} /\ m \in Nat /\ (p - 1) * k \in Nat /\ p - 1 \in Nat
  BY PagesAssumption, PagesCounted
<1>2. CASE p = 1
  BY <1>2 DEF MovedBack, Fits
<1>3. CASE p # 1
  <2>1. (p - 1) * k =< m
    BY <1>1, <1>3 DEF Fits
  <2>2. CASE m % k = 0
    <3>1. MovedBack(p, n) = p - 1 /\ p - 2 \in Nat
      BY <1>3, <2>2 DEF MovedBack
    <3>2. (p - 1) * k = (p - 2) * k + k /\ (p - 2) * k \in Nat
      BY <1>1, <3>1
    <3>3. (p - 2) * k < m
      BY <1>1, <2>1, <3>2
    <3>4. (p - 1) - 1 = p - 2
      OBVIOUS
    <3>5. QED
      BY <3>1, <3>3, <3>4 DEF Fits
  <2>3. CASE m % k # 0
    <3>1. MovedBack(p, n) = p
      BY <1>3, <2>3 DEF MovedBack
    <3>2. ((p - 1) * k) % k = 0
      BY <1>1
    <3>3. (p - 1) * k # m
      BY <2>3, <3>2
    <3>4. (p - 1) * k < m
      BY <1>1, <2>1, <3>3
    <3>5. QED
      BY <3>1, <3>4 DEF Fits
  <2>4. QED
    BY <2>2, <2>3
<1>4. QED
  BY <1>2, <1>3

LEMMA BackToFirstFits ==
    ASSUME NEW p \in Nat \ {0}, NEW n \in Nat
    PROVE  /\ BackToFirst(p, n) \in Nat \ {0} /\ BackToFirst(p, n) =< p
           /\ kind = "comments" => Fits(BackToFirst(p, n), n)
           /\ kind # "comments" => BackToFirst(p, n) = p
<1>1. (p - 1) * PerPage \in Nat /\ (p - 1) * PerPage = PerPage * (p - 1)
  BY PagesCounted, PagesAssumption
<1>2. QED
  BY <1>1 DEF BackToFirst, Fits

LEMMA PagedTypes ==
    ASSUME kind' \in Kinds, there' \in Nat, there' =< MaxItems, known' \in Nat,
           known' =< MaxItems, matching' \in Nat, matching' =< known',
           page' \in Nat \ {0}, page' =< PageCount(MaxItems) + 1,
           removing' \in BOOLEAN, fetching' \in BOOLEAN, overtaken' \in BOOLEAN
    PROVE  PagedTypeOK'
<1>1. MaxItems \in Nat /\ PageCount(MaxItems) \in Nat
  BY PagesAssumption, PagesCounted
<1>2. page' \in 1..(PageCount(MaxItems) + 1)
  BY <1>1
<1>3. there' \in 0..MaxItems /\ known' \in 0..MaxItems /\ matching' \in 0..known'
  BY <1>1
<1>4. QED
  BY <1>2, <1>3 DEF PagedTypeOK

LEMMA PagedInitially == PagedInit => PagedInv
<1> SUFFICES ASSUME PagedInit PROVE PagedInv
  OBVIOUS
<1>1. PagedTypeOK
  <2>1. MaxItems \in Nat /\ PageCount(MaxItems) \in Nat
    BY PagesAssumption, PagesCounted
  <2>2. QED
    <3>1. kind \in Kinds /\ there \in 0..MaxItems
      BY DEF PagedInit
    <3>2. known \in 0..MaxItems
      BY <2>1 DEF PagedInit
    <3>3. matching \in 0..known
      BY <2>1 DEF PagedInit
    <3>4. page \in 1..(PageCount(MaxItems) + 1)
      BY <2>1 DEF PagedInit
    <3>5. removing \in BOOLEAN /\ fetching \in BOOLEAN /\ overtaken \in BOOLEAN
      BY DEF PagedInit
    <3>6. QED
      BY <3>1, <3>2, <3>3, <3>4, <3>5 DEF PagedTypeOK
<1>2. QED
  BY <1>1 DEF PagedInit, PagedInv, PageFits, Fits

LEMMA PagedStep == PagedInv /\ [PagedNext]_pagedVars => PagedInv'
<1> SUFFICES ASSUME PagedInv, [PagedNext]_pagedVars PROVE PagedInv'
  OBVIOUS
<1>0. /\ there \in Nat /\ known \in Nat /\ matching \in Nat /\ page \in Nat \ {0}
      /\ there =< MaxItems /\ known =< MaxItems /\ matching =< known
      /\ MaxItems \in Nat /\ PageCount(MaxItems) \in Nat
      /\ page =< PageCount(MaxItems) + 1
      /\ kind \in Kinds /\ removing \in BOOLEAN /\ fetching \in BOOLEAN
      /\ overtaken \in BOOLEAN
  BY PagesAssumption, PagesCounted DEF PagedInv, PagedTypeOK
<1>1. CASE Fetched
  <2>1. page' = BackToFirst(page, there)
    BY <1>1 DEF Fetched
  <2>2. page' \in Nat \ {0} /\ page' =< page
        /\ (kind = "comments" => Fits(page', there)) /\ (kind # "comments" => page' = page)
    BY <1>0, <2>1, BackToFirstFits
  <2>3. matching' \in 0..there /\ (kind \notin Filtered => matching' = there)
    BY <1>0, <1>1 DEF Fetched
  <2>4. PagedTypeOK'
    <3>1. /\ kind' \in Kinds /\ there' \in Nat /\ there' =< MaxItems
          /\ known' \in Nat /\ known' =< MaxItems
          /\ matching' \in Nat /\ matching' =< known'
          /\ page' \in Nat \ {0} /\ page' =< PageCount(MaxItems) + 1
      BY <1>0, <1>1, <2>2, <2>3 DEF Fetched
    <3>2. removing' \in BOOLEAN /\ fetching' \in BOOLEAN /\ overtaken' \in BOOLEAN
      BY <1>0, <1>1, <2>2, <2>3 DEF Fetched
    <3>3. QED
      BY <3>1, <3>2, PagedTypes
  <2>5. (kind = "settings" => ~removing' /\ Fits(page', matching'))
    BY <1>1, <2>2 DEF Fetched, PagedInv, PageFits, Fits
  <2>6. kind = "relations" /\ ~overtaken /\ removing => Fits(page, there - 1) /\ there > 0
    BY <1>0, FitsMore DEF PagedInv, PageFits
  <2>7. QED
    BY <1>0, <1>1, <2>2, <2>3, <2>4, <2>5, <2>6
    DEF Fetched, PagedInv, PageFits, Filtered, Fits
<1>2. CASE FetchFailed \/ FetchAgain
  <2>1. PagedTypeOK'
    BY <1>0, <1>2, PagedTypes DEF FetchFailed, FetchAgain
  <2>2. QED
    BY <1>2, <2>1 DEF FetchFailed, FetchAgain, PagedInv, PageFits, Fits
<1>3. CASE Filter
  <2>1. PagedTypeOK'
    BY <1>0, <1>3, PagedTypes DEF Filter
  <2>2. QED
    BY <1>3, <2>1 DEF Filter, PagedInv, PageFits, Fits, Filtered
<1>4. CASE ChoosePage
  <2>1. page' \in Nat \ {0} /\ Fits(page', matching) /\ page' =< PageCount(MaxItems)
    <3>1. page' \in Nat \ {0} /\ page' =< PageCount(matching)
      BY <1>0, <1>4, PagesCounted DEF ChoosePage
    <3>2. (page' - 1) * PerPage < matching /\ (page' - 1) * PerPage \in Nat
      BY <1>0, <3>1, PagesCounted
    <3>3. (page' - 1) * PerPage < MaxItems
      BY <1>0, <3>2
    <3>4. page' =< PageCount(MaxItems)
      BY <1>0, <3>1, <3>3, PagesCounted
    <3>5. QED
      BY <3>1, <3>2, <3>4 DEF Fits
  <2>2. PagedTypeOK'
    BY <1>0, <1>4, <2>1, PagedTypes DEF ChoosePage
  <2>3. kind = "settings" => ~fetching
    BY <1>0, <1>4, PagesAssumption DEF ChoosePage, PagedInv, PageFits
  <2>4. QED
    BY <1>4, <2>1, <2>2, <2>3
    DEF ChoosePage, PagedInv, PageFits, Fits, Filtered
<1>5. CASE Confirm
  <2>1. Fits(page, matching) /\ matching > 0
    <3>1. OnPage(matching, page) # {}
      BY <1>5 DEF Confirm
    <3>2. (page - 1) * PerPage < matching /\ (page - 1) * PerPage \in Nat
      BY <1>0, <3>1, EmptyPage, PagesCounted
    <3>3. QED
      BY <1>0, <3>2 DEF Fits
  <2>2. kind = "relations" => /\ page' \in Nat \ {0} /\ page' =< page
                              /\ Fits(page', known - 1)
    <3>1. ASSUME kind = "relations"
          PROVE  page' = MovedBack(page, known) /\ known = matching /\ known \in Nat \ {0}
      BY <1>0, <1>5, <2>1, <3>1 DEF Confirm, PagedInv, PageFits, Filtered
    <3>2. QED
      BY <1>0, <2>1, <3>1, MovedBackFits
  <2>3. kind # "relations" => page' = page
    BY <1>5 DEF Confirm
  <2>4. PagedTypeOK'
    BY <1>0, <1>5, <2>2, <2>3, PagedTypes DEF Confirm
  <2>5. kind = "relations" => Fits(page', known) /\ matching = known /\ known > 0
    <3>1. kind = "relations" => known - 1 \in Nat /\ matching = known /\ known > 0
      BY <1>0, <2>1 DEF PagedInv, PageFits, Filtered
    <3>2. QED
      BY <1>0, <2>2, <3>1, FitsMore
  <2>6. QED
    BY <1>0, <1>5, <2>2, <2>3, <2>4, <2>5 DEF Confirm, PagedInv, PageFits, Filtered
<1>6. CASE Removed
  <2>1. PagedTypeOK'
    <3>1. /\ kind' \in Kinds /\ there' \in Nat /\ there' =< MaxItems
          /\ known' \in Nat /\ known' =< MaxItems
          /\ matching' \in Nat /\ matching' =< known'
          /\ page' \in Nat \ {0} /\ page' =< PageCount(MaxItems) + 1
      BY <1>0, <1>6 DEF Removed
    <3>2. removing' \in BOOLEAN /\ fetching' \in BOOLEAN /\ overtaken' \in BOOLEAN
      BY <1>0, <1>6 DEF Removed
    <3>3. QED
      BY <3>1, <3>2, PagedTypes
  <2>2. kind = "relations" /\ ~overtaken => Fits(page, there - 1)
    <3>1. kind = "relations" /\ ~overtaken =>
             known - 1 \in Nat /\ there - 1 \in Nat /\ known - 1 =< there - 1
             /\ Fits(page, known - 1)
      BY <1>0, <1>6 DEF Removed, PagedInv, PageFits
    <3>2. QED
      BY <1>0, <3>1, FitsMore
  <2>3. QED
    BY <1>6, <2>1, <2>2 DEF Removed, PagedInv, PageFits, Fits
<1>7. CASE RemovalFailed
  <2>1. PagedTypeOK'
    BY <1>0, <1>7, PagedTypes DEF RemovalFailed
  <2>2. QED
    BY <1>7, <2>1 DEF RemovalFailed, PagedInv, PageFits, Fits
<1>8. CASE OtherObject
  <2>1. PICK n \in 1..MaxItems : /\ there' = n /\ known' = n /\ matching' = n
                                 /\ page' = BackToFirst(page, n)
    BY <1>8 DEF OtherObject
  <2>2. page' \in Nat \ {0} /\ page' =< page /\ (kind = "comments" => Fits(page', n))
    BY <1>0, <2>1, BackToFirstFits
  <2>3. PagedTypeOK'
    BY <1>0, <1>8, <2>1, <2>2, PagedTypes DEF OtherObject
  <2>4. QED
    BY <1>8, <2>1, <2>2, <2>3 DEF OtherObject, PagedInv, PageFits, Fits
<1>9. CASE SomebodyElse
  <2>1. PagedTypeOK'
    <3>1. /\ kind' \in Kinds /\ there' \in Nat /\ there' =< MaxItems
          /\ known' \in Nat /\ known' =< MaxItems
          /\ matching' \in Nat /\ matching' =< known'
          /\ page' \in Nat \ {0} /\ page' =< PageCount(MaxItems) + 1
      BY <1>0, <1>9 DEF SomebodyElse
    <3>2. removing' \in BOOLEAN /\ fetching' \in BOOLEAN /\ overtaken' \in BOOLEAN
      BY <1>0, <1>9 DEF SomebodyElse
    <3>3. QED
      BY <3>1, <3>2, PagedTypes
  <2>2. Fits(page, there) => Fits(page, there + 1)
    BY <1>0, FitsMore
  <2>3. QED
    BY <1>0, <1>9, <2>1, <2>2 DEF SomebodyElse, PagedInv, PageFits, Fits
<1>10. CASE UNCHANGED pagedVars
  BY <1>10 DEF pagedVars, PagedInv, PagedTypeOK, PageFits, Fits
<1>11. QED
  BY <1>1, <1>2, <1>3, <1>4, <1>5, <1>6, <1>7, <1>8, <1>9, <1>10 DEF PagedNext

(* Who goes through the pages of a list sees every item once; and no page is empty while
   there are items, but for the pending users and a user who is faster than the list. *)
THEOREM PagesShowAll == PagedSpec => []PagesComplete
<1>1. PagedInv => PagesComplete
  <2> SUFFICES ASSUME PagedInv PROVE PagesComplete
    OBVIOUS
  <2>1. /\ known \in Nat /\ matching \in Nat /\ page \in Nat \ {0} /\ kind \in Kinds
    BY PagesAssumption, PagesCounted DEF PagedInv, PagedTypeOK
  <2>2. RelationsOnceEach
    <3>1. \A np \in 0..known : np \in Nat /\ known - np \in Nat
      BY <2>1
    <3>2. QED
      BY <3>1, PagesHoldAll DEF RelationsOnceEach
  <2>3. ASSUME matching > 0, OnPage(matching, page) = {}
        PROVE  ~Fits(page, matching)
    BY <2>1, <2>3, FitsIsNotEmpty
  <2>4. PageHasItems
    BY <2>1, <2>3 DEF PageHasItems, PagedInv, PageFits, Kinds
  <2>5. QED
    BY <2>2, <2>4 DEF PagesComplete
<1>2. QED
  BY <1>1, PagedInitially, PagedStep, PTL DEF PagedSpec
-------------------------------------------------------------------------------
(* The mode of the lexer by the time a state is reached. *)
ModeOf(s) ==
    IF s \in {"value_start", "value"} THEN "value"
    ELSE IF s \in {"range_start", "range_to", "range_end", "range_fin"} THEN "range"
    ELSE "expression"

ModeFits == mode = ModeOf(state)

(* The field path is empty but where a name is being typed; behind a name it ends with
   the last annotation, unless that is an array reference.                          *)
FieldFits ==
    /\ field # <<>> <=> ~Failed /\ state \in {"fieldsep", "fieldname"}
    /\ ~Failed /\ state = "fieldsep" =>
          \/ field[Len(field)] = Len(annotations)
          \/ annotations[Len(annotations)] = "expr_arrayref"

LexInv ==
    /\ LexTypeOK /\ ModeFits
    /\ BracketsAgree /\ InnermostHighlighted /\ FieldFits

-------------------------------------------------------------------------------
(* What the tables say of a token that is expected. *)
LEMMA TheStates ==
    /\ DOMAIN AllowedStates =
         {"main", "fieldsep", "fieldname", "value_start", "value", "value_end",
          "after_boolop", "range_start", "range_to", "range_end", "range_fin",
          "phrase_unfin"}
    /\ DOMAIN Lexemes = {"expression", "value", "range"}
BY DEF AllowedStates, Lexemes

Leads(s, t, n) ==
    /\ n \in DOMAIN AllowedStates
    /\ t \in Lexemes[ModeOf(s)]
    /\ ModeOf(n) = CASE t = "expr_valuesep" -> "value"
                     [] t = "value_lrange" -> "range"
                     [] t \in {"value_lpar", "value_phrase", "value_phrase_unfin",
                               "value_term", "range_rrange"} -> "expression"
                     [] OTHER -> ModeOf(s)
    /\ n = "fieldsep" <=> t \in FieldTypes \cup {"expr_arrayref"}
    /\ n = "fieldname" <=> t = "expr_fieldsep"
    /\ t \in FieldPartTypes => s = "fieldsep"
    /\ t \in FieldTypes => s \in {"main", "fieldname"}

LEMMA TableRow ==
    ASSUME NEW s \in DOMAIN AllowedStates, NEW t \in DOMAIN AllowedStates[s]
    PROVE  Leads(s, t, AllowedStates[s][t])
<1> USE TheStates DEF Leads, Lexemes, ModeOf, FieldTypes, FieldPartTypes
<1>1. CASE s = "main"
  BY <1>1 DEF AllowedStates
<1>2. CASE s = "fieldsep"
  BY <1>2 DEF AllowedStates
<1>3. CASE s = "fieldname"
  BY <1>3 DEF AllowedStates
<1>4. CASE s = "value_start"
  BY <1>4 DEF AllowedStates
<1>5. CASE s = "value"
  BY <1>5 DEF AllowedStates
<1>6. CASE s = "value_end"
  BY <1>6 DEF AllowedStates
<1>7. CASE s = "after_boolop"
  BY <1>7 DEF AllowedStates
<1>8. CASE s = "range_start"
  BY <1>8 DEF AllowedStates
<1>9. CASE s = "range_to"
  BY <1>9 DEF AllowedStates
<1>10. CASE s = "range_end"
  BY <1>10 DEF AllowedStates
<1>11. CASE s = "range_fin"
  BY <1>11 DEF AllowedStates
<1>12. CASE s = "phrase_unfin"
  BY <1>12 DEF AllowedStates
<1>13. QED
  BY <1>1, <1>2, <1>3, <1>4, <1>5, <1>6, <1>7, <1>8, <1>9, <1>10, <1>11, <1>12

(* Where a name may be typed. *)
LEMMA NamesExpected ==
    ASSUME NEW s \in DOMAIN AllowedStates
    PROVE  DOMAIN AllowedStates[s] \cap FieldTypes # {} <=> s \in {"main", "fieldname"}
<1>1. s \in {"main", "fieldname"} => "expr_term" \in DOMAIN AllowedStates[s] \cap FieldTypes
  BY DEF AllowedStates, FieldTypes
<1>2. ASSUME NEW t \in DOMAIN AllowedStates[s] \cap FieldTypes
      PROVE  s \in {"main", "fieldname"}
  BY <1>2, TableRow DEF Leads
<1>3. QED
  BY <1>1, <1>2

-------------------------------------------------------------------------------
LEMMA LexInitially == LexInit => LexInv
<1> SUFFICES ASSUME LexInit PROVE LexInv
  OBVIOUS
<1>1. LexTypeOK
  BY TheStates DEF LexInit, LexTypeOK
<1>2. ModeFits
  BY DEF LexInit, ModeFits, ModeOf
<1>3. FieldFits
  BY DEF LexInit, FieldFits, Failed
<1>4. BracketsAgree /\ InnermostHighlighted
  BY DEF LexInit, BracketsAgree, InnermostHighlighted
<1>5. QED
  BY <1>1, <1>2, <1>3, <1>4 DEF LexInv

(* A query that ends in an error. *)
LEMMA FailKeeps == ASSUME LexInv, Reject PROVE LexInv'
<1> USE DEF Reject, Fail
<1>1. annotations \in Seq(TokenTypes \cup {"error"}) /\ annotations' = Append(annotations, "error")
  BY DEF LexInv, LexTypeOK
<1>2. Failed'
  BY <1>1 DEF Failed
<1>3. LexTypeOK'
  BY <1>1 DEF LexInv, LexTypeOK
<1>4. ModeFits' /\ InnermostHighlighted'
  BY DEF LexInv, ModeFits, InnermostHighlighted
<1>5. FieldFits'
  BY <1>2 DEF FieldFits
<1>6. BracketsAgree'
  BY <1>1 DEF LexInv, LexTypeOK, BracketsAgree
<1>7. QED
  BY <1>3, <1>4, <1>5, <1>6 DEF LexInv

LEMMA PopOf ==
    ASSUME NEW S, NEW s \in Seq(S), s # <<>>
    PROVE  /\ Pop(s) \in Seq(S) /\ Len(s) \in Nat \ {0} /\ Len(Pop(s)) = Len(s) - 1
           /\ \A k \in 1..Len(s) - 1 : Pop(s)[k] = s[k]
<1> DEFINE n == Len(s) - 1
<1>1. Len(s) \in Nat \ {0} /\ n \in Nat /\ n + 1 = Len(s) /\ \A k \in 1..n : s[k] \in S
  OBVIOUS
<1> HIDE DEF n
<1>2. /\ SubSeq(s, 1, n) \in Seq(S)
      /\ Len(SubSeq(s, 1, n)) = IF 1 =< n THEN n - 1 + 1 ELSE 0
      /\ \A k \in 1..n - 1 + 1 : SubSeq(s, 1, n)[k] = s[1 + k - 1]
  BY <1>1, SubSeqProperties
<1>3. Pop(s) = SubSeq(s, 1, n)
  BY DEF Pop, n
<1>4. Len(Pop(s)) = n /\ \A k \in 1..n : Pop(s)[k] = s[k]
  BY <1>1, <1>2, <1>3
<1>5. QED
  BY <1>1, <1>2, <1>3, <1>4 DEF n

(* The brackets of both walks. *)
LEMMA BracketsKept ==
    ASSUME LexInv, NEW t \in TokenTypes,
           \/ Open(t, Len(annotations) + 1)
           \/ Close(t, Len(annotations) + 1)
           \/ Plain(t),
           annotations' = Append(annotations, t), bracketStack' = StackAfter(t)
    PROVE  /\ BracketsAgree' /\ InnermostHighlighted'
           /\ opened' \in Seq(Nat) /\ last' \subseteq Nat /\ bracketStack' \in Seq(LPar)
<1> DEFINE i == Len(annotations) + 1
<1>1. /\ annotations \in Seq(TokenTypes \cup {"error"})
      /\ opened \in Seq(Nat) /\ last \subseteq Nat /\ bracketStack \in Seq(LPar)
      /\ BracketsAgree /\ InnermostHighlighted
  BY DEF LexInv, LexTypeOK
<1>2. /\ i \in Nat /\ Len(annotations') = i /\ annotations'[i] = t
      /\ \A k \in 1..Len(annotations) : annotations'[k] = annotations[k]
  BY <1>1
<1>3. LPar \cap RPar = {}
  BY DEF LPar, RPar
<1> HIDE DEF i
<1>4. CASE Open(t, i)
  <2>1. t \in LPar /\ opened' = Append(opened, i) /\ last' = LastAfterOpen(i)
        /\ bracketStack' = Append(bracketStack, t)
    BY <1>4 DEF Open, StackAfter
  <2>2. last' = {i} /\ opened'[Len(opened')] = i /\ opened' # <<>>
    BY <2>1, <1>1, <1>2 DEF LastAfterOpen, InnermostHighlighted
  <2>3. InnermostHighlighted'
    BY <2>2 DEF InnermostHighlighted
  <2>4. BracketsAgree'
    BY <2>1, <1>1, <1>2 DEF BracketsAgree
  <2>5. QED
    BY <2>1, <2>2, <2>3, <2>4, <1>1, <1>2
<1>5. CASE Close(t, i)
  <2>1. t \in RPar /\ opened # <<>> /\ opened' = Pop(opened) /\ last' = LastAfterClose(i)
    BY <1>5 DEF Close
  <2>2. bracketStack # <<>>
    BY <2>1, <1>1 DEF BracketsAgree
  <2>3. bracketStack' = Pop(bracketStack)
    BY <2>1, <2>2, <1>3 DEF StackAfter
  <2>4. /\ opened' \in Seq(Nat) /\ bracketStack' \in Seq(LPar)
        /\ Len(opened) \in Nat \ {0} /\ Len(bracketStack) = Len(opened)
        /\ Len(opened') = Len(opened) - 1 /\ Len(bracketStack') = Len(opened')
        /\ \A k \in 1..Len(opened') : /\ opened'[k] = opened[k]
                                      /\ bracketStack'[k] = bracketStack[k]
    BY <2>1, <2>2, <2>3, <1>1, PopOf DEF BracketsAgree
  <2>5. BracketsAgree'
    <3> SUFFICES ASSUME NEW k \in 1..Len(opened')
                 PROVE  /\ opened'[k] \in 1..Len(annotations')
                        /\ annotations'[opened'[k]] = bracketStack'[k]
      BY <2>4 DEF BracketsAgree
    <3>1. k \in 1..Len(opened) /\ opened'[k] = opened[k] /\ bracketStack'[k] = bracketStack[k]
      BY <2>4
    <3>2. opened[k] \in 1..Len(annotations) /\ annotations[opened[k]] = bracketStack[k]
      BY <3>1, <1>1 DEF BracketsAgree
    <3>3. QED
      BY <3>1, <3>2, <1>1, <1>2 DEF i
  <2>6. last' = IF Len(opened) > 1 THEN {opened[Len(opened) - 1]} ELSE {}
    BY <2>1, <1>1 DEF LastAfterClose, InnermostHighlighted
  <2>7. opened' = <<>> <=> Len(opened) = 1
    BY <2>4
  <2>8. last' = IF opened' = <<>> THEN {} ELSE {opened'[Len(opened')]}
    <3>1. CASE Len(opened) = 1
      BY <3>1, <2>6, <2>7
    <3>2. CASE Len(opened) > 1
      BY <3>2, <2>4, <2>6, <2>7
    <3>3. QED
      BY <3>1, <3>2, <2>4
  <2>9. last' \subseteq Nat
    BY <2>4, <2>8
  <2>10. QED
    BY <2>4, <2>5, <2>8, <2>9 DEF InnermostHighlighted
<1>6. CASE Plain(t)
  <2>1. UNCHANGED <<opened, last, bracketStack>>
    BY <1>6 DEF Plain, StackAfter
  <2>2. QED
    BY <2>1, <1>1, <1>2 DEF BracketsAgree, InnermostHighlighted
<1>7. QED
  BY <1>4, <1>5, <1>6 DEF i

LEMMA AcceptKeeps ==
    ASSUME LexInv, ~Failed, NEW t, Accept(t)
    PROVE  LexInv'
<1> DEFINE i == Len(annotations) + 1
<1>1. /\ annotations \in Seq(TokenTypes \cup {"error"}) /\ field \in Seq(Nat)
      /\ state \in DOMAIN AllowedStates /\ mode = ModeOf(state)
  BY DEF LexInv, LexTypeOK, ModeFits
<1>2. /\ t \in DOMAIN AllowedStates[state] /\ state' = AllowedStates[state][t]
      /\ mode' = ModeAfter(t) /\ field' = FieldAfter(t, i)
      /\ Open(t, i) \/ Close(t, i) \/ Plain(t)
      /\ annotations' = Append(annotations, t) /\ bracketStack' = StackAfter(t)
  BY DEF Accept
<1>3. Leads(state, t, state')
  BY <1>1, <1>2, TableRow
<1>4. t \in TokenTypes /\ t # "error"
  BY <1>3, TheStates DEF Leads, TokenTypes, ModeOf, Lexemes
<1>5. ModeFits' /\ mode' \in DOMAIN Lexemes
  BY <1>1, <1>2, <1>3, TheStates DEF Leads, ModeFits, ModeAfter, ModeOf
<1>6. /\ Len(annotations') = i /\ i \in Nat /\ annotations'[i] = t /\ annotations' # <<>>
      /\ annotations' \in Seq(TokenTypes \cup {"error"})
  BY <1>1, <1>2, <1>4
<1>7. ~Failed'
  BY <1>4, <1>6 DEF Failed
<1>8. FieldFits' /\ field' \in Seq(Nat)
  <2>1. CASE t \in FieldTypes
    <3>1. field' = Append(field, i)
      BY <2>1, <1>2 DEF FieldAfter
    <3>2. field' \in Seq(Nat) /\ field' # <<>> /\ field'[Len(field')] = i
      BY <3>1, <1>1, <1>6
    <3>3. state' = "fieldsep"
      BY <2>1, <1>3 DEF Leads
    <3>4. QED
      BY <3>2, <3>3, <1>6, <1>7 DEF FieldFits
  <2>2. CASE t \in FieldPartTypes /\ t \notin FieldTypes
    <3>1. field' = field
      BY <2>2, <1>2 DEF FieldAfter
    <3>2. field # <<>>
      BY <2>2, <1>3 DEF Leads, LexInv, FieldFits
    <3>3. \/ state' = "fieldsep" /\ t = "expr_arrayref"
          \/ state' = "fieldname"
      BY <2>2, <1>3 DEF Leads, FieldPartTypes
    <3>4. QED
      BY <3>1, <3>2, <3>3, <1>1, <1>6, <1>7 DEF FieldFits
  <2>3. CASE t \notin FieldTypes \cup FieldPartTypes
    <3>1. field' = <<>>
      BY <2>3, <1>2 DEF FieldAfter
    <3>2. state' \notin {"fieldsep", "fieldname"}
      BY <2>3, <1>3 DEF Leads, FieldPartTypes
    <3>3. QED
      BY <3>1, <3>2 DEF FieldFits
  <2>4. QED
    BY <2>1, <2>2, <2>3
<1>9. /\ BracketsAgree' /\ InnermostHighlighted'
      /\ opened' \in Seq(Nat) /\ last' \subseteq Nat /\ bracketStack' \in Seq(LPar)
  BY <1>2, <1>4, BracketsKept
<1>10. LexTypeOK'
  BY <1>3, <1>5, <1>6, <1>8, <1>9 DEF LexTypeOK, Leads
<1>11. QED
  BY <1>5, <1>8, <1>9, <1>10 DEF LexInv

LEMMA LexStep == LexInv /\ [LexNext]_lexVars => LexInv'
<1>1. ASSUME LexInv, LexNext PROVE LexInv'
  BY <1>1, FailKeeps, AcceptKeeps DEF LexNext, Read
<1>2. ASSUME LexInv, UNCHANGED lexVars PROVE LexInv'
  <2> USE <1>2 DEF lexVars
  <2>1. LexTypeOK' /\ ModeFits'
    BY DEF LexInv, LexTypeOK, ModeFits
  <2>2. BracketsAgree' /\ InnermostHighlighted'
    BY DEF LexInv, BracketsAgree, InnermostHighlighted
  <2>3. Failed' = Failed
    BY DEF Failed
  <2>4. FieldFits'
    BY <2>3 DEF LexInv, FieldFits
  <2>5. QED
    BY <2>1, <2>2, <2>4 DEF LexInv
<1>3. QED
  BY <1>1, <1>2

(* The query bar at every prefix of every query, of any length: the tokens a state
   expects are ones the lexer can return by then, both walks have the same brackets
   open, and the innermost of them is highlighted.                                *)
THEOREM QueriesAnnotated == LexSpec => []QueryAnnotated
<1>1. LexInv => QueryAnnotated
  <2> SUFFICES ASSUME LexInv, NEW t \in DOMAIN AllowedStates[state]
               PROVE  t \in Lexemes[mode]
    BY DEF LexInv, QueryAnnotated, TablesAgree
  <2>1. state \in DOMAIN AllowedStates /\ mode = ModeOf(state)
    BY DEF LexInv, LexTypeOK, ModeFits
  <2>2. QED
    BY <2>1, TableRow DEF Leads
<1>2. QED
  BY <1>1, LexInitially, LexStep, PTL DEF LexSpec

(* A name is completed exactly where one is typed or may start, and nothing but what
   has been typed of it is replaced, behind an array reference excepted.          *)
THEOREM NamesCompleted == LexSpec => []FieldCompleted
<1>1. ASSUME LexInv PROVE FieldCompleted
  <2>1. /\ state \in DOMAIN AllowedStates /\ field \in Seq(Nat)
        /\ annotations \in Seq(TokenTypes \cup {"error"})
    BY <1>1 DEF LexInv, LexTypeOK
  <2>2. NextPossibleTokens \cap FieldTypes # {}
          <=> ~Failed /\ state \in {"main", "fieldname"}
    BY <2>1, NamesExpected DEF NextPossibleTokens
  <2>3. CASE ~Failed /\ state \in {"main", "fieldname"}
    <3>1. CurrentField = field \o <<0>>
      BY <2>2, <2>3 DEF CurrentField
    <3>2. CurrentField # <<>> /\ CurrentField[Len(CurrentField)] = 0
      BY <3>1, <2>1
    <3>3. QED
      BY <2>3, <3>2 DEF FieldCompleted, FieldWhereExpected, PartialIsTheEnd
  <2>4. CASE ~(~Failed /\ state \in {"main", "fieldname"})
    <3>1. CurrentField = field
      BY <2>1, <2>2, <2>4 DEF CurrentField
    <3>2. FieldWhereExpected
      BY <1>1, <2>4, <3>1 DEF LexInv, FieldFits, FieldWhereExpected
    <3>3. PartialIsTheEnd
      BY <1>1, <2>4, <3>1 DEF LexInv, FieldFits, PartialIsTheEnd
    <3>4. QED
      BY <3>2, <3>3 DEF FieldCompleted
  <2>5. QED
    BY <2>3, <2>4
<1>2. QED
  BY <1>1, LexInitially, LexStep, PTL DEF LexSpec
-------------------------------------------------------------------------------
(* A graph of these objects and relations. *)
IsGraph(g) ==
    /\ g = [nodes |-> g.nodes, edges |-> g.edges]
    /\ g.nodes \in [DOMAIN g.nodes -> BOOLEAN]

(* The graph g with the objects of S, which are not expanded unless they were, and with
   more edges: what updateObject makes of a list of parents or of children.       *)
Added(g, S, edges) ==
    [nodes |-> [n \in DOMAIN g.nodes \cup S |-> n \in DOMAIN g.nodes /\ g.nodes[n]],
     edges |-> g.edges \cup edges]

(* The clicks of a user who waits are all in the address, and in the address the
   handlers know when they take the next click.                                   *)
ClicksInAddress ==
    ~hurried =>
       /\ Unfolded \cup asked \subseteq address \cup {Root}
       /\ ~drawing => Unfolded \subseteq drawn.address \cup {Root}

PlotInv == PlotTypeOK /\ IsGraph(graph) /\ OrderLeavesNoTrace /\ ClicksInAddress

-------------------------------------------------------------------------------
(* Of sets of objects there is one without another of them inside. *)
LEMMA Smallest ==
    ASSUME NEW S, IsFiniteSet(S), NEW T, T \subseteq SUBSET S, T # {}
    PROVE  \E s \in T : \A u \in T : u \subseteq s => u = s
<1>1. T \subseteq FiniteSubsetsOf(S)
  BY FS_Subset DEF FiniteSubsetsOf
<1>2. PICK s \in T : \A u \in T : <<u, s>> \notin StrictSubsetOrdering(S)
  BY <1>1, FS_StrictSubsetOrderingWellFounded, WFMin, Zenon
<1>3. \A u \in T : u \subseteq s => u = s
  BY <1>2 DEF StrictSubsetOrdering
<1>4. QED
  BY <1>3

(* One object more, by an edge. *)
LEMMA AddOne ==
    ASSUME NEW g, IsGraph(g), NEW S, NEW edges, NEW x, NEW edge, edge # <<>>
    PROVE  AddNodes(Added(g, S, edges), x, edge) = Added(g, S \cup {x}, edges \cup {edge})
<1> DEFINE h == Added(g, S, edges)
<1>1. /\ DOMAIN h.nodes = DOMAIN g.nodes \cup S
      /\ h.edges = g.edges \cup edges
      /\ \A n \in DOMAIN h.nodes : h.nodes[n] = (n \in DOMAIN g.nodes /\ g.nodes[n])
  BY DEF Added
<1> HIDE DEF h
<1>2. \A n \in DOMAIN g.nodes : g.nodes[n] \in BOOLEAN
  BY DEF IsGraph
<1>3. Flag(h, x, edge) = (x \in DOMAIN g.nodes /\ g.nodes[x])
  BY <1>1, <1>2 DEF Flag
<1>4. AddNodes(h, x, edge) = Added(g, S \cup {x}, edges \cup {edge})
  BY <1>1, <1>3 DEF AddNodes, Added
<1>5. QED
  BY <1>4 DEF h

EdgesOf(e, S) == {e[x] : x \in S}

(* Adding objects one at a time, in whatever order they are taken. *)
IsTurns(iter, g, S, e) ==
    iter = [s \in SUBSET S |->
               IF s = {} THEN g
               ELSE LET x == CHOOSE x \in s : TRUE
                    IN  AddNodes(iter[s \ {x}], x, e[x])]

LEMMA TurnsExist ==
    ASSUME NEW g, IsGraph(g), NEW S, NEW e, \A x \in S : e[x] # <<>>
    PROVE  IsTurns([s \in SUBSET S |-> Added(g, s, EdgesOf(e, s))], g, S, e)
<1> DEFINE iter == [s \in SUBSET S |-> Added(g, s, EdgesOf(e, s))]
<1> SUFFICES ASSUME NEW s \in SUBSET S
             PROVE  Added(g, s, EdgesOf(e, s))
                      = IF s = {} THEN g
                        ELSE LET x == CHOOSE x \in s : TRUE
                             IN  AddNodes(iter[s \ {x}], x, e[x])
  BY DEF IsTurns
<1>1. CASE s = {}
  <2>1. \A n \in DOMAIN g.nodes : g.nodes[n] = (n \in DOMAIN g.nodes /\ g.nodes[n])
    BY DEF IsGraph
  <2>2. g.nodes = [n \in DOMAIN g.nodes \cup {} |-> n \in DOMAIN g.nodes /\ g.nodes[n]]
    BY <2>1 DEF IsGraph
  <2>3. Added(g, {}, {}) = g
    BY <2>2 DEF Added, IsGraph
  <2>4. QED
    BY <1>1, <2>3 DEF EdgesOf
<1>2. CASE s # {}
  <2> DEFINE x == CHOOSE x \in s : TRUE
  <2>1. x \in s
    BY <1>2
  <2> HIDE DEF x
  <2>2. iter[s \ {x}] = Added(g, s \ {x}, EdgesOf(e, s \ {x}))
    OBVIOUS
  <2>3. AddNodes(iter[s \ {x}], x, e[x])
          = Added(g, (s \ {x}) \cup {x}, EdgesOf(e, s \ {x}) \cup {e[x]})
    <3>1. e[x] # <<>>
      BY <2>1
    <3> DEFINE rest == s \ {x}
               edge == e[x]
               edges == EdgesOf(e, s \ {x})
    <3> HIDE DEF iter, rest, edge, edges
    <3>2. AddNodes(Added(g, rest, edges), x, edge) = Added(g, rest \cup {x}, edges \cup {edge})
      BY <3>1, AddOne DEF edge
    <3>3. QED
      BY <3>2, <2>2 DEF rest, edge, edges
  <2>4. (s \ {x}) \cup {x} = s /\ EdgesOf(e, s \ {x}) \cup {e[x]} = EdgesOf(e, s)
    BY <2>1 DEF EdgesOf
  <2>5. Added(g, s, EdgesOf(e, s)) = AddNodes(iter[s \ {x}], x, e[x])
    BY <2>3, <2>4
  <2>6. QED
    BY <1>2, <2>5 DEF x
<1>3. QED
  BY <1>1, <1>2

LEMMA TurnsEnd ==
    ASSUME NEW g, IsGraph(g), NEW S, IsFiniteSet(S), NEW e, \A x \in S : e[x] # <<>>,
           NEW iter, IsTurns(iter, g, S, e)
    PROVE  iter[S] = Added(g, S, EdgesOf(e, S))
<1> DEFINE end == [s \in SUBSET S |-> Added(g, s, EdgesOf(e, s))]
           T == {s \in SUBSET S : iter[s] # end[s]}
<1>1. IsTurns(end, g, S, e)
  BY TurnsExist
<1> HIDE DEF end
<1>2. ASSUME T # {} PROVE FALSE
  <2>0. T \subseteq SUBSET S
    OBVIOUS
  <2>1. PICK s \in T : \A u \in T : u \subseteq s => u = s
    <3> HIDE DEF T
    <3>1. QED
      BY <1>2, <2>0, Smallest
  <2> DEFINE x == CHOOSE x \in s : TRUE
  <2>2. CASE s = {}
    BY <2>1, <2>2, <1>1 DEF IsTurns
  <2>3. CASE s # {}
    <3>1. x \in s
      BY <2>3
    <3>2. iter[s] = AddNodes(iter[s \ {x}], x, e[x])
      BY <2>1, <2>3 DEF IsTurns
    <3>3. end[s] = AddNodes(end[s \ {x}], x, e[x])
      BY <2>1, <2>3, <1>1 DEF IsTurns
    <3> HIDE DEF x
    <3>4. iter[s \ {x}] = end[s \ {x}]
      BY <2>1, <3>1
    <3>5. QED
      BY <2>1, <3>2, <3>3, <3>4
  <2>4. QED
    BY <2>2, <2>3
<1>3. iter[S] = end[S]
  BY <1>2
<1>4. QED
  BY <1>3 DEF end

UpEdges(o) == {<<p, o>> : p \in Parents(o)}
DownEdges(o) == {<<o, c>> : c \in Children(o)}

LEMMA ParentsAdded ==
    ASSUME NEW g, IsGraph(g), NEW o, IsFiniteSet(Parents(o))
    PROVE  WithParents(g, o) = Added(g, Parents(o), UpEdges(o))
<1> DEFINE S == Parents(o)
           e == [p \in S |-> <<p, o>>]
           Took(f, s) == IF s = {} THEN g
                         ELSE LET x == CHOOSE x \in s : TRUE
                              IN  AddNodes(f[s \ {x}], x, <<x, o>>)
           iter == CHOOSE f : f = [s \in SUBSET S |-> Took(f, s)]
           end == [s \in SUBSET S |-> Added(g, s, EdgesOf(e, s))]
<1>1. WithParents(g, o) = iter[S]
  BY DEF WithParents, FoldSet, MapThenFoldSet
<1>2. \A x \in S : e[x] = <<x, o>> /\ e[x] # <<>>
  OBVIOUS
<1>3. IsTurns(end, g, S, e)
  BY <1>2, TurnsExist
<1>4. EdgesOf(e, S) = UpEdges(o)
  BY <1>2 DEF EdgesOf, UpEdges
<1>5. IsFiniteSet(S)
  OBVIOUS
<1> HIDE DEF S, e, end
<1>6. ASSUME NEW f PROVE IsTurns(f, g, S, e) <=> f = [s \in SUBSET S |-> Took(f, s)]
  <2>1. ASSUME NEW s \in SUBSET S
        PROVE  Took(f, s) = IF s = {} THEN g
                            ELSE LET x == CHOOSE x \in s : TRUE
                                 IN  AddNodes(f[s \ {x}], x, e[x])
    <3>1. CASE s = {}
      BY <3>1
    <3>2. CASE s # {}
      <4> DEFINE x == CHOOSE x \in s : TRUE
      <4>1. x \in s
        BY <3>2
      <4>2. e[x] = <<x, o>>
        BY <4>1, <1>2
      <4>3. Took(f, s) = AddNodes(f[s \ {x}], x, <<x, o>>)
        BY <3>2
      <4> HIDE DEF x, Took
      <4>4. Took(f, s) = AddNodes(f[s \ {x}], x, e[x])
        BY <4>2, <4>3
      <4>5. QED
        BY <3>2, <4>4 DEF x
    <3>3. QED
      BY <3>1, <3>2
  <2> HIDE DEF Took
  <2>2. QED
    BY <2>1 DEF IsTurns
<1>7. IsTurns(iter, g, S, e)
  <2> HIDE DEF Took
  <2>1. QED
    BY <1>3, <1>6
<1> HIDE DEF iter, Took
<1>8. iter[S] = Added(g, S, EdgesOf(e, S))
  <2>1. \A x \in S : e[x] # <<>>
    BY <1>2
  <2>2. QED
    BY <2>1, <1>5, <1>7, TurnsEnd
<1>9. QED
  BY <1>1, <1>4, <1>8 DEF S

LEMMA ChildrenAdded ==
    ASSUME NEW g, IsGraph(g), NEW o, IsFiniteSet(Children(o))
    PROVE  WithChildren(g, o) = Added(g, Children(o), DownEdges(o))
<1> DEFINE S == Children(o)
           e == [c \in S |-> <<o, c>>]
           Took(f, s) == IF s = {} THEN g
                         ELSE LET x == CHOOSE x \in s : TRUE
                              IN  AddNodes(f[s \ {x}], x, <<o, x>>)
           iter == CHOOSE f : f = [s \in SUBSET S |-> Took(f, s)]
           end == [s \in SUBSET S |-> Added(g, s, EdgesOf(e, s))]
<1>1. WithChildren(g, o) = iter[S]
  BY DEF WithChildren, FoldSet, MapThenFoldSet
<1>2. \A x \in S : e[x] = <<o, x>> /\ e[x] # <<>>
  OBVIOUS
<1>3. IsTurns(end, g, S, e)
  BY <1>2, TurnsExist
<1>4. EdgesOf(e, S) = DownEdges(o)
  BY <1>2 DEF EdgesOf, DownEdges
<1>5. IsFiniteSet(S)
  OBVIOUS
<1> HIDE DEF S, e, end
<1>6. ASSUME NEW f PROVE IsTurns(f, g, S, e) <=> f = [s \in SUBSET S |-> Took(f, s)]
  <2>1. ASSUME NEW s \in SUBSET S
        PROVE  Took(f, s) = IF s = {} THEN g
                            ELSE LET x == CHOOSE x \in s : TRUE
                                 IN  AddNodes(f[s \ {x}], x, e[x])
    <3>1. CASE s = {}
      BY <3>1
    <3>2. CASE s # {}
      <4> DEFINE x == CHOOSE x \in s : TRUE
      <4>1. x \in s
        BY <3>2
      <4>2. e[x] = <<o, x>>
        BY <4>1, <1>2
      <4>3. Took(f, s) = AddNodes(f[s \ {x}], x, <<o, x>>)
        BY <3>2
      <4> HIDE DEF x, Took
      <4>4. Took(f, s) = AddNodes(f[s \ {x}], x, e[x])
        BY <4>2, <4>3
      <4>5. QED
        BY <3>2, <4>4 DEF x
    <3>3. QED
      BY <3>1, <3>2
  <2> HIDE DEF Took
  <2>2. QED
    BY <2>1 DEF IsTurns
<1>7. IsTurns(iter, g, S, e)
  <2> HIDE DEF Took
  <2>1. QED
    BY <1>3, <1>6
<1> HIDE DEF iter, Took
<1>8. iter[S] = Added(g, S, EdgesOf(e, S))
  <2>1. \A x \in S : e[x] # <<>>
    BY <1>2
  <2>2. QED
    BY <2>1, <1>5, <1>7, TurnsEnd
<1>9. QED
  BY <1>1, <1>4, <1>8 DEF S

LEMMA GraphOf ==
    ASSUME NEW D, NEW f \in [D -> BOOLEAN], NEW edges
    PROVE  /\ IsGraph([nodes |-> f, edges |-> edges])
           /\ [nodes |-> f, edges |-> edges].nodes = f
           /\ [nodes |-> f, edges |-> edges].edges = edges
BY DEF IsGraph

LEMMA AddedGraph ==
    ASSUME NEW g, IsGraph(g), NEW S, NEW edges
    PROVE  /\ IsGraph(Added(g, S, edges))
           /\ DOMAIN Added(g, S, edges).nodes = DOMAIN g.nodes \cup S
           /\ \A n \in DOMAIN g.nodes \cup S :
                 Added(g, S, edges).nodes[n] = (n \in DOMAIN g.nodes /\ g.nodes[n])
           /\ Added(g, S, edges).edges = g.edges \cup edges
<1> DEFINE D == DOMAIN g.nodes \cup S
           f == [n \in D |-> n \in DOMAIN g.nodes /\ g.nodes[n]]
<1>1. f \in [D -> BOOLEAN] /\ DOMAIN f = D
      /\ \A n \in D : f[n] = (n \in DOMAIN g.nodes /\ g.nodes[n])
  OBVIOUS
<1>2. Added(g, S, edges) = [nodes |-> f, edges |-> g.edges \cup edges]
  BY DEF Added
<1> HIDE DEF f
<1>3. QED
  BY <1>1, <1>2, GraphOf DEF D

(* The graph an answer leaves: the object is expanded, its neighbours are there. *)
LEMMA ExpandedGraph ==
    ASSUME NEW g, IsGraph(g), NEW o \in Nodes
    PROVE  /\ IsGraph(Expanded(g, o))
           /\ DOMAIN Expanded(g, o).nodes = DOMAIN g.nodes \cup {o} \cup Parents(o) \cup Children(o)
           /\ \A n \in DOMAIN Expanded(g, o).nodes :
                 Expanded(g, o).nodes[n] = (n = o \/ (n \in DOMAIN g.nodes /\ g.nodes[n]))
           /\ Expanded(g, o).edges = g.edges \cup UpEdges(o) \cup DownEdges(o)
<1> DEFINE self == AddNodes(g, o, <<>>)
           up == Added(self, Parents(o), UpEdges(o))
<1>1. IsFiniteSet(Parents(o)) /\ IsFiniteSet(Children(o))
  <2>1. Parents(o) \subseteq Nodes /\ Children(o) \subseteq Nodes
    BY DEF Parents, Children
  <2>2. QED
    BY <2>1, PlotAssumption, FS_Subset
<1>2. /\ IsGraph(self)
      /\ DOMAIN self.nodes = DOMAIN g.nodes \cup {o}
      /\ \A n \in DOMAIN self.nodes :
            self.nodes[n] = (n = o \/ (n \in DOMAIN g.nodes /\ g.nodes[n]))
      /\ self.edges = g.edges
  <2> DEFINE D == DOMAIN g.nodes \cup {o}
             f == [n \in D |-> IF n = o THEN Flag(g, o, <<>>) ELSE g.nodes[n]]
  <2>1. \A n \in DOMAIN g.nodes : g.nodes[n] \in BOOLEAN
    BY DEF IsGraph
  <2>2. Flag(g, o, <<>>) = TRUE
    BY <2>1 DEF Flag
  <2>3. /\ f \in [D -> BOOLEAN] /\ DOMAIN f = D
        /\ \A n \in D : f[n] = (n = o \/ (n \in DOMAIN g.nodes /\ g.nodes[n]))
    BY <2>1, <2>2
  <2>4. self = [nodes |-> f, edges |-> g.edges]
    BY DEF AddNodes
  <2> HIDE DEF f
  <2>5. QED
    BY <2>3, <2>4, GraphOf
<1> HIDE DEF self
<1>3. WithParents(self, o) = up
  BY <1>1, <1>2, ParentsAdded
<1>4. Expanded(g, o) = WithChildren(up, o)
  BY <1>3 DEF Expanded, self
<1>5. /\ IsGraph(up)
      /\ DOMAIN up.nodes = DOMAIN self.nodes \cup Parents(o)
      /\ \A n \in DOMAIN up.nodes : up.nodes[n] = (n \in DOMAIN self.nodes /\ self.nodes[n])
      /\ up.edges = self.edges \cup UpEdges(o)
  BY <1>2, AddedGraph
<1> HIDE DEF up
<1>6. Expanded(g, o) = Added(up, Children(o), DownEdges(o))
  BY <1>1, <1>4, <1>5, ChildrenAdded
<1>7. /\ IsGraph(Expanded(g, o))
      /\ DOMAIN Expanded(g, o).nodes = DOMAIN up.nodes \cup Children(o)
      /\ \A n \in DOMAIN Expanded(g, o).nodes :
            Expanded(g, o).nodes[n] = (n \in DOMAIN up.nodes /\ up.nodes[n])
      /\ Expanded(g, o).edges = up.edges \cup DownEdges(o)
  BY <1>5, <1>6, AddedGraph
<1>8. QED
  BY <1>2, <1>5, <1>7

(* A graph that does not change keeps what it shows. *)
LEMMA SameGraph ==
    ASSUME UNCHANGED <<relations, graph>>, OrderLeavesNoTrace, IsGraph(graph)
    PROVE  Unfolded' = Unfolded /\ OrderLeavesNoTrace' /\ IsGraph(graph')
<1>1. Unfolded' = Unfolded
  BY DEF Unfolded
<1>2. \A n : (Parents(n) \cup Children(n))' = Parents(n) \cup Children(n)
  BY DEF Parents, Children
<1>3. UNION {(Parents(n) \cup Children(n))' : n \in Unfolded}
        = UNION {Parents(n) \cup Children(n) : n \in Unfolded}
  BY <1>2
<1>4. OrderLeavesNoTrace'
  BY <1>1, <1>3 DEF OrderLeavesNoTrace
<1>5. QED
  BY <1>1, <1>4

-------------------------------------------------------------------------------
LEMMA PlotInitially == PlotInit => PlotInv
<1> SUFFICES ASSUME PlotInit PROVE PlotInv
  OBVIOUS
<1>1. NoGraph.nodes = <<>> /\ DOMAIN NoGraph.nodes = {} /\ NoGraph.edges = {} /\ IsGraph(NoGraph)
  BY DEF NoGraph, IsGraph
<1>2. Unfolded = {}
  BY <1>1 DEF PlotInit, Unfolded
<1>3. PlotTypeOK
  BY <1>1, PlotAssumption DEF PlotInit, PlotTypeOK
<1>4. OrderLeavesNoTrace
  BY <1>1, <1>2 DEF PlotInit, OrderLeavesNoTrace
<1>5. ClicksInAddress
  BY <1>2 DEF PlotInit, ClicksInAddress
<1>6. QED
  BY <1>1, <1>3, <1>4, <1>5 DEF PlotInit, PlotInv

LEMMA ClickKeeps == ASSUME PlotInv, NEW n \in Nodes, ClickNode(n) PROVE PlotInv'
<1> USE DEF ClickNode, AddressWith
<1>1. PlotTypeOK'
  BY DEF PlotInv, PlotTypeOK
<1>2. OrderLeavesNoTrace' /\ Unfolded' = Unfolded /\ IsGraph(graph')
  BY SameGraph DEF PlotInv
<1>3. ClicksInAddress'
  BY <1>2 DEF PlotInv, ClicksInAddress
<1>4. QED
  BY <1>1, <1>2, <1>3 DEF PlotInv

LEMMA AnswerKeeps == ASSUME PlotInv, NEW n \in Nodes, ExpandNode(n) PROVE PlotInv'
<1> DEFINE near == Parents(n) \cup Children(n)
<1>1. /\ n \in asked /\ asked' = asked \ {n} /\ graph' = Expanded(graph, n) /\ drawing' = TRUE
      /\ UNCHANGED <<relations, address, drawn, hurried>>
      /\ PlotTypeOK /\ IsGraph(graph) /\ OrderLeavesNoTrace /\ ClicksInAddress
  BY DEF ExpandNode, PlotInv
<1>2. /\ DOMAIN graph'.nodes = DOMAIN graph.nodes \cup {n} \cup near
      /\ \A m \in DOMAIN graph'.nodes :
            graph'.nodes[m] = (m = n \/ (m \in DOMAIN graph.nodes /\ graph.nodes[m]))
      /\ graph'.edges = graph.edges \cup UpEdges(n) \cup DownEdges(n)
      /\ IsGraph(graph')
  BY <1>1, ExpandedGraph
<1>3. Unfolded' = Unfolded \cup {n}
  BY <1>2 DEF Unfolded
<1>4. near \subseteq Nodes /\ \A m : Parents(m)' = Parents(m) /\ Children(m)' = Children(m)
  BY <1>1 DEF Parents, Children
<1>5. \A r \in relations : r = <<r[1], r[2]>> /\ r[1] \in Nodes /\ r[2] \in Nodes
  BY <1>1 DEF PlotTypeOK
<1>6. UpEdges(n) \cup DownEdges(n)
        = {r \in relations : r[1] = n \/ r[2] = n}
  BY <1>5 DEF Parents, Children, UpEdges, DownEdges
<1>7. PlotTypeOK'
  BY <1>1, <1>2, <1>4, <1>6 DEF PlotTypeOK
<1>8. OrderLeavesNoTrace'
  <2>1. UNION {Parents(m) \cup Children(m) : m \in Unfolded \cup {n}}
          = near \cup UNION {Parents(m) \cup Children(m) : m \in Unfolded}
    OBVIOUS
  <2>2. DOMAIN graph'.nodes = (Unfolded \cup {n}) \cup
                                UNION {Parents(m) \cup Children(m) : m \in Unfolded \cup {n}}
    BY <2>1, <1>1, <1>2 DEF OrderLeavesNoTrace
  <2>3. UNION {Parents(m) \cup Children(m) : m \in Unfolded \cup {n}}
          = UNION {(Parents(m) \cup Children(m))' : m \in Unfolded \cup {n}}
    BY <1>4
  <2>4. DOMAIN graph'.nodes = Unfolded' \cup
                                UNION {(Parents(m) \cup Children(m))' : m \in Unfolded'}
    BY <2>2, <2>3, <1>3
  <2>5. graph'.edges = {r \in relations' : r[1] \in Unfolded' \/ r[2] \in Unfolded'}
    BY <1>1, <1>2, <1>3, <1>6 DEF OrderLeavesNoTrace
  <2>6. QED
    BY <2>4, <2>5 DEF OrderLeavesNoTrace
<1>9. ClicksInAddress'
  BY <1>1, <1>3 DEF ClicksInAddress
<1>10. QED
  BY <1>2, <1>7, <1>8, <1>9 DEF PlotInv

LEMMA FailureKeeps == ASSUME PlotInv, NEW n \in Nodes, ExpandFails(n) PROVE PlotInv'
<1> USE DEF ExpandFails
<1>1. PlotTypeOK'
  BY DEF PlotInv, PlotTypeOK
<1>2. OrderLeavesNoTrace' /\ Unfolded' = Unfolded /\ IsGraph(graph')
  BY SameGraph DEF PlotInv
<1>3. ClicksInAddress'
  BY <1>2 DEF PlotInv, ClicksInAddress
<1>4. QED
  BY <1>1, <1>2, <1>3 DEF PlotInv

LEMMA DrawingKeeps == ASSUME PlotInv, UpdateGraph PROVE PlotInv'
<1> USE DEF UpdateGraph
<1>1. PlotTypeOK'
  BY DEF PlotInv, PlotTypeOK
<1>2. OrderLeavesNoTrace' /\ Unfolded' = Unfolded /\ IsGraph(graph')
  BY SameGraph DEF PlotInv
<1>3. ClicksInAddress'
  BY <1>2 DEF PlotInv, ClicksInAddress
<1>4. QED
  BY <1>1, <1>2, <1>3 DEF PlotInv

LEMMA ReloadKeeps == ASSUME PlotInv, OpenAgain PROVE PlotInv'
<1> USE DEF OpenAgain
<1>1. /\ NoGraph.nodes = <<>> /\ DOMAIN NoGraph.nodes = {} /\ NoGraph.edges = {}
      /\ IsGraph(NoGraph)
  BY DEF NoGraph, IsGraph
<1>2. Unfolded' = {}
  BY <1>1 DEF Unfolded
<1>3. PlotTypeOK'
  BY <1>1, PlotAssumption DEF PlotInv, PlotTypeOK
<1>4. OrderLeavesNoTrace'
  BY <1>1, <1>2 DEF OrderLeavesNoTrace
<1>5. ClicksInAddress'
  BY <1>2 DEF ClicksInAddress
<1>6. QED
  BY <1>1, <1>3, <1>4, <1>5 DEF PlotInv

LEMMA PlotStep == PlotInv /\ [PlotNext]_plotVars => PlotInv'
<1>1. ASSUME PlotInv, PlotNext PROVE PlotInv'
  BY <1>1, ClickKeeps, AnswerKeeps, FailureKeeps, DrawingKeeps, ReloadKeeps DEF PlotNext
<1>2. ASSUME PlotInv, UNCHANGED plotVars PROVE PlotInv'
  <2>1. PlotTypeOK'
    BY <1>2 DEF plotVars, PlotInv, PlotTypeOK
  <2>2. OrderLeavesNoTrace' /\ Unfolded' = Unfolded /\ IsGraph(graph')
    BY <1>2, SameGraph DEF plotVars, PlotInv
  <2>3. ClicksInAddress'
    BY <1>2, <2>2 DEF plotVars, PlotInv, ClicksInAddress
  <2>4. QED
    BY <2>1, <2>2, <2>3 DEF PlotInv
<1>3. QED
  BY <1>1, <1>2

(* In whatever order the user clicks and the objects arrive, each with its neighbours
   one at a time, the graph is that of the expanded objects; and its address leads to
   it again if the user has waited. For any objects and relations, and any bound on the
   requests.                                                                          *)
THEOREM GraphFollowsClicks == PlotSpec => []GraphOfTheClicks
<1>1. PlotInv => GraphOfTheClicks
  BY DEF PlotInv, ClicksInAddress, GraphOfTheClicks, AddressShowsGraph
<1>2. QED
  BY <1>1, PlotInitially, PlotStep, PTL DEF PlotSpec

-------------------------------------------------------------------------------
(* The keys and indices in positions, and the paths that are made of them. *)
PositionKeys == UNION {{n[i] : i \in DOMAIN n} : n \in DOMAIN Shape}
Positions == Seq(PositionKeys)
Paths == Seq(Steps)

NoneIn(at, S) == \A i \in DOMAIN at : at[i] \notin S

(* A sequence of positions, each reached from the one before. *)
IsWay(way, at) ==
    way = [i \in 0..Len(at) |-> IF i = 0 THEN << >> ELSE Asking(way[i - 1], at[i])]

Finds(path, views) == \A v \in views : path = PathOf(v)

(* The path of a context is that of its view, and what it has left for later finds its
   values by the path it had then, unless there is a reason.                        *)
Lefts == {d \in [views : SUBSET DOMAIN Shape, was : Paths, why : SUBSET Reasons] :
             d.why = {} => Finds(d.was, d.views)}
Contexts == {c \in [view : DOMAIN Shape, parentPath : Paths, lastPath : Paths,
                    why : SUBSET Reasons, left : SUBSET Lefts] :
                c.why = {} => c.parentPath = PathOf(c.view)}
Laters == {d \in [views : SUBSET DOMAIN Shape, was : Paths, last : Paths,
                  why : SUBSET Reasons] :
              d.why = {} /\ d.last = d.was => Finds(d.last, d.views)}

LinkFits ==
    /\ link.path \in Paths /\ link.to \in DOMAIN Shape /\ link.why \subseteq Reasons
    /\ link.why = {} => link.path = PathOf(link.to)

TemplateInv == open \in Seq(Contexts) /\ deferred \subseteq Laters /\ LinkFits

-------------------------------------------------------------------------------
(* Of numbers there is a least. *)
LEMMA LeastNumber ==
    ASSUME NEW T, T \subseteq Nat, T # {}
    PROVE  \E x \in T : \A y \in T : x =< y
<1>1. PICK x \in T : \A y \in T : <<y, x>> \notin OpToRel(<, Nat)
  BY NatLessThanWellFounded, WFMin, Zenon
<1>2. \A y \in T : ~(y < x)
  BY <1>1, Zenon DEF OpToRel
<1>3. QED
  BY <1>2

(* All but the last of a sequence. *)
LEMMA FrontOf ==
    ASSUME NEW S, NEW s \in Seq(S), s # << >>
    PROVE  /\ Front(s) \in Seq(S) /\ Last(s) \in S /\ Len(s) \in Nat \ {0}
           /\ Len(Front(s)) = Len(s) - 1 /\ Last(s) = s[Len(s)]
           /\ \A k \in 1..Len(s) - 1 : Front(s)[k] = s[k]
           /\ s = Append(Front(s), Last(s))
<1>1. /\ Front(s) \in Seq(S) /\ Len(s) \in Nat \ {0} /\ Len(Front(s)) = Len(s) - 1
      /\ \A k \in 1..Len(s) - 1 : Front(s)[k] = s[k]
  BY PopOf DEF Pop, Front
<1>2. Last(s) = s[Len(s)] /\ Last(s) \in S
  BY <1>1 DEF Last
<1> DEFINE t == Append(Front(s), Last(s))
<1>3. t \in Seq(S) /\ Len(t) = Len(s) /\ \A k \in 1..Len(s) : t[k] = s[k]
  BY <1>1, <1>2
<1> HIDE DEF t
<1>4. t = s
  BY <1>3
<1>5. QED
  BY <1>1, <1>2, <1>4 DEF t

LEMMA PositionsAre ==
    /\ DOMAIN Shape \subseteq Positions
    /\ \A v \in DOMAIN Shape : \A name : IsPosition(name) /\ v \o name \in DOMAIN Shape
         => name \in Positions
<1>1. ASSUME NEW n \in DOMAIN Shape PROVE n \in Positions
  <2>1. n \in Seq({n[i] : i \in DOMAIN n})
    BY ShapeAssumption DEF IsPosition
  <2>2. {n[i] : i \in DOMAIN n} \subseteq PositionKeys
    BY DEF PositionKeys
  <2>3. \A i \in 1..Len(n) : n[i] \in PositionKeys
    BY <2>1, <2>2
  <2>4. QED
    BY <2>1, <2>3 DEF Positions
<1>2. ASSUME NEW v \in DOMAIN Shape, NEW name, IsPosition(name), v \o name \in DOMAIN Shape
      PROVE  name \in Positions
  <2> DEFINE T == {name[i] : i \in DOMAIN name}
             at == v \o name
  <2>1. name \in Seq(T)
    BY <1>2 DEF IsPosition
  <2>2. v \in Seq(PositionKeys) /\ at \in Seq(PositionKeys)
    BY <1>1, <1>2 DEF Positions
  <2>3. v \in Seq(PositionKeys \cup T) /\ name \in Seq(PositionKeys \cup T)
    <3> HIDE DEF T
    <3>1. QED
      BY <2>1, <2>2
  <2>4. \A i \in 1..Len(name) : name[i] = at[Len(v) + i] /\ Len(v) + i \in 1..Len(at)
    <3> HIDE DEF T
    <3>1. QED
      BY <2>3
  <2>5. \A i \in 1..Len(name) : name[i] \in PositionKeys
    <3> HIDE DEF at
    <3>1. QED
      BY <2>2, <2>4
  <2>6. QED
    <3> HIDE DEF T
    <3>1. QED
      BY <2>1, <2>5 DEF Positions
<1>3. QED
  BY <1>1, <1>2

-------------------------------------------------------------------------------
(* The path of a position, by induction over its length: the way to it exists, and it
   is one.                                                                          *)
LEMMA AskingIs ==
    ASSUME NEW path \in Paths, NEW k \in PositionKeys
    PROVE  /\ Asking(path, k) \in Paths
           /\ k \in Indices => Asking(path, k) = Starred(path)
           /\ k \notin Indices =>
                Asking(path, k) = Append(path, [key |-> k, stars |-> 0])
<1>1. CASE k \notin Indices
  <2>1. [key |-> k, stars |-> 0] \in Steps
    BY DEF Steps, PositionKeys
  <2>2. QED
    BY <1>1, <2>1 DEF Asking, Paths
<1>2. CASE k \in Indices /\ path = << >>
  <2> DEFINE s == [path[Len(path)] EXCEPT !.stars = @ + 1]
  <2>1. Asking(path, k) = [path EXCEPT ![Len(path)] = s]
    BY <1>2 DEF Asking
  <2> HIDE DEF s
  <2>2. [path EXCEPT ![Len(path)] = s] = [i \in 1..0 |-> IF i = Len(path) THEN s ELSE path[i]]
    BY <1>2
  <2>3. [i \in 1..0 |-> IF i = Len(path) THEN s ELSE path[i]] = << >>
    OBVIOUS
  <2>4. QED
    BY <1>2, <2>1, <2>2, <2>3 DEF Starred
<1>3. CASE k \in Indices /\ path # << >>
  <2>1. path \in Seq(Steps) /\ Len(path) \in 1..Len(path) /\ path[Len(path)] \in Steps
    BY <1>3 DEF Paths
  <2> DEFINE s == [path[Len(path)] EXCEPT !.stars = @ + 1]
  <2>2. s \in Steps
    BY <2>1 DEF Steps
  <2>3. Asking(path, k) = [path EXCEPT ![Len(path)] = s] /\ Asking(path, k) = Starred(path)
    BY <1>3 DEF Asking, Starred
  <2> HIDE DEF s
  <2>4. QED
    BY <1>3, <2>1, <2>2, <2>3 DEF Paths
<1>4. QED
  BY <1>1, <1>2, <1>3

LEMMA WaysAgree ==
    ASSUME NEW at, NEW to, NEW way, NEW road, IsWay(way, at), IsWay(road, to),
           Len(at) \in Nat, Len(to) \in Nat, NEW n \in Nat, n =< Len(at), n =< Len(to),
           \A i \in 1..n : at[i] = to[i]
    PROVE  \A i \in 0..n : way[i] = road[i]
<1> DEFINE T == {i \in 0..n : way[i] # road[i]}
<1>1. ASSUME T # {} PROVE FALSE
  <2>1. T \subseteq Nat
    OBVIOUS
  <2>2. PICK i \in T : \A j \in T : i =< j
    <3> HIDE DEF T
    <3>1. QED
      BY <1>1, <2>1, LeastNumber
  <2>3. CASE i = 0
    BY <2>2, <2>3 DEF IsWay
  <2>4. CASE i # 0
    <3>1. i - 1 \in 0..n /\ i - 1 \notin T /\ i \in 1..n
      BY <2>2, <2>4
    <3>2. way[i - 1] = road[i - 1]
      BY <3>1
    <3>3. way[i] = Asking(way[i - 1], at[i]) /\ road[i] = Asking(road[i - 1], to[i])
      BY <2>4, <3>1 DEF IsWay
    <3>4. QED
      BY <2>2, <3>1, <3>2, <3>3
  <2>5. QED
    BY <2>3, <2>4
<1>2. QED
  BY <1>1

LEMMA WayOn ==
    ASSUME NEW at \in Positions, at # << >>, NEW way, IsWay(way, Front(at))
    PROVE  IsWay([i \in 0..Len(at) |->
                     IF i = Len(at) THEN Asking(way[Len(at) - 1], Last(at)) ELSE way[i]], at)
<1> DEFINE n == Len(at)
           on == [i \in 0..n |-> IF i = n THEN Asking(way[n - 1], Last(at)) ELSE way[i]]
<1>1. /\ n \in Nat \ {0} /\ Len(Front(at)) = n - 1 /\ Last(at) = at[n]
      /\ \A i \in 1..n - 1 : Front(at)[i] = at[i]
  BY FrontOf DEF Positions
<1> HIDE DEF n
<1>2. ASSUME NEW i \in 0..n
      PROVE  on[i] = IF i = 0 THEN << >> ELSE Asking(on[i - 1], at[i])
  <2>1. CASE i = 0
    BY <1>1, <2>1 DEF IsWay
  <2>2. CASE i = n
    <3>1. on[n] = Asking(way[n - 1], at[n]) /\ on[n - 1] = way[n - 1] /\ n # 0
      BY <1>1
    <3>2. QED
      BY <2>2, <3>1
  <2>3. CASE i # 0 /\ i # n
    <3>1. i \in 0..n - 1 /\ i - 1 \in 0..n - 1 /\ i \in 1..n - 1
      BY <1>1, <2>3
    <3>2. on[i] = way[i] /\ on[i - 1] = way[i - 1] /\ Front(at)[i] = at[i]
      BY <1>1, <2>3, <3>1
    <3>3. way[i] = Asking(way[i - 1], Front(at)[i])
      BY <1>1, <2>3, <3>1 DEF IsWay
    <3>4. QED
      BY <2>3, <3>2, <3>3
  <2>4. QED
    BY <2>1, <2>2, <2>3
<1>3. IsWay(on, at)
  <2> HIDE DEF on
  <2>1. on = [i \in 0..n |-> on[i]]
    BY DEF on
  <2>2. QED
    BY <1>2, <2>1 DEF IsWay, n
<1>4. QED
  BY <1>3 DEF n

LEMMA WaysExist ==
    ASSUME NEW at \in Positions
    PROVE  \E way : IsWay(way, at)
<1> DEFINE Bad(n) == \E p \in Positions : Len(p) = n /\ ~\E way : IsWay(way, p)
           T == {n \in Nat : Bad(n)}
<1>1. ASSUME T # {} PROVE FALSE
  <2>1. PICK n \in T : \A m \in T : n =< m
    <3>1. T \subseteq Nat
      OBVIOUS
    <3> HIDE DEF T
    <3>2. QED
      BY <1>1, <3>1, LeastNumber
  <2>2. PICK p \in Positions : Len(p) = n /\ ~\E way : IsWay(way, p)
    BY <2>1
  <2>3. CASE p = << >>
    <3>1. IsWay([i \in 0..0 |-> << >>], p)
      BY <2>3 DEF IsWay
    <3>2. QED
      BY <2>2, <3>1
  <2>4. CASE p # << >>
    <3>1. Front(p) \in Positions /\ Len(Front(p)) = n - 1 /\ n \in Nat \ {0}
      BY <2>2, <2>4, FrontOf DEF Positions
    <3>2. n - 1 \notin T
      BY <2>1, <3>1
    <3>3. PICK way : IsWay(way, Front(p))
      BY <3>1, <3>2
    <3>4. QED
      BY <2>2, <2>4, <3>3, WayOn
  <2>5. QED
    BY <2>3, <2>4
<1>2. Len(at) \in Nat
  BY DEF Positions
<1>3. QED
  BY <1>1, <1>2

LEMMA PathOfWay ==
    ASSUME NEW at \in Positions, NEW way, IsWay(way, at)
    PROVE  PathOf(at) = way[Len(at)]
<1> DEFINE road == CHOOSE f : f = [i \in 0..Len(at) |->
                                      IF i = 0 THEN << >> ELSE Asking(f[i - 1], at[i])]
<1>1. PathOf(at) = road[Len(at)]
  BY DEF PathOf
<1>2. IsWay(road, at)
  BY DEF IsWay
<1>3. Len(at) \in Nat
  BY DEF Positions
<1> HIDE DEF road
<1>4. \A i \in 0..Len(at) : way[i] = road[i]
  BY <1>2, <1>3, WaysAgree
<1>5. QED
  BY <1>1, <1>3, <1>4

(* One step more. *)
LEMMA PathOfStep ==
    /\ PathOf(<< >>) = << >>
    /\ \A at \in Positions : at # << >> => PathOf(at) = Asking(PathOf(Front(at)), Last(at))
<1>1. PathOf(<< >>) = << >>
  <2>1. << >> \in Positions /\ Len(<< >>) = 0
    BY DEF Positions
  <2>2. PICK way : IsWay(way, << >>)
    BY <2>1, WaysExist
  <2>3. way[0] = << >>
    BY <2>1, <2>2 DEF IsWay
  <2>4. QED
    BY <2>1, <2>2, <2>3, PathOfWay
<1>2. ASSUME NEW at \in Positions, at # << >>
      PROVE  PathOf(at) = Asking(PathOf(Front(at)), Last(at))
  <2>1. Front(at) \in Positions /\ Len(Front(at)) = Len(at) - 1 /\ Len(at) \in Nat \ {0}
    BY <1>2, FrontOf DEF Positions
  <2>2. PICK way : IsWay(way, Front(at))
    BY <2>1, WaysExist
  <2>3. PathOf(Front(at)) = way[Len(at) - 1]
    BY <2>1, <2>2, PathOfWay
  <2> DEFINE on == [i \in 0..Len(at) |->
                     IF i = Len(at) THEN Asking(way[Len(at) - 1], Last(at)) ELSE way[i]]
  <2>4. IsWay(on, at)
    BY <1>2, <2>2, WayOn
  <2>5. on[Len(at)] = Asking(way[Len(at) - 1], Last(at))
    BY <2>1
  <2> HIDE DEF on
  <2>6. QED
    BY <2>3, <2>4, <2>5, PathOfWay
<1>3. QED
  BY <1>1, <1>2

(* What holds of the path of << >> and, with that of a position, one step further holds
   of all paths: by a shortest position for which it does not.                      *)
LEMMA Shortest ==
    ASSUME NEW T, T \subseteq Positions, T # {}
    PROVE  \E at \in T : at # << >> => Front(at) \in Positions \ T
<1> DEFINE L == {Len(at) : at \in T}
<1>1. L \subseteq Nat /\ L # {}
  <2>1. \A at \in T : Len(at) \in Nat /\ Len(at) \in L
    BY DEF Positions
  <2>2. L \subseteq Nat
    BY <2>1
  <2>3. QED
    BY <2>1, <2>2
<1>2. PICK n \in L : \A m \in L : n =< m
  <2> HIDE DEF L
  <2>1. QED
    BY <1>1, LeastNumber
<1>3. PICK at \in T : Len(at) = n
  OBVIOUS
<1>4. CASE at # << >>
  <2>1. Front(at) \in Positions /\ Len(Front(at)) = Len(at) - 1 /\ Len(at) \in Nat
    BY <1>4, FrontOf DEF Positions
  <2>2. Front(at) \notin T
    BY <1>2, <1>3, <2>1
  <2>3. QED
    BY <2>1, <2>2
<1>5. QED
  BY <1>4

LEMMA PathsOfPositions == \A at \in Positions : PathOf(at) \in Paths
<1> DEFINE T == {at \in Positions : PathOf(at) \notin Paths}
<1>1. ASSUME T # {} PROVE FALSE
  <2>1. PICK at \in T : at # << >> => Front(at) \in Positions \ T
    <3>1. T \subseteq Positions
      OBVIOUS
    <3> HIDE DEF T
    <3>2. QED
      BY <1>1, <3>1, Shortest
  <2>2. CASE at = << >>
    <3>1. PathOf(at) = << >>
      BY <2>2, PathOfStep
    <3>2. PathOf(at) \in Paths
      BY <3>1 DEF Paths
    <3>3. QED
      BY <2>1, <3>2
  <2>3. CASE at # << >>
    <3>1. PathOf(Front(at)) \in Paths /\ Last(at) \in PositionKeys
      BY <2>1, <2>3, FrontOf DEF Positions
    <3>2. PathOf(at) \in Paths
      BY <2>1, <2>3, <3>1, PathOfStep, AskingIs
    <3>3. QED
      BY <2>1, <3>2
  <2>4. QED
    BY <2>2, <2>3
<1>2. QED
  BY <1>1

(* A name without an index leads on by its keys. *)
LEMMA KeyedOn ==
    ASSUME NEW name \in Positions, name # << >>, NEW path \in Paths
    PROVE  /\ Keyed(name) \in Paths
           /\ path \o Keyed(name)
                = Append(path \o Keyed(Front(name)), [key |-> Last(name), stars |-> 0])
<1> DEFINE n == Len(name)
           f == Keyed(Front(name))
           s == [key |-> Last(name), stars |-> 0]
           a == path \o Keyed(name)
           b == Append(path \o f, s)
<1>1. /\ n \in Nat \ {0} /\ Front(name) \in Positions /\ Len(Front(name)) = n - 1
      /\ Last(name) = name[n] /\ \A i \in 1..n - 1 : Front(name)[i] = name[i]
      /\ \A i \in 1..n : name[i] \in PositionKeys
  BY FrontOf DEF Positions
<1> HIDE DEF n
<1>2. \A k \in PositionKeys : [key |-> k, stars |-> 0] \in Steps
  BY DEF Steps, PositionKeys
<1>3. /\ Keyed(name) \in Seq(Steps) /\ Len(Keyed(name)) = n
      /\ \A i \in 1..n : Keyed(name)[i] = [key |-> name[i], stars |-> 0]
  BY <1>1, <1>2 DEF Keyed, n
<1>4. /\ f \in Seq(Steps) /\ Len(f) = n - 1
      /\ \A i \in 1..n - 1 : f[i] = [key |-> name[i], stars |-> 0]
  <2>1. \A i \in 1..n - 1 : Front(name)[i] \in PositionKeys
    BY <1>1
  <2>2. f = [i \in 1..n - 1 |-> [key |-> Front(name)[i], stars |-> 0]]
    BY <1>1 DEF Keyed
  <2> HIDE DEF f
  <2>3. QED
    BY <1>1, <1>2, <2>1, <2>2
<1>5. s \in Steps /\ s = Keyed(name)[n]
  BY <1>1, <1>2, <1>3
<1> HIDE DEF f, s
<1>6. path \in Seq(Steps) /\ Len(path) \in Nat
  BY DEF Paths
<1> DEFINE g == Keyed(name)
           m == Len(path)
<1>7. g \in Seq(Steps) /\ Len(g) = n /\ \A i \in 1..n - 1 : g[i] = f[i]
  BY <1>3, <1>4, <1>1
<1> HIDE DEF g, m
<1>8. path \o g = Append(path \o f, s)
  <2>1. /\ path \o g \in Seq(Steps) /\ Len(path \o g) = m + n
        /\ \A i \in 1..m + n : (path \o g)[i] = IF i =< m THEN path[i] ELSE g[i - m]
    BY <1>1, <1>6, <1>7 DEF m
  <2>2. /\ path \o f \in Seq(Steps) /\ Len(path \o f) = m + n - 1
        /\ \A i \in 1..m + n - 1 : (path \o f)[i] = IF i =< m THEN path[i] ELSE f[i - m]
    BY <1>1, <1>4, <1>6 DEF m
  <2>3. /\ Append(path \o f, s) \in Seq(Steps) /\ Len(Append(path \o f, s)) = m + n
        /\ Append(path \o f, s)[m + n] = s
        /\ \A i \in 1..m + n - 1 : Append(path \o f, s)[i] = (path \o f)[i]
    BY <1>1, <1>5, <1>6, <2>2 DEF m
  <2>4. ASSUME NEW i \in 1..m + n PROVE (path \o g)[i] = Append(path \o f, s)[i]
    <3>1. CASE i = m + n
      BY <3>1, <1>1, <1>5, <1>6, <2>1, <2>3 DEF m, g
    <3>2. CASE i # m + n
      <4>1. i \in 1..m + n - 1 /\ (i =< m \/ i - m \in 1..n - 1)
        BY <3>2, <1>1, <1>6 DEF m
      <4>2. QED
        BY <4>1, <1>7, <2>1, <2>2, <2>3
    <3>3. QED
      BY <3>1, <3>2
  <2>5. QED
    BY <2>1, <2>3, <2>4
<1>9. QED
  BY <1>3, <1>8 DEF g, s, f, Paths

LEMMA PathOfName ==
    ASSUME NEW at \in Positions
    PROVE  \A name \in Positions :
              NoneIn(name, Indices) => PathOf(at \o name) = PathOf(at) \o Keyed(name)
<1> DEFINE T == {name \in Positions : /\ NoneIn(name, Indices)
                                      /\ PathOf(at \o name) # PathOf(at) \o Keyed(name)}
<1>0. PathOf(at) \in Paths
  BY PathsOfPositions
<1>1. ASSUME T # {} PROVE FALSE
  <2>1. PICK name \in T : name # << >> => Front(name) \in Positions \ T
    <3>1. T \subseteq Positions
      OBVIOUS
    <3> HIDE DEF T
    <3>2. QED
      BY <1>1, <3>1, Shortest
  <2>2. CASE name = << >>
    <3>1. at \o << >> = at /\ Keyed(<< >>) = << >> /\ PathOf(at) \o << >> = PathOf(at)
      BY <1>0 DEF Keyed, Positions, Paths
    <3>2. QED
      BY <2>1, <2>2, <3>1
  <2>3. CASE name # << >>
    <3> DEFINE up == at \o Front(name)
               all == at \o name
    <3>1. /\ name \in Positions /\ NoneIn(name, Indices) /\ Front(name) \in Positions
          /\ Len(name) \in Nat \ {0} /\ Last(name) = name[Len(name)]
          /\ Last(name) \in PositionKeys /\ Len(Front(name)) = Len(name) - 1
          /\ \A i \in 1..Len(name) - 1 : Front(name)[i] = name[i]
          /\ name = Append(Front(name), Last(name))
      BY <2>1, <2>3, FrontOf DEF Positions
    <3>2. NoneIn(Front(name), Indices) /\ Last(name) \notin Indices
      <4>1. DOMAIN name = 1..Len(name) /\ DOMAIN Front(name) = 1..Len(name) - 1
        BY <3>1 DEF Positions
      <4>2. QED
        BY <3>1, <4>1 DEF NoneIn
    <3>3. PathOf(up) = PathOf(at) \o Keyed(Front(name))
      BY <2>1, <2>3, <3>2
    <3>4. all \in Positions /\ all # << >> /\ Front(all) = up /\ Last(all) = Last(name)
      <4>1. up \in Seq(PositionKeys) /\ all = Append(up, Last(name))
        <5> DEFINE f == Front(name)
                   k == Last(name)
        <5>1. f \in Seq(PositionKeys) /\ k \in PositionKeys /\ name = Append(f, k)
              /\ at \in Seq(PositionKeys)
          BY <3>1 DEF Positions
        <5> HIDE DEF f, k
        <5>2. at \o Append(f, k) = Append(at \o f, k) /\ at \o f \in Seq(PositionKeys)
          BY <5>1
        <5>3. QED
          BY <5>1, <5>2 DEF f, k
      <4> HIDE DEF up, all
      <4>2. all \in Seq(PositionKeys) /\ all # << >> /\ Len(all) = Len(up) + 1
            /\ all[Len(all)] = Last(name) /\ \A i \in 1..Len(up) : all[i] = up[i]
        BY <4>1, <3>1
      <4>3. /\ Front(all) \in Seq(PositionKeys) /\ Len(Front(all)) = Len(up)
            /\ Last(all) = Last(name) /\ \A i \in 1..Len(up) : Front(all)[i] = up[i]
        <5>1. /\ Front(all) \in Seq(PositionKeys) /\ Len(Front(all)) = Len(all) - 1
              /\ Last(all) = all[Len(all)] /\ \A i \in 1..Len(all) - 1 : Front(all)[i] = all[i]
          BY <4>2, FrontOf
        <5>2. Len(up) \in Nat /\ Len(all) - 1 = Len(up)
          BY <4>1, <4>2
        <5>3. QED
          BY <4>2, <5>1, <5>2
      <4>4. Front(all) = up
        BY <4>1, <4>3
      <4>5. QED
        BY <4>2, <4>3, <4>4 DEF Positions
    <3> HIDE DEF up, all
    <3>5. PathOf(all) = Asking(PathOf(up), Last(name))
      BY <3>4, PathOfStep
    <3>6. up \in Positions
      BY <3>4, FrontOf DEF Positions
    <3>7. Asking(PathOf(up), Last(name)) = Append(PathOf(up), [key |-> Last(name), stars |-> 0])
      BY <3>1, <3>2, <3>6, PathsOfPositions, AskingIs
    <3>8. PathOf(all) = PathOf(at) \o Keyed(name)
      BY <1>0, <2>3, <3>1, <3>3, <3>5, <3>7, KeyedOn
    <3>9. QED
      BY <2>1, <3>8 DEF all
  <2>4. QED
    BY <2>2, <2>3
<1>2. QED
  BY <1>1

-------------------------------------------------------------------------------
(* The server reads a path without dots in its keys as it is. *)
NoDots(path) == \A i \in DOMAIN path : path[i].key \notin Dotted

LEMMA ParsedPlain ==
    ASSUME NEW path \in Paths, NoDots(path)
    PROVE  Parsed(path) = path
<1> DEFINE n == Len(path)
           w == [i \in 0..n |-> [j \in 1..i |-> path[j]]]
           Reads(f) == f = [i \in 0..n |-> IF i = 0 THEN << >>
                                            ELSE f[i - 1] \o SplitAtDots(path[i])]
           r == CHOOSE f : Reads(f)
<1>1. Parsed(path) = r[n]
  BY DEF Parsed
<1>2. n \in Nat /\ path \in Seq(Steps) /\ \A i \in 1..n : path[i] \in Steps
  BY DEF Paths
<1>3. \A i \in 1..n : SplitAtDots(path[i]) = <<path[i]>>
  BY <1>2 DEF NoDots, SplitAtDots
<1> HIDE DEF n
<1>4. \A i \in 0..n : w[i] \in Seq(Steps) /\ Len(w[i]) = i
                     /\ \A j \in 1..i : w[i][j] = path[j]
  BY <1>2
<1>5. w[0] = << >>
  BY <1>2
<1>6. ASSUME NEW i \in 1..n PROVE w[i] = w[i - 1] \o <<path[i]>>
  <2> DEFINE a == w[i]
             b == w[i - 1]
             c == b \o <<path[i]>>
  <2>1. /\ a \in Seq(Steps) /\ Len(a) = i /\ \A j \in 1..i : a[j] = path[j]
        /\ b \in Seq(Steps) /\ Len(b) = i - 1 /\ \A j \in 1..i - 1 : b[j] = path[j]
        /\ path[i] \in Steps /\ i \in Nat \ {0}
    BY <1>2, <1>4
  <2> HIDE DEF a, b
  <2>2. c \in Seq(Steps) /\ Len(c) = i /\ \A j \in 1..i : c[j] = path[j]
    BY <2>1
  <2> HIDE DEF c
  <2>3. a = c
    BY <2>1, <2>2
  <2>4. QED
    BY <2>3 DEF a, b, c
<1>7. w = [i \in 0..n |-> w[i]]
  OBVIOUS
<1> HIDE DEF w
<1>8. Reads(w)
  <2>1. ASSUME NEW i \in 0..n
        PROVE  w[i] = IF i = 0 THEN << >> ELSE w[i - 1] \o SplitAtDots(path[i])
    <3>1. CASE i = 0
      BY <3>1, <1>5
    <3>2. CASE i # 0
      <4>1. i \in 1..n
        BY <1>2, <3>2
      <4>2. QED
        BY <3>2, <4>1, <1>3, <1>6
    <3>3. QED
      BY <3>1, <3>2
  <2>2. QED
    BY <1>7, <2>1
<1>9. Reads(r)
  BY <1>8
<1> HIDE DEF r
<1>10. \A i \in 0..n : r[i] = IF i = 0 THEN << >> ELSE r[i - 1] \o SplitAtDots(path[i])
  BY <1>9
<1> DEFINE T == {i \in 0..n : r[i] # w[i]}
<1>11. ASSUME T # {} PROVE FALSE
  <2>1. T \subseteq Nat
    OBVIOUS
  <2>2. PICK i \in T : \A j \in T : i =< j
    <3> HIDE DEF T
    <3>1. QED
      BY <1>11, <2>1, LeastNumber
  <2>3. i # 0
    BY <1>2, <1>5, <1>10, <2>2
  <2>4. i \in 1..n /\ i - 1 \in 0..n /\ i - 1 \notin T
    BY <1>2, <2>2, <2>3
  <2>5. r[i - 1] = w[i - 1]
    BY <2>4
  <2>6. r[i] = r[i - 1] \o <<path[i]>> /\ w[i] = w[i - 1] \o <<path[i]>>
    BY <1>3, <1>6, <1>10, <2>3, <2>4
  <2>7. QED
    BY <2>2, <2>5, <2>6
<1>12. r[n] = w[n]
  BY <1>2, <1>11
<1>13. w[n] = path
  <2>1. w[n] \in Seq(Steps) /\ Len(w[n]) = n /\ \A j \in 1..n : w[n][j] = path[j]
    BY <1>2, <1>4
  <2>2. QED
    BY <1>2, <2>1 DEF n
<1>14. QED
  BY <1>1, <1>12, <1>13

LEMMA PathKeys == \A at \in Positions : NoneIn(at, Dotted) => NoDots(PathOf(at))
<1> DEFINE T == {at \in Positions : NoneIn(at, Dotted) /\ ~NoDots(PathOf(at))}
<1>1. ASSUME T # {} PROVE FALSE
  <2>1. PICK at \in T : at # << >> => Front(at) \in Positions \ T
    <3>1. T \subseteq Positions
      OBVIOUS
    <3> HIDE DEF T
    <3>2. QED
      BY <1>1, <3>1, Shortest
  <2>2. CASE at = << >>
    <3>1. PathOf(at) = << >>
      BY <2>2, PathOfStep
    <3>2. NoDots(PathOf(at))
      BY <3>1 DEF NoDots
    <3>3. QED
      BY <2>1, <3>2
  <2>3. CASE at # << >>
    <3>1. /\ at \in Positions /\ NoneIn(at, Dotted) /\ Front(at) \in Positions
          /\ Len(at) \in Nat \ {0} /\ Last(at) = at[Len(at)] /\ Last(at) \in PositionKeys
          /\ Len(Front(at)) = Len(at) - 1 /\ \A i \in 1..Len(at) - 1 : Front(at)[i] = at[i]
      BY <2>1, <2>3, FrontOf DEF Positions
    <3>2. NoneIn(Front(at), Dotted) /\ Last(at) \notin Dotted
      <4>1. DOMAIN at = 1..Len(at) /\ DOMAIN Front(at) = 1..Len(at) - 1
        BY <3>1 DEF Positions
      <4>2. QED
        BY <3>1, <4>1 DEF NoneIn
    <3> DEFINE up == PathOf(Front(at))
               k == Last(at)
    <3>3. up \in Paths /\ NoDots(up)
      BY <2>1, <2>3, <3>1, <3>2, PathsOfPositions
    <3>4. PathOf(at) = Asking(up, k)
      BY <2>3, <3>1, PathOfStep
    <3> HIDE DEF up, k
    <3>5. k \in PositionKeys /\ k \notin Dotted
      BY <3>1, <3>2 DEF k
    <3>6. CASE k \in Indices
      <4>1. PathOf(at) = Starred(up)
        BY <3>3, <3>4, <3>5, <3>6, AskingIs
      <4>2. /\ DOMAIN Starred(up) = DOMAIN up
            /\ \A i \in DOMAIN up : Starred(up)[i].key = up[i].key
        <5>1. CASE up = << >>
          BY <5>1 DEF Starred
        <5>2. CASE up # << >>
          <6> DEFINE s == [up[Len(up)] EXCEPT !.stars = @ + 1]
          <6>1. up \in Seq(Steps) /\ up[Len(up)] \in Steps
            BY <3>3, <5>2 DEF Paths
          <6>2. s.key = up[Len(up)].key
            BY <6>1 DEF Steps
          <6>3. Starred(up) = [up EXCEPT ![Len(up)] = s]
            BY <5>2 DEF Starred
          <6> HIDE DEF s
          <6>4. QED
            BY <6>1, <6>2, <6>3
        <5>3. QED
          BY <5>1, <5>2
      <4>3. NoDots(PathOf(at))
        BY <3>3, <4>1, <4>2 DEF NoDots
      <4>4. QED
        BY <2>1, <4>3
    <3>7. CASE k \notin Indices
      <4> DEFINE s == [key |-> k, stars |-> 0]
      <4>1. PathOf(at) = Append(up, s)
        BY <3>3, <3>4, <3>5, <3>7, AskingIs
      <4>2. up \in Seq(Steps) /\ s \in Steps /\ s.key = k
        BY <3>3, <3>5 DEF Paths, Steps, PositionKeys
      <4> HIDE DEF s
      <4>3. ASSUME NEW i \in DOMAIN Append(up, s) PROVE Append(up, s)[i].key \notin Dotted
        <5>1. \/ i \in DOMAIN up /\ Append(up, s)[i] = up[i]
              \/ Append(up, s)[i] = s
          BY <4>2
        <5>2. QED
          BY <3>3, <3>5, <4>2, <5>1 DEF NoDots
      <4>4. NoDots(PathOf(at))
        BY <4>1, <4>3 DEF NoDots
      <4>5. QED
        BY <2>1, <4>4
    <3>8. QED
      BY <3>6, <3>7
  <2>4. QED
    BY <2>2, <2>3
<1>2. QED
  BY <1>1

-------------------------------------------------------------------------------
LEMMA ContextIs ==
    ASSUME NEW c \in Contexts
    PROVE  /\ c.view \in DOMAIN Shape /\ c.view \in Positions
           /\ c.parentPath \in Paths /\ c.lastPath \in Paths
           /\ c.why \subseteq Reasons /\ c.left \subseteq Lefts
           /\ c.why = {} => c.parentPath = PathOf(c.view)
BY PositionsAre DEF Contexts

LEMMA NewContext ==
    ASSUME NEW node \in DOMAIN Shape, NEW path \in Paths, NEW why, why \subseteq Reasons,
           why = {} => path = PathOf(node)
    PROVE  Context(node, path, why) \in Contexts
BY DEF Context, Contexts

(* A name that is looked up, and what the path says then. *)
LEMMA LookedUpIs ==
    ASSUME NEW c \in Contexts, NEW name, IsPosition(name)
    PROVE  /\ LookedUp(c, name) \in Contexts
           /\ LookedUp(c, name).view = c.view /\ LookedUp(c, name).why = c.why
           /\ LookedUp(c, name).left = c.left
           /\ ~Exists(c, name) => LookedUp(c, name).lastPath = c.parentPath
           /\ Exists(c, name) /\ c.why = {} /\ WithIndex(name) = {} =>
                /\ Shape[c.view \o name] # "array" =>
                      LookedUp(c, name).lastPath = PathOf(c.view \o name)
                /\ Shape[c.view \o name] = "array" =>
                      Finds(LookedUp(c, name).lastPath, Elements(c.view \o name))
<1> DEFINE at == c.view \o name
           newPath == IF Exists(c, name) THEN PathTo(c, name) ELSE c.parentPath
<1>1. /\ c.view \in Positions /\ c.parentPath \in Paths
      /\ c.why = {} => c.parentPath = PathOf(c.view)
  BY ContextIs
<1>2. ASSUME Exists(c, name) PROVE name \in Positions /\ at \in DOMAIN Shape
  BY <1>2, ContextIs, PositionsAre DEF Exists
<1>3. ASSUME NEW path \in Paths PROVE Starred(path) \in Paths
  <2>1. CASE path = << >>
    BY <2>1 DEF Starred
  <2>2. CASE path # << >>
    <3> DEFINE s == [path[Len(path)] EXCEPT !.stars = @ + 1]
    <3>1. path \in Seq(Steps) /\ path[Len(path)] \in Steps
      BY <2>2 DEF Paths
    <3>2. s \in Steps
      BY <3>1 DEF Steps
    <3>3. Starred(path) = [path EXCEPT ![Len(path)] = s]
      BY <2>2 DEF Starred
    <3> HIDE DEF s
    <3>4. QED
      BY <2>2, <3>1, <3>2, <3>3 DEF Paths
  <2>3. QED
    BY <2>1, <2>2
<1>4. newPath \in Paths
  <2>1. CASE Exists(c, name)
    <3>1. Keyed(name) \in Paths
      <4>1. CASE name = << >>
        BY <4>1 DEF Keyed, Paths
      <4>2. QED
        BY <1>1, <1>2, <2>1, <4>1, KeyedOn
    <3>2. c.parentPath \o Keyed(name) \in Paths
      BY <1>1, <3>1 DEF Paths
    <3>3. QED
      BY <1>3, <2>1, <3>2 DEF PathTo
  <2>2. QED
    BY <1>1, <2>1
<1> HIDE DEF newPath, at
<1>5. LookedUp(c, name) = [c EXCEPT !.lastPath = newPath]
  BY DEF LookedUp, newPath
<1>6. /\ LookedUp(c, name) \in Contexts /\ LookedUp(c, name).lastPath = newPath
      /\ LookedUp(c, name).view = c.view /\ LookedUp(c, name).why = c.why
      /\ LookedUp(c, name).left = c.left
  BY <1>4, <1>5 DEF Contexts
<1>7. ASSUME Exists(c, name), c.why = {}, WithIndex(name) = {}
      PROVE  /\ Shape[at] # "array" => newPath = PathOf(at)
             /\ Shape[at] = "array" => Finds(newPath, Elements(at))
  <2>1. NoneIn(name, Indices)
    BY <1>7 DEF WithIndex, NoneIn
  <2>2. PathOf(at) = c.parentPath \o Keyed(name)
    BY <1>1, <1>2, <1>7, <2>1, PathOfName DEF at
  <2>3. CASE Shape[at] # "array"
    BY <1>7, <2>2, <2>3 DEF newPath, PathTo, at
  <2>4. CASE Shape[at] = "array"
    <3>1. newPath = Starred(PathOf(at))
      BY <1>7, <2>2, <2>4 DEF newPath, PathTo, at
    <3>2. ASSUME NEW e \in Elements(at) PROVE newPath = PathOf(e)
      <4>1. /\ e \in DOMAIN Shape /\ e # << >> /\ Front(e) = at /\ e \in Positions
            /\ Last(e) \in Indices
        BY <2>4, PositionsAre, ShapeAssumption DEF Elements
      <4>2. at \in Positions /\ Last(e) \in PositionKeys
        BY <4>1, FrontOf DEF Positions
      <4>3. PathOf(e) = Asking(PathOf(at), Last(e))
        BY <4>1, PathOfStep
      <4>4. QED
        BY <3>1, <4>1, <4>2, <4>3, AskingIs, PathsOfPositions
    <3>3. QED
      BY <2>4, <3>2 DEF Finds
  <2>5. QED
    BY <2>3, <2>4
<1>8. QED
  BY <1>6, <1>7 DEF newPath, at

(* A context below another. *)
LEMMA PushedIs ==
    ASSUME NEW c \in Contexts, NEW node \in DOMAIN Shape, NEW why, why \subseteq Reasons,
           c.why \cup why = {} => c.lastPath = PathOf(node)
    PROVE  Pushed(c, node, why) \in Contexts
<1>1. c.lastPath \in Paths /\ c.why \cup why \subseteq Reasons
  BY ContextIs
<1>2. QED
  BY <1>1, NewContext DEF Pushed

LEMMA OpenIs ==
    ASSUME NEW stack \in Seq(Contexts), NEW c \in Contexts
    PROVE  /\ stack # << >> => /\ Last(stack) \in Contexts
                              /\ Front(stack) \in Seq(Contexts)
                              /\ Append(Front(stack), c) \in Seq(Contexts)
           /\ Append(stack, c) \in Seq(Contexts)
           /\ <<c>> \in Seq(Contexts)
BY FrontOf

LEMMA NamesAre ==
    /\ \A name \in TagNames : IsPosition(name) /\ WithIndex(name) \subseteq Reasons
    /\ \A k : IsPosition(<<k>>)
<1>1. \A name \in TagNames : IsPosition(name) /\ WithIndex(name) \subseteq Reasons
  BY ShapeAssumption DEF WithIndex, Reasons
<1>2. ASSUME NEW k PROVE IsPosition(<<k>>)
  <2>1. DOMAIN <<k>> = {1} /\ <<k>>[1] = k
    OBVIOUS
  <2>2. {<<k>>[i] : i \in DOMAIN <<k>>} = {k}
    BY <2>1
  <2>3. QED
    BY <2>2 DEF IsPosition
<1>3. QED
  BY <1>1, <1>2

LEMMA TemplateInitially == TemplateInit => TemplateInv
<1> SUFFICES ASSUME TemplateInit PROVE TemplateInv
  OBVIOUS
<1>1. << >> \in DOMAIN Shape /\ << >> \in Paths /\ PathOf(<< >>) = << >>
  BY ShapeAssumption, PathOfStep DEF Paths
<1>2. Context(<< >>, << >>, {}) \in Contexts
  BY <1>1, NewContext
<1>3. open \in Seq(Contexts)
  BY <1>2 DEF TemplateInit
<1>4. QED
  BY <1>1, <1>3 DEF TemplateInit, TemplateInv, LinkFits, NoLink

(* What most of the actions share. *)
LEMMA Quietly ==
    ASSUME TemplateInv, open' \in Seq(Contexts), link' = NoLink, UNCHANGED deferred
    PROVE  TemplateInv'
BY ShapeAssumption, PathOfStep DEF TemplateInv, LinkFits, NoLink, Paths

LEMMA TagKeeps ==
    ASSUME TemplateInv, open # << >>, NEW name \in TagNames, Tag(name)
    PROVE  TemplateInv'
<1>1. open \in Seq(Contexts) /\ Current \in Contexts
  BY FrontOf DEF TemplateInv, Current
<1>2. LookedUp(Current, name) \in Contexts
  BY <1>1, NamesAre, LookedUpIs
<1>3. open' \in Seq(Contexts)
  BY <1>1, <1>2, OpenIs DEF Tag, Now
<1>4. QED
  BY <1>3, Quietly DEF Tag

LEMMA SearchKeeps ==
    ASSUME TemplateInv, open # << >>, NEW name \in TagNames, SearchTag(name)
    PROVE  TemplateInv'
<1> DEFINE c == LookedUp(Current, name)
<1>1. open \in Seq(Contexts) /\ Current \in Contexts
  BY FrontOf DEF TemplateInv, Current
<1>2. /\ c \in Contexts /\ c.view = Current.view /\ c.why = Current.why
      /\ Exists(Current, name) /\ c.why = {} /\ WithIndex(name) = {} =>
           (Shape[c.view \o name] # "array" => c.lastPath = PathOf(c.view \o name))
  BY <1>1, NamesAre, LookedUpIs
<1>3. /\ Exists(c, name) /\ Shape[c.view \o name] = "leaf"
      /\ open' = Now(c) /\ UNCHANGED deferred
      /\ link' = [path |-> c.lastPath, to |-> c.view \o name,
                  why |-> c.why \cup WithIndex(name)]
  BY DEF SearchTag
<1> HIDE DEF c
<1>4. open' \in Seq(Contexts)
  BY <1>1, <1>2, <1>3, OpenIs DEF Now
<1>5. c.lastPath \in Paths /\ c.why \subseteq Reasons /\ WithIndex(name) \subseteq Reasons
  BY <1>2, ContextIs DEF WithIndex, Reasons
<1>6. LinkFits'
  BY <1>2, <1>3, <1>5 DEF Exists, LinkFits
<1>7. QED
  BY <1>3, <1>4, <1>6 DEF TemplateInv

LEMMA SectionKeeps ==
    ASSUME TemplateInv, open # << >>, NEW name \in TagNames, Section(name)
    PROVE  TemplateInv'
<1> DEFINE c == LookedUp(Current, name)
           at == c.view \o name
<1>1. open \in Seq(Contexts) /\ Current \in Contexts
  BY FrontOf DEF TemplateInv, Current
<1>2. /\ c \in Contexts /\ c.view = Current.view /\ c.why = Current.why
      /\ Exists(Current, name) /\ c.why = {} /\ WithIndex(name) = {} =>
           /\ Shape[at] # "array" => c.lastPath = PathOf(at)
           /\ Shape[at] = "array" => Finds(c.lastPath, Elements(at))
  BY <1>1, NamesAre, LookedUpIs
<1>3. PICK node \in SectionViews(at) :
         /\ Exists(c, name) /\ link' = NoLink /\ UNCHANGED deferred
         /\ open' = Append(Now(c), Pushed(c, node, WithIndex(name)))
  BY DEF Section
<1> HIDE DEF c, at
<1>4. node \in DOMAIN Shape
  BY <1>3 DEF SectionViews, Elements, Exists, at
<1>5. c.why \cup WithIndex(name) = {} => c.lastPath = PathOf(node)
  BY <1>2, <1>3 DEF SectionViews, Exists, Finds
<1>6. Pushed(c, node, WithIndex(name)) \in Contexts
  BY <1>2, <1>4, <1>5, NamesAre, PushedIs
<1>7. open' \in Seq(Contexts)
  BY <1>1, <1>2, <1>3, <1>6, OpenIs DEF Now
<1>8. QED
  BY <1>3, <1>7, Quietly

LEMMA PipeKeeps ==
    ASSUME TemplateInv, open # << >>, NEW name \in TagNames, NEW lambda, Pipe(name, lambda)
    PROVE  TemplateInv'
<1> DEFINE c == LookedUp(Current, name)
           at == c.view \o name
           why == WithIndex(name) \cup (IF lambda = "first" THEN {} ELSE {"reshaped"})
<1>1. open \in Seq(Contexts) /\ Current \in Contexts
  BY FrontOf DEF TemplateInv, Current
<1>2. /\ c \in Contexts /\ c.view = Current.view /\ c.why = Current.why
      /\ Exists(Current, name) /\ c.why = {} /\ WithIndex(name) = {} =>
           (Shape[at] = "array" => Finds(c.lastPath, Elements(at)))
  BY <1>1, NamesAre, LookedUpIs
<1>3. PICK node \in Elements(at) :
         /\ Exists(c, name) /\ Shape[at] = (IF lambda = "first" THEN "array" ELSE "object")
         /\ link' = NoLink /\ UNCHANGED deferred
         /\ open' = Append(Now(c), Pushed(c, node, why))
  BY DEF Pipe
<1> HIDE DEF c, at
<1>4. node \in DOMAIN Shape
  BY <1>3 DEF Elements
<1>5. c.why \cup why = {} => c.lastPath = PathOf(node)
  BY <1>2, <1>3 DEF Exists, Finds
<1>6. why \subseteq Reasons
  BY NamesAre DEF Reasons
<1> HIDE DEF why
<1>7. Pushed(c, node, why) \in Contexts
  BY <1>2, <1>4, <1>5, <1>6, PushedIs
<1>8. open' \in Seq(Contexts)
  BY <1>1, <1>2, <1>3, <1>7, OpenIs DEF Now
<1>9. QED
  BY <1>3, <1>8, Quietly

LEMMA RendererKeeps ==
    ASSUME TemplateInv, open # << >>, NEW name, IsPosition(name), Renderer(name)
    PROVE  TemplateInv'
<1> DEFINE c == LookedUp(Current, name)
<1>1. open \in Seq(Contexts) /\ Current \in Contexts
  BY FrontOf DEF TemplateInv, Current
<1>2. /\ c \in Contexts /\ c.view = Current.view /\ c.why = Current.why
      /\ ~Exists(Current, name) => c.lastPath = Current.parentPath
  BY <1>1, NamesAre, LookedUpIs
<1>3. /\ ~Exists(c, name) /\ link' = NoLink /\ UNCHANGED deferred
      /\ open' = Append(Now(c), Pushed(c, c.view, {}))
  BY DEF Renderer
<1> HIDE DEF c
<1>4. c.view \in DOMAIN Shape /\ (c.why = {} => c.lastPath = PathOf(c.view))
  BY <1>1, <1>2, <1>3, ContextIs DEF Exists
<1>5. Pushed(c, c.view, {}) \in Contexts
  BY <1>2, <1>4, PushedIs
<1>6. open' \in Seq(Contexts)
  BY <1>1, <1>2, <1>3, <1>5, OpenIs DEF Now
<1>7. QED
  BY <1>3, <1>6, Quietly

LEMMA PipedKeeps ==
    ASSUME TemplateInv, open # << >>, NEW name \in TagNames, PipedRenderer(name)
    PROVE  TemplateInv'
<1> DEFINE c == LookedUp(Current, name)
<1>1. open \in Seq(Contexts) /\ Current \in Contexts
  BY FrontOf DEF TemplateInv, Current
<1>2. c \in Contexts
  BY <1>1, NamesAre, LookedUpIs
<1>3. /\ link' = NoLink /\ UNCHANGED deferred
      /\ open' = Append(Now(c), Pushed(c, c.view, {"piped"}))
  BY DEF PipedRenderer
<1> HIDE DEF c
<1>4. {"piped"} \subseteq Reasons /\ c.view \in DOMAIN Shape
  BY <1>2, ContextIs DEF Reasons
<1>5. Pushed(c, c.view, {"piped"}) \in Contexts
  BY <1>2, <1>4, PushedIs
<1>6. open' \in Seq(Contexts)
  BY <1>1, <1>2, <1>3, <1>5, OpenIs DEF Now
<1>7. QED
  BY <1>3, <1>6, Quietly

(* A component that finds its values by the path it is left with. *)
LEMMA DeferKeeps ==
    ASSUME TemplateInv, open # << >>, NEW c \in Contexts, NEW views, NEW why,
           views \subseteq DOMAIN Shape, why \subseteq Reasons,
           why = {} => Finds(c.lastPath, views),
           Defer(c, views, why)
    PROVE  TemplateInv'
<1> DEFINE d == [views |-> views, was |-> c.lastPath, why |-> why]
           e == [c EXCEPT !.left = {d}]
<1>1. open \in Seq(Contexts)
  BY DEF TemplateInv
<1>2. d \in Lefts
  BY ContextIs DEF Lefts
<1>3. open' = Now(e) /\ link' = NoLink /\ UNCHANGED deferred
  BY DEF Defer
<1> HIDE DEF d
<1>4. e \in Contexts
  BY <1>2 DEF Contexts
<1> HIDE DEF e
<1>5. open' \in Seq(Contexts)
  BY <1>1, <1>3, <1>4, OpenIs DEF Now
<1>6. QED
  BY <1>3, <1>5, Quietly

LEMMA CollapseKeeps ==
    ASSUME TemplateInv, open # << >>, NEW name, IsPosition(name), Collapse(name)
    PROVE  TemplateInv'
<1> DEFINE c == LookedUp(Current, name)
<1>1. open \in Seq(Contexts) /\ Current \in Contexts
  BY FrontOf DEF TemplateInv, Current
<1>2. /\ c \in Contexts /\ c.view = Current.view /\ c.why = Current.why
      /\ ~Exists(Current, name) => c.lastPath = Current.parentPath
  BY <1>1, NamesAre, LookedUpIs
<1>3. ~Exists(c, name) /\ Defer(c, {c.view}, {})
  BY DEF Collapse
<1> HIDE DEF c
<1>4. Current.why = {}
  BY <1>3 DEF Defer
<1>5. c.view \in DOMAIN Shape /\ c.lastPath = PathOf(c.view)
  BY <1>1, <1>2, <1>3, <1>4, ContextIs DEF Exists
<1>6. Finds(c.lastPath, {c.view})
  BY <1>5 DEF Finds
<1>7. QED
  BY <1>2, <1>3, <1>5, <1>6, DeferKeeps

LEMMA PaginatedKeeps ==
    ASSUME TemplateInv, open # << >>, NEW name \in TagNames, Paginated(name)
    PROVE  TemplateInv'
<1> DEFINE c == LookedUp(Current, name)
           at == c.view \o name
<1>1. open \in Seq(Contexts) /\ Current \in Contexts
  BY FrontOf DEF TemplateInv, Current
<1>2. /\ c \in Contexts /\ c.view = Current.view /\ c.why = Current.why
      /\ Exists(Current, name) /\ c.why = {} /\ WithIndex(name) = {} =>
           (Shape[at] = "array" => Finds(c.lastPath, Elements(at)))
  BY <1>1, NamesAre, LookedUpIs
<1>3. /\ Exists(c, name) /\ Shape[at] = "array"
      /\ Defer(c, Elements(at), WithIndex(name))
  BY DEF Paginated
<1> HIDE DEF c, at
<1>4. Current.why = {}
  BY <1>3 DEF Defer
<1>5. WithIndex(name) = {} => Finds(c.lastPath, Elements(at))
  BY <1>2, <1>3, <1>4 DEF Exists
<1>6. Elements(at) \subseteq DOMAIN Shape
  BY DEF Elements
<1>7. QED
  BY <1>2, <1>3, <1>5, <1>6, NamesAre, DeferKeeps

(* What is left is called with the path of then. *)
LEMMA LeaveKeeps == ASSUME TemplateInv, Leave PROVE TemplateInv'
<1>1. /\ open # << >> /\ open' = Front(open) /\ link' = NoLink
      /\ deferred' = deferred \cup
           {[views |-> d.views, was |-> d.was, last |-> Current.lastPath,
             why |-> Current.why \cup d.why] : d \in Current.left}
  BY DEF Leave
<1>2. open \in Seq(Contexts) /\ Current \in Contexts /\ open' \in Seq(Contexts)
  BY <1>1, FrontOf DEF TemplateInv, Current
<1>3. /\ Current.lastPath \in Paths /\ Current.why \subseteq Reasons
      /\ Current.left \subseteq Lefts
  BY <1>2, ContextIs
<1>4. ASSUME NEW d \in Current.left
      PROVE  [views |-> d.views, was |-> d.was, last |-> Current.lastPath,
              why |-> Current.why \cup d.why] \in Laters
  <2>1. /\ d.views \in SUBSET DOMAIN Shape /\ d.was \in Paths /\ d.why \in SUBSET Reasons
        /\ d.why = {} => Finds(d.was, d.views)
    BY <1>3 DEF Lefts
  <2>2. QED
    BY <1>3, <2>1 DEF Laters
<1>5. deferred' \subseteq Laters
  BY <1>1, <1>4 DEF TemplateInv
<1>6. LinkFits'
  BY <1>1, ShapeAssumption, PathOfStep DEF LinkFits, NoLink, Paths
<1>7. QED
  BY <1>2, <1>5, <1>6 DEF TemplateInv

LEMMA LaterKeeps == ASSUME TemplateInv, NEW d \in deferred, Later(d) PROVE TemplateInv'
<1> DEFINE why == d.why \cup IF d.last = d.was THEN {} ELSE {"later"}
<1>1. PICK node \in d.views :
         open' = <<Context(node, d.last, why)>> /\ link' = NoLink /\ UNCHANGED deferred
  BY DEF Later
<1>2. /\ d.views \in SUBSET DOMAIN Shape /\ d.last \in Paths /\ d.why \in SUBSET Reasons
      /\ d.why = {} /\ d.last = d.was => Finds(d.last, d.views)
  BY DEF TemplateInv, Laters
<1>3. node \in DOMAIN Shape /\ why \subseteq Reasons /\ (why = {} => d.last = PathOf(node))
  BY <1>2 DEF Finds, Reasons
<1> HIDE DEF why
<1>4. Context(node, d.last, why) \in Contexts
  BY <1>2, <1>3, NewContext
<1>5. open' \in Seq(Contexts)
  BY <1>1, <1>4
<1>6. QED
  BY <1>1, <1>5, Quietly

LEMMA TemplateStep == TemplateInv /\ [TemplateNext]_templateVars => TemplateInv'
<1>1. ASSUME TemplateInv, TemplateNext PROVE TemplateInv'
  <2>1. CASE open # << >> /\ \E name \in {<<"section">>, <<"$section">>} : Renderer(name)
    BY <1>1, <2>1, NamesAre, RendererKeeps
  <2>2. CASE open # << >> /\ \E name \in {<<"collapse">>, <<"$collapse">>} : Collapse(name)
    BY <1>1, <2>2, NamesAre, CollapseKeeps
  <2>3. QED
    BY <1>1, <2>1, <2>2, TagKeeps, SearchKeeps, SectionKeeps, PipeKeeps, PipedKeeps,
       PaginatedKeeps, LeaveKeeps, LaterKeeps DEF TemplateNext
<1>2. ASSUME TemplateInv, UNCHANGED templateVars PROVE TemplateInv'
  BY <1>2 DEF templateVars, TemplateInv, LinkFits
<1>3. QED
  BY <1>1, <1>2

(* Whatever a template is made of, a search link of the attribute asks for the place of
   the value it shows, unless a name has an index in it, a lambda has come between, or
   a component is called after its context has moved on; or a key has a dot. For a value
   of any shape and size, any names and any nesting.                                *)
THEOREM LinksFindValues == TemplateSpec => []SearchFindsValue
<1>1. ASSUME TemplateInv PROVE SearchFindsValue
  <2> SUFFICES ASSUME link.why = {}, \A i \in DOMAIN link.to : link.to[i] \notin Dotted
               PROVE  Parsed(link.path) = PathOf(link.to)
    BY DEF SearchFindsValue
  <2>1. link.to \in Positions /\ link.path = PathOf(link.to)
    BY <1>1, PositionsAre DEF TemplateInv, LinkFits
  <2>2. NoneIn(link.to, Dotted)
    BY DEF NoneIn
  <2>3. PathOf(link.to) \in Paths /\ NoDots(PathOf(link.to))
    BY <2>1, <2>2, PathsOfPositions, PathKeys
  <2>4. QED
    BY <2>1, <2>3, ParsedPlain
<1>2. QED
  BY <1>1, TemplateInitially, TemplateStep, PTL DEF TemplateSpec
-------------------------------------------------------------------------------
(* What the variables of each part hold is of its kind, whatever the user does. *)
THEOREM PartsKeepTypes ==
    /\ LexSpec => []LexTypeOK
    /\ SuggestSpec => []SuggestTypeOK
    /\ ListSpec => []ListTypeOK
    /\ DataSpec => []DataTypeOK
    /\ PlotSpec => []PlotTypeOK
    /\ TabsSpec => []TabsTypeOK
    /\ RemoteSpec => []RemoteTypeOK
    /\ PagedSpec => []PagedTypeOK
    /\ TemplateSpec => []TemplateTypeOK
    /\ FetchesSpec => []FetchesTypeOK
    /\ TransferSpec => []TransferTypeOK
<1>1. LexSpec => []LexTypeOK
  <2>1. LexInv => LexTypeOK
    BY DEF LexInv
  <2>2. QED
    BY <2>1, LexInitially, LexStep, PTL DEF LexSpec
<1>2. SuggestSpec => []SuggestTypeOK
  <2>1. SuggestInv => SuggestTypeOK
    BY DEF SuggestInv
  <2>2. QED
    BY <2>1, SuggestInitially, SuggestStep, PTL DEF SuggestSpec
<1>3. ListSpec => []ListTypeOK
  <2>1. ListInv => ListTypeOK
    BY DEF ListInv
  <2>2. QED
    BY <2>1, ListInitially, ListStep, PTL DEF ListSpec
<1>4. DataSpec => []DataTypeOK
  <2>1. DataInv => DataTypeOK
    BY DEF DataInv
  <2>2. QED
    BY <2>1, DataInitially, DataStep, PTL DEF DataSpec
<1>5. PlotSpec => []PlotTypeOK
  <2>1. PlotInv => PlotTypeOK
    BY DEF PlotInv
  <2>2. QED
    BY <2>1, PlotInitially, PlotStep, PTL DEF PlotSpec
<1>6. TabsSpec => []TabsTypeOK
  <2>1. TabsInv => TabsTypeOK
    BY DEF TabsInv
  <2>2. QED
    BY <2>1, TabsInitially, TabsStep, PTL DEF TabsSpec
<1>7. RemoteSpec => []RemoteTypeOK
  <2>1. RemoteInv => RemoteTypeOK
    BY DEF RemoteInv
  <2>2. QED
    BY <2>1, RemoteInitially, RemoteStep, PTL DEF RemoteSpec
<1>8. PagedSpec => []PagedTypeOK
  <2>1. PagedInv => PagedTypeOK
    BY DEF PagedInv
  <2>2. QED
    BY <2>1, PagedInitially, PagedStep, PTL DEF PagedSpec
<1>9. TemplateSpec => []TemplateTypeOK
  <2>1. ASSUME TemplateInv PROVE TemplateTypeOK
    <3>1. \A path \in Paths : PathsOfSteps(path)
      BY DEF Paths, PathsOfSteps
    <3>2. ASSUME NEW i \in DOMAIN open
          PROVE  /\ open[i].view \in DOMAIN Shape /\ open[i].why \subseteq Reasons
                 /\ PathsOfSteps(open[i].parentPath) /\ PathsOfSteps(open[i].lastPath)
      <4>1. open[i] \in Contexts
        BY <2>1 DEF TemplateInv
      <4>2. QED
        BY <3>1, <4>1, ContextIs
    <3>3. \A d \in deferred : d.views \subseteq DOMAIN Shape /\ d.why \subseteq Reasons
      BY <2>1 DEF TemplateInv, Laters
    <3>4. QED
      BY <2>1, <3>1, <3>2, <3>3 DEF TemplateInv, LinkFits, TemplateTypeOK
  <2>2. QED
    BY <2>1, TemplateInitially, TemplateStep, PTL DEF TemplateSpec
<1>10. FetchesSpec => []FetchesTypeOK
  <2>1. FetchesInv => FetchesTypeOK
    BY DEF FetchesInv
  <2>2. QED
    BY <2>1, FetchesInitially, FetchesStep, PTL DEF FetchesSpec
<1>11. TransferSpec => []TransferTypeOK
  <2>1. TransferInv => TransferTypeOK
    BY DEF TransferInv
  <2>2. QED
    BY <2>1, TransfersInitially, TransferStep, PTL DEF TransferSpec
<1>12. QED
  BY <1>1, <1>2, <1>3, <1>4, <1>5, <1>6, <1>7, <1>8, <1>9, <1>10, <1>11
===============================================================================
