------------------------------- MODULE RecentList -------------------------------
(* The list of recent objects (RecentView.tsx, RecentViewList.tsx): the query is in
   the address of the page; the list is loaded page by page as the user scrolls,
   each page asked for by the last element of the one before it; the number of
   results is counted by a request of its own.

   The list is a reducer with two counters, pageToLoad and loadedPages, and an
   effect that depends on the two: when one of them has changed, the request of
   the effect before is cancelled and, if they differ, the next page is asked for.
   A page is known by the query it was asked with and the page it follows; a query
   stands for the text with the remote instance that is searched.               *)
EXTENDS Naturals, Sequences, FiniteSets

CONSTANTS
    Queries,        \* the queries the user tries
    EmptyQuery,     \* the one without a condition
    None,           \* no query: nothing counted, no error
    DisallowEmpty,  \* the search view shows nothing for it
    MaxPages,       \* bound: pages loaded for a query
    MaxRequests     \* bound: requests of a kind under way at a time

ASSUME ListAssumption ==
    /\ EmptyQuery \in Queries
    /\ None \notin Queries
    /\ DisallowEmpty \in BOOLEAN
    /\ MaxPages \in Nat
    /\ MaxRequests \in Nat \ {0}

VARIABLES
    query,      \* currentQuery: the query in the address
    list,       \* the state of the reducer
    loads,      \* requests for pages: [query, after, live]
    counting,   \* countingEnabled
    count,      \* the query whose results objectCount is, or None while counting
    counts,     \* requests for the count, by query
    error       \* the query whose error is shown under the bar, or None

listVars == <<query, list, loads, counting, count, counts, error>>

Page == [query : Queries, after : Nat]

NoList == [pageToLoad |-> 0, loadedPages |-> 0, hasMore |-> FALSE,
           failed |-> FALSE, pages |-> <<>>]

-------------------------------------------------------------------------------
(* Mutant: the request of the former effect is not cancelled. *)
NotCancelled(requests) == requests

(* The reducer. *)
Reloaded == [NoList EXCEPT !.pageToLoad = 1]
NextPage == [list EXCEPT !.pageToLoad = list.loadedPages + 1]
PageLoaded(p, more) ==
    [list EXCEPT !.loadedPages = @ + 1, !.hasMore = more,
                 !.pages = IF more THEN Append(@, p) ELSE @]
LoadFailed == [list EXCEPT !.loadedPages = @ + 1, !.hasMore = FALSE, !.failed = TRUE]

PendingLoad == list.pageToLoad > list.loadedPages

Live == {r \in loads : r.live}

(* The clean-up of the effect. *)
Cancelled(requests) == {[r EXCEPT !.live = FALSE] : r \in requests}

(* The reducer has made l of the list, in a page with the query q, while requests
   are under way: the load effect runs only if one of the counters has changed. *)
Dispatch(l, q, requests) ==
    /\ list' = l
    /\ loads' =
         IF <<l.pageToLoad, l.loadedPages>> = <<list.pageToLoad, list.loadedPages>>
         THEN requests
         ELSE Cancelled(requests) \cup
              (IF l.pageToLoad > l.loadedPages
               THEN {[query |-> q, after |-> Len(l.pages), live |-> TRUE]} ELSE {})

(* The effect of a changed query on the list. *)
ResetList(q) ==
    IF q = EmptyQuery /\ DisallowEmpty
    THEN Dispatch(NoList, q, loads) ELSE Dispatch(Reloaded, q, loads)

(* submitQuery with counting on or off: the count is asked for anew. The request
   before it goes on: its cancelling function is not kept by anybody. *)
Count(q, on) ==
    IF on THEN count' = None /\ counts' = counts \cup {q} ELSE UNCHANGED <<count, counts>>

-------------------------------------------------------------------------------
(* After mounting: the first page has been asked for. *)
ListInit ==
    /\ query \in Queries
    /\ counting = FALSE
    /\ count = None
    /\ counts = {}
    /\ error = None
    /\ IF query = EmptyQuery /\ DisallowEmpty
       THEN list = NoList /\ loads = {}
       ELSE /\ list = Reloaded
            /\ loads = {[query |-> query, after |-> 0, live |-> TRUE]}

(* setCurrentQuery: the bar is submitted or cleared, a quick query is chosen, a
   value of a row is added to the query. The error goes away; the effects run if
   the query is another one. *)
Search(q) ==
    /\ query' = q
    /\ error' = None
    /\ IF q = query THEN UNCHANGED <<list, loads, count, counts>>
                    ELSE ResetList(q) /\ Count(q, counting)
    /\ Cardinality(loads') =< MaxRequests
    /\ UNCHANGED counting

(* The count button: the query is submitted again. *)
ToggleCount ==
    /\ counting' = ~counting
    /\ error' = None
    /\ Count(query, ~counting)
    /\ UNCHANGED <<query, list, loads>>

(* The user has scrolled to the end of the list. *)
HasMore == list.hasMore /\ ~PendingLoad

LoadMore ==
    /\ HasMore
    /\ list.loadedPages < MaxPages
    /\ Dispatch(NextPage, query, loads)
    /\ Cardinality(loads') =< MaxRequests
    /\ UNCHANGED <<query, counting, count, counts, error>>

(* A page arrives, with or without elements; a cancelled request is ignored. *)
PageArrives(r) ==
    /\ IF r.live
       THEN \E more \in BOOLEAN :
               Dispatch(PageLoaded([query |-> r.query, after |-> r.after], more),
                        query, loads \ {r})
       ELSE loads' = loads \ {r} /\ UNCHANGED list
    /\ UNCHANGED <<query, counting, count, counts, error>>

PageFails(r) ==
    /\ IF r.live
       THEN Dispatch(LoadFailed, query, loads \ {r}) /\ error' = r.query
       ELSE loads' = loads \ {r} /\ UNCHANGED <<list, error>>
    /\ UNCHANGED <<query, counting, count, counts>>

(* The count of a query arrives, whatever the query is by now. *)
CountArrives(q) ==
    /\ counts' = counts \ {q}
    /\ count' = q
    /\ UNCHANGED <<query, list, loads, counting, error>>

CountFails(q) ==
    /\ counts' = counts \ {q}
    /\ error' = q
    /\ UNCHANGED <<query, list, loads, counting, count>>

Reply ==
    \/ \E r \in loads : PageArrives(r) \/ PageFails(r)
    \/ \E q \in counts : CountArrives(q) \/ CountFails(q)

ListNext ==
    \/ \E q \in Queries : Search(q)
    \/ ToggleCount
    \/ LoadMore
    \/ Reply

(* A request is answered or times out after the seconds axios was given. *)
ListFairness ==
    /\ WF_listVars(\E r \in Live : PageArrives(r) \/ PageFails(r))
    /\ WF_listVars(\E q \in counts : CountArrives(q) \/ CountFails(q))

ListSpec == ListInit /\ [][ListNext]_listVars /\ ListFairness

-------------------------------------------------------------------------------
ListTypeOK ==
    /\ query \in Queries
    /\ list \in [pageToLoad : Nat, loadedPages : Nat, hasMore : BOOLEAN,
                 failed : BOOLEAN, pages : Seq(Page)]
    /\ loads \subseteq [query : Queries, after : Nat, live : BOOLEAN]
    /\ counting \in BOOLEAN
    /\ count \in Queries \cup {None}
    /\ counts \subseteq Queries
    /\ error \in Queries \cup {None}

(* "Loading..." is shown exactly while one request is live, and never two: no
   page is appended twice, and none is waited for that nobody asked for. *)
OneLoad ==
    /\ PendingLoad <=> Live # {}
    /\ \A r, s \in Live : r = s

(* The list is made of consecutive pages: none is missing and none there twice. *)
PagesInOrder ==
    /\ \A k \in 1..Len(list.pages) : list.pages[k].after = k - 1
    /\ \A r \in Live : r.after = Len(list.pages)

(* All pages behind the first are results of the query of the bar. *)
LaterPagesMatch ==
    /\ \A k \in 2..Len(list.pages) : list.pages[k].query = query
    /\ \A r \in Live : r.after > 0 => r.query = query

(* A page that was asked for arrives, or its failure is shown. *)
LoadingEnds == []<>(~PendingLoad)

(* What the comment at the effect says, "If query changes, reset state": the list
   then shows the results of the new query. *)
ShowsItsQuery == \A k \in 1..Len(list.pages) : list.pages[k].query = query

(* However the query changes while pages are loaded: one request at a time, its page the
   next one, and every page behind the first of the query that is asked now.      *)
PagesOfTheQuery == OneLoad /\ PagesInOrder /\ LaterPagesMatch
===============================================================================
