-------------------------------- MODULE PagedLists --------------------------------
(* The lists of the web client that are fetched whole and shown by pages: the users,
   the groups and the attributes of the settings ("settings"), the users who wait to
   be accepted ("pending"), the relations of an object ("relations") and its comments
   ("comments"). The number of the page is a state of its own. What moves it back when
   the list gets shorter differs: a filter returns to the first page, the box of
   relations guesses from the count it knows, the comments look at what has arrived,
   and the pending users do nothing.

   Of a list only its length matters here. An answer is read by the server at the
   moment it arrives.                                                              *)
EXTENDS Naturals

CONSTANTS
    PerPage,   \* itemsCountPerPage
    MaxItems   \* bound: the length of a list

ASSUME PagesAssumption == PerPage \in Nat \ {0} /\ MaxItems \in Nat

VARIABLES
    kind,      \* which of the lists
    there,     \* how many items the server has
    known,     \* how many the page has fetched
    matching,  \* how many of these the filter lets through
    page,      \* activePage
    removing,  \* the dialogue has been confirmed and its request is under way
    fetching,  \* a fetch of the list is under way
    overtaken    \* the user went to another object, chose a page or confirmed a removal
               \* before the list was fetched again, or somebody else removed an item

pagedVars == <<kind, there, known, matching, page, removing, fetching, overtaken>>

Kinds == {"settings", "pending", "relations", "comments"}
Filtered == {"settings", "pending"}

-------------------------------------------------------------------------------
(* items.slice((page - 1) * PerPage, page * PerPage): the indices, of n, on a page. *)
Slice(from, to, n) == {i \in 0..(n - 1) : from <= i /\ i < to}
OnPage(n, p) == Slice((p - 1) * PerPage, p * PerPage, n)
PageCount(n) == (n + PerPage - 1) \div PerPage

(* paginateParentChildren: parents come first; children fill up the page on which the
   parents end. *)
ParentsOn(np, p) == OnPage(np, p)
ChildrenOn(np, nc, p) ==
    LET from == (p - 1) * PerPage
        to   == p * PerPage
    IN  IF np < to
        THEN Slice(IF from < np THEN 0 ELSE from - np, to - np, nc)
        ELSE {}

(* updateActivePage. Mutant: looks at the count that is left. *)
MovedBackLate(p, n) == IF p # 1 /\ n % PerPage = 0 THEN p - 1 ELSE p
MovedBack(p, n) == IF p # 1 /\ (n - 1) % PerPage = 0 THEN p - 1 ELSE p

(* The effect of CommentList. *)
BackToFirst(p, n) == IF kind = "comments" /\ n <= PerPage * (p - 1) THEN 1 ELSE p

-------------------------------------------------------------------------------
PagedInit ==
    /\ kind \in Kinds
    /\ there \in 0..MaxItems
    /\ known = 0 /\ matching = 0
    /\ page = 1
    /\ removing = FALSE /\ fetching = TRUE /\ overtaken = FALSE

(* setUsers and the like. *)
Fetched ==
    /\ fetching
    /\ fetching' = FALSE
    /\ known' = there
    /\ matching' \in IF kind \in Filtered THEN 0..there ELSE {there}
    /\ page' = BackToFirst(page, there)
    /\ UNCHANGED <<kind, there, removing, overtaken>>

FetchFailed ==
    /\ fetching /\ fetching' = FALSE
    /\ UNCHANGED <<kind, there, known, matching, page, removing, overtaken>>

(* The poll of the pending users; updateObject of another box of the page. *)
FetchAgain ==
    /\ kind # "settings" /\ ~fetching
    /\ fetching' = TRUE
    /\ UNCHANGED <<kind, there, known, matching, page, removing, overtaken>>

(* onFilterChange. *)
Filter ==
    /\ kind \in Filtered /\ ~removing
    /\ matching' \in 0..known
    /\ page' = 1
    /\ UNCHANGED <<kind, there, known, removing, fetching, overtaken>>

(* A click on a page: there are pages if the list is longer than one. *)
ChoosePage ==
    /\ ~removing /\ matching > PerPage
    /\ page' \in 1..PageCount(matching)
    /\ overtaken' = (overtaken \/ there # known)
    /\ UNCHANGED <<kind, there, known, matching, removing, fetching>>

(* The removal of an item that is shown (or the acceptance of a user): the dialogue
   is confirmed, and the box of relations moves back at once.                     *)
Confirm ==
    /\ kind # "settings" /\ ~removing
    /\ OnPage(matching, page) # {}
    /\ removing' = TRUE
    /\ page' = IF kind = "relations" THEN MovedBack(page, known) ELSE page
    /\ overtaken' = (overtaken \/ there # known)
    /\ UNCHANGED <<kind, there, known, matching, fetching>>

Removed ==
    /\ removing /\ there > 0
    /\ removing' = FALSE
    /\ there' = there - 1
    /\ fetching' = TRUE
    /\ UNCHANGED <<kind, known, matching, page, overtaken>>

RemovalFailed ==
    /\ removing /\ removing' = FALSE
    /\ UNCHANGED <<kind, there, known, matching, page, fetching, overtaken>>

(* To another object whose relations or comments are shown in the same boxes. *)
OtherObject ==
    /\ kind \in {"relations", "comments"} /\ ~removing
    /\ \E n \in 1..MaxItems :
          /\ there' = n /\ known' = n /\ matching' = n
          /\ page' = BackToFirst(page, n)
    /\ overtaken' = TRUE
    /\ UNCHANGED <<kind, removing, fetching>>

SomebodyElse ==
    \/ /\ there < MaxItems /\ there' = there + 1
       /\ UNCHANGED <<kind, known, matching, page, removing, fetching, overtaken>>
    \/ /\ there > 0 /\ there' = there - 1
       /\ overtaken' = TRUE
       /\ UNCHANGED <<kind, known, matching, page, removing, fetching>>

PagedNext ==
    \/ Fetched \/ FetchFailed \/ FetchAgain
    \/ Filter \/ ChoosePage
    \/ Confirm \/ Removed \/ RemovalFailed
    \/ OtherObject \/ SomebodyElse

PagedSpec == PagedInit /\ [][PagedNext]_pagedVars

-------------------------------------------------------------------------------
PagedTypeOK ==
    /\ kind \in Kinds
    /\ there \in 0..MaxItems /\ known \in 0..MaxItems /\ matching \in 0..known
    /\ page \in 1..(PageCount(MaxItems) + 1)
    /\ removing \in BOOLEAN /\ fetching \in BOOLEAN /\ overtaken \in BOOLEAN

(* Whoever goes through the pages of a box sees every parent and every child once,
   and no page but the last is short.                                             *)
OnceEach(np, nc) ==
    LET pages == 1..PageCount(np + nc)
    IN  /\ \A i \in 0..(np - 1) : \E p \in pages :
              \A q \in pages : i \in ParentsOn(np, q) <=> q = p
        /\ \A i \in 0..(nc - 1) : \E p \in pages :
              \A q \in pages : i \in ChildrenOn(np, nc, q) <=> q = p

RelationsOnceEach == \A np \in 0..known : OnceEach(np, known - np)

(* A list that is not empty is not shown as an empty page, unless the user was faster
   than the fetch, or others were at work: then the box of relations may say that
   there are none, and show no pages to choose from. The comments never do, and the
   page of the pending users does whenever the last of a page is accepted.       *)
PageHasItems ==
    matching > 0 /\ OnPage(matching, page) = {} =>
        kind = "pending" \/ (kind = "relations" /\ overtaken)

(* The pages of a list hold all of it, and none is shown empty while there are items. *)
PagesComplete == RelationsOnceEach /\ PageHasItems
================================================================================
