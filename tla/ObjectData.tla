------------------------------- MODULE ObjectData -------------------------------
(* What the page of an object knows about it (ShowObject.tsx and its boxes). The page
   fetches the object of its address; boxes fetch the rest of it, each for itself,
   when the id of the object that is shown has become another one, and the box of
   Karton analyses every ten seconds. A load replaces everything the page knows, any
   other answer is merged into it. No request is ever cancelled, and no answer is
   compared with the address or with what is shown.

   Of a part of the object only is kept whose it is: the data of another object, or
   none at all, is what can go wrong.                                              *)
EXTENDS Naturals, Bags

CONSTANTS
    Objects,    \* the objects that are looked at
    Boxes,      \* the parts that are fetched by boxes
    Nobody,     \* no object
    MaxMoves,   \* bound: how often the user goes to another object
    MaxWaiting  \* bound: requests under way when the user or a timer asks

Polled == "analyses"

ASSUME DataAssumption ==
    /\ Polled \in Boxes
    /\ Nobody \notin Objects
    /\ {"load", "update"} \cap Boxes = {}
    /\ MaxMoves \in Nat /\ MaxWaiting \in Nat

VARIABLES
    objectId,  \* the object of the address
    object,    \* objectState.object: its id and whose its parts are
    pending,   \* the bag of requests under way: [what, of]
    moves,     \* how often the user went to another object
    crossed    \* an answer arrived that was not for the address, or the page was
               \* loaded again, or a request failed; and no load has mended it

dataVars == <<objectId, object, pending, moves, crossed>>

NoObject == [id |-> Nobody, parts |-> [b \in Boxes |-> Nobody]]
Request(what, o) == SetToBag({[what |-> what, of |-> o]})
Lazy(o) == SetToBag({[what |-> b, of |-> o] : b \in Boxes})

-------------------------------------------------------------------------------
(* objectReducer. *)
ObjectLoad(o) == [id |-> o, parts |-> [b \in Boxes |-> Nobody]]
ObjectMerge(r) ==     \* a whole object has no boxes' parts in it
    IF r.what = "update" THEN [object EXCEPT !.id = r.of]
    ELSE [object EXCEPT !.parts[r.what] = r.of]

(* The effects of the boxes run again if the id of the object is another one. *)
EffectsOnMount(new) == IF object = NoObject THEN Lazy(new.id) ELSE EmptyBag     \* mutant
Effects(new) == IF new.id # object.id THEN Lazy(new.id) ELSE EmptyBag

-------------------------------------------------------------------------------
DataInit ==
    /\ objectId \in Objects
    /\ object = NoObject
    /\ pending = Request("load", objectId)
    /\ moves = 0
    /\ crossed = FALSE

(* A link to another object, or the browser's history. *)
GoTo(o) ==
    /\ o # objectId /\ moves < MaxMoves
    /\ objectId' = o
    /\ pending' = pending (+) Request("load", o)
    /\ moves' = moves + 1
    /\ UNCHANGED <<object, crossed>>

(* A handler has changed the relations or the like: updateObject. *)
UpdateObject ==
    /\ object # NoObject /\ BagCardinality(pending) < MaxWaiting
    /\ pending' = pending (+) Request("update", objectId)
    /\ UNCHANGED <<objectId, object, moves, crossed>>

(* The interval of KartonAnalysisBox. Bound: the answer before has arrived. *)
PollAnalyses ==
    /\ object # NoObject
    /\ ~ \E r \in BagToSet(pending) : r.what = Polled
    /\ pending' = pending (+) Request(Polled, object.id)
    /\ UNCHANGED <<objectId, object, moves, crossed>>

Arrives(r) ==
    /\ BagIn(r, pending)
    /\ object' = IF r.what = "load" THEN ObjectLoad(r.of) ELSE ObjectMerge(r)
    /\ pending' = (pending (-) Request(r.what, r.of)) (+) Effects(object')
    /\ crossed' =
         IF r.what = "load" /\ r.of = objectId /\ r.of # object.id THEN FALSE
         ELSE crossed \/ r.of # objectId \/ r.what = "load"
    /\ UNCHANGED <<objectId, moves>>

(* A toast; whatever was there stays. *)
Fails(r) ==
    /\ BagIn(r, pending)
    /\ pending' = pending (-) Request(r.what, r.of)
    /\ crossed' = TRUE
    /\ UNCHANGED <<objectId, object, moves>>

DataRequests == [what : Boxes \cup {"load", "update"}, of : Objects]

DataNext ==
    \/ \E o \in Objects : GoTo(o)
    \/ UpdateObject \/ PollAnalyses
    \/ \E r \in BagToSet(pending) : Arrives(r) \/ Fails(r)

(* The interval runs; a request is answered or times out, and of the polls, which
   are repeated, one gets its answer.                                              *)
DataFairness ==
    /\ WF_dataVars(PollAnalyses)
    /\ \A r \in DataRequests : WF_dataVars(Arrives(r) \/ Fails(r))
    /\ \A o \in Objects : SF_dataVars(Arrives([what |-> Polled, of |-> o]))

DataSpec == DataInit /\ [][DataNext]_dataVars /\ DataFairness

-------------------------------------------------------------------------------
DataTypeOK ==
    /\ objectId \in Objects
    /\ object.id \in Objects \cup {Nobody}
    /\ object.parts \in [Boxes -> Objects \cup {Nobody}]
    /\ BagToSet(pending) \subseteq DataRequests
    /\ moves \in 0..MaxMoves
    /\ crossed \in BOOLEAN

(* Once everything is answered the page shows the object of its address with all of
   its parts, unless an answer has crossed the user's way: one for an object he had
   left, a second load of the one he has come back to, or a failure.              *)
NothingMissing ==
    pending = EmptyBag /\ ~crossed =>
        /\ object.id = objectId
        /\ \A b \in Boxes : object.parts[b] = objectId

(* Whatever has crossed, the analyses come to be those of the object that is shown:
   the box that polls is the only one that mends itself.                          *)
AnalysesSettle == []<>(object.id = Nobody \/ object.parts[Polled] = object.id)
================================================================================
