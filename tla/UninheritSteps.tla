--------------------------- MODULE UninheritSteps ---------------------------
(***************************************************************************)
(* Object.uninherit_share call by call, for the permissions of one group:  *)
(* a stack of the calls whose loop over the children is under way, one set *)
(* of visited objects, and the column of permissions they change as they   *)
(* return. A removal in Sharing takes the outcome at once (Uninherit);     *)
(* here it is what the calls leave behind.                                 *)
(*                                                                         *)
(* The lists of parents and children come in any order.                    *)
(***************************************************************************)
EXTENDS Sharing, SequencesExt

CONSTANT Keys   \* the permissions the group may have at the beginning

ASSUME KeysAssumption == Keys \subseteq Perm

VARIABLES
    graph,      \* the relations, pairs <<parent, child>>
    original,   \* the permissions before the removal
    removed,    \* the relation that is being removed, or NoRemoval
    visited,    \* the objects uninherit_share was called for
    column,     \* the permissions now
    calls       \* the calls in their loops: [object, devisor, todo]

stepVars == <<graph, original, removed, visited, column, calls>>

NoRemoval == <<>>

StepInit ==
    /\ graph = {}
    /\ original \in [Objects -> Keys \cup {NoPerm}]
    /\ removed = NoRemoval
    /\ visited = {}
    /\ column = original
    /\ calls = <<>>

(* Before the removal. *)
AddRelation(p, c) ==
    /\ removed = NoRemoval
    /\ Cardinality(graph) < MaxRelations
    /\ <<p, c>> \notin graph
    /\ graph' = graph \cup {<<p, c>>}
    /\ Closed(graph', original)
    /\ UNCHANGED <<original, removed, visited, column, calls>>

Children(o) == {x \in Objects : <<o, x>> \in graph}

(* Object._find_another_devisor of o for the share of "from": the parents  *)
(* it looks at, and whether one of them gives the same permission.         *)
Others(o, from) == Sharing(graph, column, o) \ {from}
GivenAnyway(o, from) == \E q \in Others(o, from) : Inherits(column[q], column[from])

(* Mutant: the devisor is looked for even if there is one.                 *)
SearchedAgain(o, from, devisor) ==
    IF Others(o, from) = {} THEN {NoObject} ELSE Others(o, from)

(* The devisor o goes on with: the one it is given, or another parent.     *)
NewDevisors(o, from, devisor) ==
    IF devisor # NoObject THEN {devisor}
    ELSE IF Others(o, from) = {} THEN {NoObject} ELSE Others(o, from)

Unrelated(o, from) == column[o] = NoPerm \/ ~Inherits(column[o], column[from])

(* The call for o, with the share of "from": it returns at once, or its    *)
(* loop begins, above the calls that wait for it.                          *)
Call(o, from, devisor, waiting) ==
    /\ visited' = visited \cup {o}
    /\ IF o \in visited \/ Unrelated(o, from) \/ (devisor = NoObject /\ GivenAnyway(o, from))
       THEN calls' = waiting
       ELSE \E d \in NewDevisors(o, from, devisor) :
               calls' = Append(waiting, [object |-> o, devisor |-> d, todo |-> Children(o)])
    /\ UNCHANGED <<graph, original, column>>

(* Object.remove_parent: for the share of the group, if the parent has one. *)
RemoveRelation(p, c) ==
    /\ removed = NoRemoval
    /\ <<p, c>> \in graph
    /\ p # c /\ column[p] # NoPerm
    /\ removed' = <<p, c>>
    /\ Call(c, p, NoObject, <<>>)

CallChild ==
    /\ calls # <<>>
    /\ LET top == Last(calls)
       IN  \E o \in top.todo :
              Call(o, top.object, top.devisor,
                   Append(Front(calls), [top EXCEPT !.todo = @ \ {o}]))
    /\ UNCHANGED removed

(* The loop is over: the share is deleted or remapped.                     *)
Finish ==
    /\ calls # <<>>
    /\ LET top == Last(calls)
       IN  /\ top.todo = {}
           /\ column' = [column EXCEPT ![top.object] =
                           IF top.devisor = NoObject THEN NoPerm
                           ELSE MakeInherited(@, column[top.devisor])]
    /\ calls' = Front(calls)
    /\ UNCHANGED <<graph, original, removed, visited>>

StepNext ==
    \/ \E p, c \in Objects : AddRelation(p, c) \/ RemoveRelation(p, c)
    \/ CallChild \/ Finish

StepSpec == StepInit /\ [][StepNext]_stepVars

-----------------------------------------------------------------------------
(* When the last call returns, the permissions are an outcome of Uninherit: *)
(* what the requests of Sharing do at once is what the recursion does, on   *)
(* graphs with diamonds and cycles, in whatever order it meets the objects. *)
RemovalEnds ==
    removed # NoRemoval /\ calls = <<>> =>
        column \in Uninherit(graph, original, removed[1], removed[2])
=============================================================================
