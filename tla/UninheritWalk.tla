--------------------------- MODULE UninheritWalk ---------------------------
(***************************************************************************)
(* Object.uninherit_share as it is written: a depth-first walk with one    *)
(* shared set of visited objects, the devisor handed down, children before *)
(* the object itself. Sharing!Uninherit describes the set of its outcomes  *)
(* without the walk; here the two are compared on every small graph, for   *)
(* every order in which the relations may have been created.               *)
(***************************************************************************)
EXTENDS UninheritSteps

(* Object.parents, Object.children: newest relation first. *)
ParentList(order, o) ==
    LET of == SelectSeq(order, LAMBDA e : e[2] = o)
    IN  [i \in DOMAIN of |-> of[i][1]]
ChildList(order, o) ==
    LET of == SelectSeq(order, LAMBDA e : e[1] = o)
    IN  [i \in DOMAIN of |-> of[i][2]]

(* Mutant: the parent the walk comes from is not skipped.                  *)
FindAnyDevisor(order, c, o, from, s) ==
    LET others == SelectSeq(ParentList(order, o), LAMBDA q : c[q] # NoPerm)
    IN  IF \E i \in DOMAIN others : Inherits(c[others[i]], s) THEN "same"
        ELSE IF others = <<>> THEN "none" ELSE "other"

(* Object._find_another_devisor for the share "s" of object "from": "same" *)
(* where another parent gives the same permission.                         *)
FindAnotherDevisor(order, c, o, from, s) ==
    LET others == SelectSeq(ParentList(order, o), LAMBDA q : q # from /\ c[q] # NoPerm)
    IN  IF \E i \in DOMAIN others : Inherits(c[others[i]], s) THEN "same"
        ELSE IF others = <<>> THEN "none" ELSE "other"
LastDevisor(order, c, o, from) ==
    c[Last(SelectSeq(ParentList(order, o), LAMBDA q : q # from /\ c[q] # NoPerm))]

RECURSIVE UninheritShare(_, _, _, _, _, _), UninheritChildren(_, _, _, _, _, _)

(* w: the objects visited so far and the column of permissions. *)
UninheritShare(order, w, o, from, s, devisor) ==
    IF o \in w.visited THEN w
    ELSE LET seen == [w EXCEPT !.visited = @ \cup {o}]
             our == w.column[o]
             found == IF devisor # NoPerm THEN "given"
                      ELSE FindAnotherDevisor(order, w.column, o, from, s)
             heir == CASE found = "given" -> devisor
                       [] found = "other" -> LastDevisor(order, w.column, o, from)
                       [] OTHER -> NoPerm
             below == UninheritChildren(order, seen, ChildList(order, o), o, our, heir)
         IN  IF our = NoPerm \/ ~Inherits(our, s) \/ found = "same" THEN seen
             ELSE [below EXCEPT !.column[o] =
                     IF heir = NoPerm THEN NoPerm ELSE MakeInherited(our, heir)]

UninheritChildren(order, w, children, from, s, devisor) ==
    IF children = <<>> THEN w
    ELSE UninheritChildren(order,
           UninheritShare(order, w, Head(children), from, s, devisor),
           Tail(children), from, s, devisor)

(* The loop of Object.remove_parent, for the group of the column. *)
Walk(order, p, c) ==
    IF p = c \/ original[p] = NoPerm THEN original
    ELSE UninheritShare(order, [visited |-> {}, column |-> original], c, p, original[p], NoPerm).column

-----------------------------------------------------------------------------
(* The recursion as a whole and call by call, in the same graphs.          *)
WalkInit == StepInit /\ Init
WalkSpec == WalkInit /\ [][StepNext /\ UNCHANGED vars]_<<stepVars, vars>>

(* The walk ends in an outcome of Uninherit, and every outcome is reached  *)
(* by the walk for some order of the relations.                            *)
SameOutcomes ==
    removed = NoRemoval =>
        \A e \in graph :
            {Walk(order, e[1], e[2]) : order \in SetToSeqs(graph)}
                = Uninherit(graph, original, e[1], e[2])
=============================================================================
