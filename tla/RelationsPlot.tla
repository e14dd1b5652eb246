------------------------------ MODULE RelationsPlot ------------------------------
(* The graph of relations (RelationsPlotView.tsx, DagreD3Plot.tsx). The objects that
   are expanded are in the address of the page, so that it can be shared; a click
   on another one fetches it with its parents and children, and the answers, in
   whatever order they arrive, are added to the graph one object at a time.

   A change of the graph is drawn anew; while that is under way the plot is a copy
   that takes no clicks, and afterwards a click is handled as of the rendering that
   was drawn: with the address it had then.                                        *)
EXTENDS Naturals, FiniteSets, FiniteSetsExt

CONSTANTS
    Nodes,       \* the objects
    Root,        \* the object whose page the graph is on
    MaxAsked     \* bound: objects being fetched at a time

ASSUME PlotAssumption == IsFiniteSet(Nodes) /\ Root \in Nodes /\ MaxAsked \in Nat \ {0}

VARIABLES
    relations,  \* on the server: pairs of parent and child
    graph,      \* the state: [nodes: which are expanded, edges]
    asked,      \* the objects being fetched
    address,    \* the expanded nodes in the address
    drawn,      \* what the handlers of the plot know: [nodes, address]
    drawing,    \* a change is being drawn
    hurried     \* the user has clicked while an object was being fetched

plotVars == <<relations, graph, asked, address, drawn, drawing, hurried>>

NoGraph == [nodes |-> <<>>, edges |-> {}]
Parents(o) == {p \in Nodes : <<p, o>> \in relations}
Children(o) == {c \in Nodes : <<o, c>> \in relations}

-------------------------------------------------------------------------------
(* addNodes: an object that is answered itself comes without an edge and is
   expanded; one that is named by another is new, or stays what it was. *)
Flag(g, o, edge) ==
    IF o \in DOMAIN g.nodes THEN g.nodes[o] \/ edge = <<>> ELSE edge = <<>>

AddNodes(g, o, edge) ==
    [nodes |-> [n \in DOMAIN g.nodes \cup {o} |->
                   IF n = o THEN Flag(g, o, edge) ELSE g.nodes[n]],
     edges |-> g.edges \cup ({edge} \ {<<>>})]

(* updateObject for each of the parents, and for each of the children. *)
WithParents(g, o) ==
    FoldSet(LAMBDA p, h : AddNodes(h, p, <<p, o>>), g, Parents(o))
WithChildren(g, o) ==
    FoldSet(LAMBDA c, h : AddNodes(h, c, <<o, c>>), g, Children(o))

(* expandNode, with its answer: the object, its parents, its children. *)
Expanded(g, o) == WithChildren(WithParents(AddNodes(g, o, <<>>), o), o)

(* onNodeClick: the new address is made of that of the rendering that was drawn. *)
AddressAlone(n) == {n}     \* mutant
AddressWith(n) == drawn.address \cup {n}

-------------------------------------------------------------------------------
(* The page is opened: with the address of somebody else, or as a tab. *)
PlotInit ==
    /\ relations \in SUBSET {r \in Nodes \X Nodes : r[1] # r[2]}
    /\ address \in SUBSET Nodes
    /\ asked = address \cup {Root}
    /\ graph = NoGraph
    /\ drawn = [nodes |-> <<>>, address |-> address]
    /\ drawing = FALSE
    /\ hurried = FALSE

ClickNode(n) ==
    /\ ~drawing
    /\ n \in DOMAIN drawn.nodes /\ ~drawn.nodes[n]
    /\ Cardinality(asked) < MaxAsked
    /\ asked' = asked \cup {n}
    /\ address' = AddressWith(n)
    /\ hurried' = (hurried \/ asked # {})
    /\ UNCHANGED <<relations, graph, drawn, drawing>>

ExpandNode(n) ==
    /\ n \in asked
    /\ asked' = asked \ {n}
    /\ graph' = Expanded(graph, n)
    /\ drawing' = TRUE
    /\ UNCHANGED <<relations, address, drawn, hurried>>

(* Nothing says so: nobody waits for expandNode. *)
ExpandFails(n) ==
    /\ n \in asked
    /\ asked' = asked \ {n}
    /\ UNCHANGED <<relations, graph, address, drawn, drawing, hurried>>

(* updateGraph ends, the last one that was begun. *)
UpdateGraph ==
    /\ drawing
    /\ drawn' = [nodes |-> graph.nodes, address |-> address]
    /\ drawing' = FALSE
    /\ UNCHANGED <<relations, graph, asked, address, hurried>>

(* The page is loaded again. *)
OpenAgain ==
    /\ graph # NoGraph
    /\ graph' = NoGraph
    /\ asked' = address \cup {Root}
    /\ drawn' = [nodes |-> <<>>, address |-> address]
    /\ drawing' = FALSE
    /\ hurried' = FALSE
    /\ UNCHANGED <<relations, address>>

PlotNext ==
    \/ \E n \in Nodes : ClickNode(n) \/ ExpandNode(n) \/ ExpandFails(n)
    \/ UpdateGraph \/ OpenAgain

PlotSpec == PlotInit /\ [][PlotNext]_plotVars

-------------------------------------------------------------------------------
PlotTypeOK ==
    /\ relations \subseteq Nodes \X Nodes
    /\ DOMAIN graph.nodes \subseteq Nodes
    /\ \A n \in DOMAIN graph.nodes : graph.nodes[n] \in BOOLEAN
    /\ graph.edges \subseteq relations
    /\ asked \subseteq Nodes /\ address \subseteq Nodes
    /\ DOMAIN drawn.nodes \subseteq DOMAIN graph.nodes
    /\ drawn.address \subseteq Nodes
    /\ drawing \in BOOLEAN /\ hurried \in BOOLEAN

(* The order in which objects are answered, and an answer that comes twice, leave no
   trace: the graph is that of the expanded objects, their neighbours and all the
   relations of theirs.                                                           *)
Unfolded == {n \in DOMAIN graph.nodes : graph.nodes[n]}

OrderLeavesNoTrace ==
    /\ DOMAIN graph.nodes = Unfolded \cup UNION {Parents(n) \cup Children(n) : n \in Unfolded}
    /\ graph.edges = {r \in relations : r[1] \in Unfolded \/ r[2] \in Unfolded}

(* Loading the page again, or following its address, shows what is expanded now:
   for a user who waits for one object before he clicks on the next.              *)
AddressShowsGraph == ~hurried => Unfolded \subseteq address \cup {Root}

(* Whatever the order of clicks and answers, the graph is that of the unfolded nodes,
   and its address leads to it again.                                             *)
GraphOfTheClicks == OrderLeavesNoTrace /\ AddressShowsGraph
================================================================================
