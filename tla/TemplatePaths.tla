------------------------------ MODULE TemplatePaths ------------------------------
(* The search links of rendered attributes (MarkedMustache.tsx). A template is rendered
   in contexts, one for every section that is open; each has a view, which is a part of
   the attribute, and keeps the path it has looked up last. A section opens a context
   below that path, and a tag {{@name}} makes a link that searches for the attributes
   with that value at that path, where key* stands for any element of an array.

   Some lambdas (collapse, paginated) give React a component that renders its template
   later: when it does, it reads the path from its context, which has been looking up
   other names in the meantime.

   A value is given by the position of each of its parts, a sequence of keys and of
   indices. Tags come in any order, so that every template is rendered, the sections
   of an array with any of its elements. Values that are null, false or functions are
   left out.                                                                        *)
EXTENDS Naturals, SequencesExt

CONSTANTS
    Shape,     \* position -> "object", "array" or "leaf"
    Indices,   \* what in a position is an index of an array
    Dotted,    \* the keys with a dot in them
    TagNames,  \* the names in tags, split at their dots; << >> is the name "."
    MaxOpen    \* bound: contexts that are open at a time

IsPosition(n) == n \in Seq({n[i] : i \in DOMAIN n})

ASSUME ShapeAssumption ==
    /\ << >> \in DOMAIN Shape
    /\ \A n \in DOMAIN Shape :
          /\ IsPosition(n)
          /\ n # << >> => Front(n) \in DOMAIN Shape
          /\ n # << >> /\ Shape[Front(n)] = "array" => Last(n) \in Indices
    /\ \A name \in TagNames : IsPosition(name)
    /\ MaxOpen \in Nat \ {0}

VARIABLES
    open,      \* the contexts from the outermost to the current one
    deferred,  \* what components were left to React: [view, was, last, why]
    link       \* the link the last tag has made: [path, to, why]

templateVars == <<open, deferred, link>>

(* Why a link may be to something else: its name has an index in it; a lambda has made
   another value of the one at the path; a lambda at the end of a pipeline renders with
   the view the pipeline began in; the context has moved on. *)
Reasons == {"index", "reshaped", "piped", "later"}
NoLink == [path |-> << >>, to |-> << >>, why |-> {}]

-------------------------------------------------------------------------------
(* MustacheContext: lookupView. *)
Keyed(name) == [i \in 1..Len(name) |-> [key |-> name[i], stars |-> 0]]
Starred(path) ==
    IF path = << >> THEN path ELSE [path EXCEPT ![Len(path)].stars = @ + 1]

Exists(c, name) == c.view \o name \in DOMAIN Shape
PathTo(c, name) ==
    LET path == c.parentPath \o Keyed(name)
    IN  IF Shape[c.view \o name] = "array" THEN Starred(path) ELSE path

(* lookup: the path is reset first, and stays that if there is nothing of that name. *)
LookedUp(c, name) ==
    [c EXCEPT !.lastPath = IF Exists(c, name) THEN PathTo(c, name) ELSE c.parentPath]

(* The constructor. *)
Context(view, path, why) ==
    [view |-> view, parentPath |-> path, lastPath |-> path, why |-> why, left |-> {}]

WithIndex(name) == IF \E i \in DOMAIN name : name[i] \in Indices THEN {"index"} ELSE {}
Elements(at) == {n \in DOMAIN Shape : n # << >> /\ Front(n) = at}

(* push, pushWithLocalVars: below the path looked up. Mutant: below that of the
   context. *)
PushedBeside(c, view, why) == Context(view, c.parentPath, c.why \cup why)
Pushed(c, view, why) == Context(view, c.lastPath, c.why \cup why)

-------------------------------------------------------------------------------
Current == Last(open)
Now(c) == Append(Front(open), c)
Room == Len(open) < MaxOpen /\ Current.why = {}     \* bound: nothing below a reason

TemplateInit ==
    /\ open = <<Context(<< >>, << >>, {})>>
    /\ deferred = {}
    /\ link = NoLink

(* {{name}}, the name of a lambda or of nothing at all among them. *)
Tag(name) ==
    /\ open' = Now(LookedUp(Current, name))
    /\ link' = NoLink /\ UNCHANGED deferred

(* {{@name}}: lookupSearchable, makeAttributeQuery. *)
Searchable(path) == path # << >> /\ path[1].key = "value" /\ path[1].stars <= 1

SearchTag(name) ==
    LET c == LookedUp(Current, name)
    IN  /\ Exists(c, name) /\ Shape[c.view \o name] = "leaf"
        /\ Searchable(c.lastPath)
        /\ open' = Now(c)
        /\ link' = [path |-> c.lastPath, to |-> c.view \o name, why |-> c.why \cup WithIndex(name)]
        /\ UNCHANGED deferred

(* {{#name}}: each of the elements of an array, or the object or leaf itself. *)
SectionViews(at) == IF Shape[at] = "array" THEN Elements(at) ELSE {at}

Section(name) ==
    LET c == LookedUp(Current, name)
    IN  /\ Room /\ Exists(c, name)
        /\ \E view \in SectionViews(c.view \o name) :
              open' = Append(Now(c), Pushed(c, view, WithIndex(name)))
        /\ link' = NoLink /\ UNCHANGED deferred

(* {{#name|first}}, last, sort: an array of elements of the array. The others
   (values, keys, entries, group, count, jsonify) make what is not at that path. *)
Pipe(name, lambda) ==
    LET c  == LookedUp(Current, name)
        at == c.view \o name
    IN  /\ Room /\ Exists(c, name)
        /\ Shape[at] = IF lambda = "first" THEN "array" ELSE "object"
        /\ \E view \in Elements(at) :
              open' = Append(Now(c), Pushed(c, view, WithIndex(name) \cup
                                 (IF lambda = "first" THEN {} ELSE {"reshaped"})))
        /\ link' = NoLink /\ UNCHANGED deferred

(* {{#section}}, then, else, indicator: resolveRenderer renders at once, with the view
   of the context and below its path. A key of that name in the view comes first,
   but for that there is the name with a $. *)
Renderer(name) ==
    LET c == LookedUp(Current, name)
    IN  /\ Room /\ ~Exists(c, name)
        /\ open' = Append(Now(c), Pushed(c, c.view, {}))
        /\ link' = NoLink /\ UNCHANGED deferred

(* {{#name|section}}. *)
PipedRenderer(name) ==
    LET c == LookedUp(Current, name)
    IN  /\ Room /\ Exists(c, name)
        /\ open' = Append(Now(c), Pushed(c, c.view, {"piped"}))
        /\ link' = NoLink /\ UNCHANGED deferred

(* {{#collapse}} and {{#name|paginated}}: a component is left for later. *)
Defer(c, views, why) ==
    /\ Current.left = {} /\ deferred = {} /\ Current.why = {}      \* bound: one of them
    /\ open' = Now([c EXCEPT !.left = {[views |-> views, was |-> c.lastPath, why |-> why]}])
    /\ link' = NoLink /\ UNCHANGED deferred

Collapse(name) ==
    LET c == LookedUp(Current, name)
    IN  ~Exists(c, name) /\ Defer(c, {c.view}, {})

Paginated(name) ==
    LET c == LookedUp(Current, name)
    IN  /\ Exists(c, name) /\ Shape[c.view \o name] = "array"
        /\ Defer(c, Elements(c.view \o name), WithIndex(name))

(* The section ends. The closures of its context keep it as it is now. *)
Leave ==
    /\ open # << >>
    /\ open' = Front(open)
    /\ deferred' = deferred \cup
         {[views |-> d.views, was |-> d.was, last |-> Current.lastPath,
           why |-> Current.why \cup d.why] : d \in Current.left}
    /\ link' = NoLink

(* The template has been rendered: React calls the components, and again when one of
   them is unfolded. *)
Later(d) ==
    /\ open = << >>
    /\ \E view \in d.views :
          open' = <<Context(view, d.last,
                       d.why \cup IF d.last = d.was THEN {} ELSE {"later"})>>
    /\ link' = NoLink /\ UNCHANGED deferred

TemplateNext ==
    \/ /\ open # << >>
       /\ \/ \E name \in TagNames :
                \/ Tag(name) \/ SearchTag(name) \/ Section(name)
                \/ Pipe(name, "first") \/ Pipe(name, "values")
                \/ PipedRenderer(name) \/ Paginated(name)
          \/ Renderer(<<"section">>) \/ Renderer(<<"$section">>)
          \/ Collapse(<<"collapse">>) \/ Collapse(<<"$collapse">>) \/ Leave
    \/ \E d \in deferred : Later(d)

TemplateSpec == TemplateInit /\ [][TemplateNext]_templateVars

-------------------------------------------------------------------------------
Steps == [key : UNION {{p[i] : i \in DOMAIN p} : p \in DOMAIN Shape}, stars : Nat]
PathsOfSteps(p) == \A i \in DOMAIN p : p[i] \in Steps

TemplateTypeOK ==
    /\ \A i \in DOMAIN open :
          /\ open[i].view \in DOMAIN Shape /\ open[i].why \subseteq Reasons
          /\ PathsOfSteps(open[i].parentPath) /\ PathsOfSteps(open[i].lastPath)
    /\ \A d \in deferred : d.views \subseteq DOMAIN Shape /\ d.why \subseteq Reasons
    /\ PathsOfSteps(link.path) /\ link.to \in DOMAIN Shape /\ link.why \subseteq Reasons

(* What the server makes of the path of a link (parse_field_path): keys are joined by
   dots, and those of their own are not escaped. *)
SplitAtDots(s) ==
    IF s.key \in Dotted
    THEN <<[key |-> "before", stars |-> 0], [key |-> "after", stars |-> s.stars]>>
    ELSE <<s>>

Parsed(path) ==
    LET parsed[i \in 0..Len(path)] ==
          IF i = 0 THEN << >> ELSE parsed[i - 1] \o SplitAtDots(path[i])
    IN  parsed[Len(path)]

(* How the server would have to be asked for what is at a position, step by step. *)
Asking(path, k) ==
    IF k \in Indices THEN [path EXCEPT ![Len(path)].stars = @ + 1]
    ELSE Append(path, [key |-> k, stars |-> 0])

PathOf(at) ==
    LET path[i \in 0..Len(at)] == IF i = 0 THEN << >> ELSE Asking(path[i - 1], at[i])
    IN  path[Len(at)]

(* A link finds the attribute it is in: the server is asked for the place of the value
   that is shown, however the sections are nested and however many names have been
   looked up before, unless there is one of the four reasons, or a key has a dot. *)
SearchFindsValue ==
    link.why = {} /\ (\A i \in DOMAIN link.to : link.to[i] \notin Dotted) =>
        Parsed(link.path) = PathOf(link.to)
================================================================================
