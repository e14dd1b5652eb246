------------------------------ MODULE MCWebViews ------------------------------
(* The parts of the web client that live in one page, and what the server does for one of
   them, the pulls and pushes of remote instances, checked one by one: they share
   nothing, so a behaviour belongs to one of them, the part, and the others rest in a
   state without requests.                                                        *)
EXTENDS QueryLexer, QuerySuggestions, RecentList, ObjectData, RelationsPlot,
        PluginTabs, RemoteViews, RemoteTransfers, PagedLists, TemplatePaths, PageFetches,
        LoginFlow

VARIABLE part

Parts == {"lexer", "suggestions", "list", "data", "plot", "tabs", "remotes",
          "transfers", "paged", "template", "fetches", "flow"}

viewsVars == <<part, lexVars, suggestVars, listVars, dataVars, plotVars, tabsVars,
               remoteVars, transferVars, pagedVars, templateVars, fetchVars, flowVars>>

-------------------------------------------------------------------------------
(* The value with a list of lists and a key with a dot, and the names the template
   uses for it: the value itself, a list, an element, what is inside of it.       *)
MCShape ==
    << >> :> "object" @@ <<"value">> :> "object" @@ <<"value", "a.b">> :> "leaf"
    @@ <<"value", "list">> :> "array" @@ <<"value", "list", "0">> :> "array"
    @@ <<"value", "list", "0", "0">> :> "object"
    @@ <<"value", "list", "0", "0", "id">> :> "leaf"
MCTagNames == {<< >>, <<"id">>, <<"value", "list">>, <<"value", "list", "0">>}

(* A config embeds all the contents, one of which is a file elsewhere. *)
MCTypes == [x \in Contents |-> IF x = CHOOSE y \in Contents : TRUE THEN {"file", "blob"}
                                                                ELSE {"blob"}]
MCEmbeds == [c \in Configs |-> Contents]

(* A route of each kind, two of them behind capabilities. *)
MCCapabilities == {"adding_files", "manage_users"}
MCAppRoutes ==
    [r \in {"/", "/login", "/oauth/callback", "/profile/oauth", "/upload", "/settings"} |->
        CASE r \in {"/login", "/oauth/callback"} -> "public"
          [] r = "/upload" -> "adding_files"
          [] r = "/settings" -> "manage_users"
          [] OTHER -> "auth"]

-------------------------------------------------------------------------------
SuggestAtRest ==
    /\ text = (CHOOSE t \in LocalTexts : TRUE) /\ calls = {} /\ definitions = "none"
    /\ suggestions = text /\ loading = FALSE

ListAtRest ==
    /\ query = EmptyQuery /\ list = NoList /\ loads = {}
    /\ counting = FALSE /\ count = None /\ counts = {} /\ error = None

DataAtRest ==
    /\ objectId = (CHOOSE o \in Objects : TRUE) /\ object = NoObject
    /\ pending = EmptyBag /\ moves = 0 /\ crossed = TRUE

PlotAtRest ==
    /\ relations = {} /\ address = {} /\ asked = {} /\ graph = NoGraph
    /\ drawn = [nodes |-> <<>>, address |-> {}] /\ drawing = FALSE /\ hurried = FALSE

TabsAtRest ==
    /\ sample = (CHOOSE s \in Samples : TRUE)
    /\ runs = {} /\ shownRun = Idle /\ left = FALSE
    /\ drafts = [s \in Samples |-> Empty] /\ regex = Empty /\ timer = FALSE
    /\ evals = {} /\ inFlight = FALSE
    /\ result = NoResult /\ lastOk = NoResult /\ banner = FALSE

RemotesAtRest ==
    /\ tried = (CHOOSE f \in Functions : TRUE) /\ place = (CHOOSE p \in Places : TRUE)
    /\ held = [i \in Instances |-> [h \in Hashes |-> 0]] /\ asks = {} /\ seen = Unseen

PagedAtRest ==
    /\ kind = "settings" /\ there = 0 /\ known = 0 /\ matching = 0 /\ page = 1
    /\ removing = FALSE /\ fetching = FALSE /\ overtaken = FALSE

FetchesAtRest ==
    /\ view = (CHOOSE v \in SingleViews : TRUE)
    /\ looked = (CHOOSE s \in Looked : TRUE) /\ full = FALSE
    /\ got = NothingYet /\ turn = 0 /\ sent = {} /\ outrun = FALSE

FlowAtRest ==
    /\ viewer = Absent /\ route = "/login" /\ prev = Absent /\ began = "/login"
    /\ kept = [s \in States |-> Absent] /\ awaited = Nothing /\ returning = Absent
    /\ exchanged = [s \in States |-> 0] /\ wanted = Absent

ViewsInit ==
    /\ part \in Parts
    /\ LexInit /\ TemplateInit /\ TransferInit
    /\ IF part = "suggestions" THEN SuggestInit ELSE SuggestAtRest
    /\ IF part = "list" THEN ListInit ELSE ListAtRest
    /\ IF part = "data" THEN DataInit ELSE DataAtRest
    /\ IF part = "plot" THEN PlotInit ELSE PlotAtRest
    /\ IF part = "tabs" THEN TabsInit ELSE TabsAtRest
    /\ IF part = "remotes" THEN RemoteInit ELSE RemotesAtRest
    /\ IF part = "paged" THEN PagedInit ELSE PagedAtRest
    /\ IF part = "fetches" THEN FetchesInit ELSE FetchesAtRest
    /\ IF part = "flow" THEN FlowInit ELSE FlowAtRest

-------------------------------------------------------------------------------
Others(p) ==
    /\ part = p /\ UNCHANGED part
    /\ p # "lexer" => UNCHANGED lexVars
    /\ p # "suggestions" => UNCHANGED suggestVars
    /\ p # "list" => UNCHANGED listVars
    /\ p # "data" => UNCHANGED dataVars
    /\ p # "plot" => UNCHANGED plotVars
    /\ p # "tabs" => UNCHANGED tabsVars
    /\ p # "remotes" => UNCHANGED remoteVars
    /\ p # "transfers" => UNCHANGED transferVars
    /\ p # "paged" => UNCHANGED pagedVars
    /\ p # "template" => UNCHANGED templateVars
    /\ p # "fetches" => UNCHANGED fetchVars
    /\ p # "flow" => UNCHANGED flowVars

ViewsNext ==
    \/ Others("lexer") /\ LexNext
    \/ Others("suggestions") /\ SuggestNext
    \/ Others("list") /\ ListNext
    \/ Others("data") /\ DataNext
    \/ Others("plot") /\ PlotNext
    \/ Others("tabs") /\ TabsNext
    \/ Others("remotes") /\ RemoteNext
    \/ Others("transfers") /\ TransferNext
    \/ Others("paged") /\ PagedNext
    \/ Others("template") /\ TemplateNext
    \/ Others("fetches") /\ FetchesNext
    \/ Others("flow") /\ FlowNext

ViewsSpec ==
    /\ ViewsInit /\ [][ViewsNext]_viewsVars
    /\ SuggestFairness /\ ListFairness /\ DataFairness /\ TabsFairness /\ FetchesFairness
    /\ FlowFairness

(* Whatever a page makes the user wait for comes, or says that it does not: suggestions,
   pages of a list, analyses, the tabs of the plugins, previews and redirects.    *)
AllWaitsEnd ==
    /\ SpinnerEnds /\ LoadingEnds /\ AnalysesSettle /\ ButtonComesBack /\ FetchesEnd
    /\ RedirectsEnd
===============================================================================
