SPECIFICATION ViewsSpec
CONSTANTS
  MaxTokens = 7
  LocalTexts = {t1, t2}
  AttributeTexts = {x1, x2}
  NoText = notext
  MaxCalls = 3
  Queries = {q0, q1, q2}
  EmptyQuery = q0
  None = none
  DisallowEmpty = TRUE
  MaxPages = 2
  MaxRequests = 3
  Objects = {a, b}
  Boxes = {"comments", "analyses"}
  Nobody = nobody
  MaxMoves = 2
  MaxWaiting = 3
  Nodes = {a, b, c}
  Root = a
  MaxAsked = 2
  Samples = {a, b}
  Regexes = {x, y}
  Empty = empty
  NoResult = none
  Local = local
  Remotes = {r1, r2}
  Hashes = {a}
  MaxAsks = 2
  MaxChanges = 2
  Home = local
  Peers = {r1}
  Contents = {x, y}
  Configs = {c}
  Types <- MCTypes
  Embeds <- MCEmbeds
  Workers = {w1, w2}
  PerPage = 2
  MaxItems = 5
  Shape <- MCShape
  Indices = {"0", "1"}
  Dotted = {"a.b"}
  TagNames <- MCTagNames
  MaxOpen = 3
  Looked = {a, b}
  NoSubject = none
  MaxTurns = 3
  Capabilities <- MCCapabilities
  AppRoutes <- MCAppRoutes
  Absent = absent
  States = {s1, s2}
  Expires = TRUE
INVARIANTS QueryAnnotated FieldCompleted PagesOfTheQuery NothingMissing GraphOfTheClicks MatchesOfInput ShownOfItsInstance PagesComplete SearchFindsValue SettledOnSubject ExchangedOnce
PROPERTIES SuggestionsAreLatest LandsOnItsSample  LateAnswersDropped ReturnsWhereWanted AllWaitsEnd
CHECK_DEADLOCK FALSE
