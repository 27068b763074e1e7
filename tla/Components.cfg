CONSTANTS
  MaxTyped = 3
  Interruptions = {"dialog", "cancel", "command", "quota"}
  Paths = {"a", "b"}
  Contents = {"v1", "v2"}
  MaxActions = 2
  External = {"x"}
  Bundled = {"b"}
  MaxVersion = 2
  Posts = {"p", "q"}
  Streams = {"s"}
  Plain = {"q"}
  MaxParts = 2
  Capacity = 2
  Calls = {1, 2}
  MaxPieces = 2
  MaxChunks = 3
  Providers = {"p", "q"}
  MaxCalls = 5
  Cooldown = 2
  MaxTime = 5
  Callers = {1, 2}
  MaxRequests = 2
  Last = 2
  Tools = {"x", "y"}
  NameOf <- SomeNames
  MaxAsked = 4
SPECIFICATION FairSpec
CHECK_DEADLOCK FALSE
INVARIANTS
  TypeOK
  ThinkingIsOfATurn
  QueueHasATurn
  NothingTypedVanishes
  SavedWhenQuiet
  FailureLeavesNothing
  VerifiedIsLast
  PluginsAgree
  ListingMends
  WholeAnswer
  CallsArrive
  BreakerConsistent
  DocumentsAgree
  ToolsShownAreRouted
  AnswersMatch
PROPERTIES
  AskingEnds
  StreamEnds
  RequestsEnd
