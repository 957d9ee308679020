SPECIFICATION Spec
CONSTANTS
  Tasks = {"t1", "t2"}
  Limiters <- MCLimiters
  RateLimiters <- MCRateLimiters
  ExchangeLimiters <- MCExchangeLimiters
  MaxNow = 6
  MaxGrants = 5
  ExchangeNow = 1
  ExchangeGrants = 2
  Orders = {"Limit"}
  Symbols <- MCSymbols
  MaxPermits = 1
  MaxMarket = 2
  Topics = {"Ticker24h", "Candles"}
  MaxSubs = 2
  MaxAttempts = 56
  Modules = {"a", "b", "x"}
  Exchanges = {"x"}
  MaxRuns = 2
  Users = {"u1", "u2"}
  Keys = {"k1", "k2"}
  MaxSets = 3
  Clients = {"c1", "c2"}
  MaxWrites = 3
  Names = {1, 2, 3, 4}
  Registries <- MCRegistries
  MaxRequired = 2
  Owners = {"ann", "bob"}
  Subjects = {"ann"}
  ApiKeys = {"key"}
  KeyOwner <- MCKeyOwner
  MaxTokens = 4
  Peers = {"p1"}
  Rooms = {"r1"}
  Stock <- MCStock
  MaxAdded = 2
  MaxRouted = 1
  AgentNames = {"a", "b", "c"}
  Askers = {"x", "y"}
  Accepting = {"b", "c"}
  Pipeline <- MCPipeline
  Strategies = {"ChannelBased", "Pipeline", "FanOut", "RoundRobin"}
  MaxRoutes = 4
  MaxChanges = 3
  Sizes = {0, 1, 2, 3, 4, 5}
  MaxMessages = 10
  Providers = {"openai", "anthropic", "ollama", "lmstudio"}
  Inputs = {2}
  MaxLines = 3
  MaxCalls = 1
  Builds <- MCBuilds
  Sites <- MCSites
  MaxFetches = 3
  Recorders = {"q1", "q2"}
  Workloads <- MCWorkloads
  Unset = 3
  Callers = {"t1", "t2"}
  Members = {"c1", "c2"}
  Declared <- MCDeclared
  DefaultSize = 1
  NoLimit = NoLimit
  MaxCreated = 2
  MaxJobs = 3
  HookTasks = {"h1", "h2"}
  HookKinds = {"pass", "reject", "fail", "report", "enrol"}
  MaxHookCalls = 3
  Scripts = {"s1", "s2"}
  MaxFrameSize = 2
  PayloadSizes = {2, 3}
  Damages = {"none", "magic", "version", "type", "unknown", "longer", "shorter", "cut", "header", "more"}
  MaxSent = 2
  MaxScriptCalls = 2
  Environments <- MCEnvironments
  Documents <- MCDocuments
  AtStart <- MCAtStart
  Given = "other.toml"
  FileChanges = 1
  MaxExpansions = 7
  Drafts <- MCDrafts
  MaxEras = 2
  MaxUnderWay = 2
  MaxSubscribes = 2
  MaxSaid = 2
  Others = {"m"}
  MaxPresence = 2
  MaxTasks = 2
  MaxPieces <- MCMaxPieces
INVARIANTS TypeOK MaintainsSubscriptions ShutdownIsComplete WithinTheLimits KeptUntilRemoved ForceRefreshRenews ResolvesOrTellsWhy RoutedAsVouched AgentsInTurn ReadAsWritten SharedStaysRight
CHECK_DEADLOCK FALSE
