SPECIFICATION FairSpec
CONSTANTS
  Services = {"bus", "live", "client", "mirror", "agent", "faulty", "llm"}
  Callers = {"a", "b"}
  Requests = {"q"}
  Consumers = {"consumer"}
  FromTail = {"consumer"}
  MaxLens = {0, 1}
  BatchSize = 2
  MaxPublished = 3
  MaxBusFaults = 2
  OrderKeys = {"k"}
  SimKeys = {"k", "l"}
  Quantities = {1, 2}
  Prices = {1, 3}
  MaxPlaced = 2
  MaxRetries = 1
  MaxCalls = 3
  MaxLiveFaults = 2
  Capacity = 2
  Cost = 2
  MaxWorld = 2
  MaxLost = 1
  DeskModes = {"READY", "HALT"}
  MaxUpdates = 3
  MaxWrites = 3
  MaxRestarts = 2
  GateCommands = {"/status", "/positions", "/explain", "/halt", "/resume", "/flatten", "/risk-policy"}
  MfaRequired = TRUE
  AgentTokens = TRUE
  MaxSubmitted = 1
  MaxOutages = 1
  Sockets = {"s"}
  SocketActors = {"agent", "operator"}
  BanThreshold = 2
  RateLimit = 1
  ChallengeIds = {"i"}
  Quota = 2
  PerMinute = 2
  FailureLimit = 2
  MaxStops = 1
  Symbols = {"BTC"}
  FixedBasket = {}
  UniverseSize = 1
  InitialModes = {"READY"}
  BootSymbols = {"BTC", "ETH"}
  BootBasket = {"BTC"}
  BootUniverse = 2
  ForceExitCodes = {"DRAWDOWN"}
  MaxQty = 1
  MaxPending = 1
  MaxFaults = 1
  MaxCrashes = 1
  MaxModes = 0
  Preferred = "codex"
  MaxAttempts = 2
  MaxLimits = 2
  PlanSymbols = {"BTC", "ETH"}
  Notionals = {1, 2, 16}
  Caps = {0, 9}
  minLegUsd = 2
  Account = 0
  MaxLegs = 2
  Leverages = {1, 2}
  Drawdowns = {40, 100}
  EnvPolicies <- MCEnvPolicies
  RestingPolicy <- MCRestingPolicy
  Worths = {0, 1, 2}
  MinWorth = 1
  MaxGross = 2
  MaxPatches = 2
  MaxBoots = 1
  MidTtl = 3
  BookTtl = 2
  ClientTtl = 2
  StaleData = 1
  Flight = 1
  BookRetries = 1
  MaxNow = 4
PROPERTIES EntryArrives StaleOrderLeaves CallerIsSettled MirrorFollows PipelineEnds ExitIsNotForEver CallEnds
CHECK_DEADLOCK FALSE
