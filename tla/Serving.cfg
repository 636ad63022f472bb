\* From the webhook to the model, and what the model may rely on.
SPECIFICATION ServingSpec
CONSTANTS
  ServingParts = {"intake", "quota", "access", "circuit", "session", "evidence", "query", "cell", "search"}
  \* intake: approval and automatic modes
  FeatureSets <- MCFeatureSets
  PrCommands = {"force", "cancel", "triage"}
  AuthorTrusts = {"trusted", "awaiting_approval"}
  MaxPrEvents = 3
  MaxPrCommands = 1
  MaxPrRows = 3
  MaxRestarts = 1
  \* ask quota: three asks of one author, two places, a budget for one
  Asks = {"a1", "a2", "a3"}
  Buckets = {"inst", "u1"}
  Provider = "inst"
  ScopesOf <- MCScopesOf
  MaxOutstanding <- MCMaxOutstanding
  Burst <- MCBurst
  ProviderBudget = 3
  Reservation = 2
  Usages = {1}
  MaxRuns = 2
  MaxWindows = 2
  \* GitHub access: a review and a projector of one process
  AccessRunners <- MCAccessRunners
  MaxAccessMoves = 2
  PreflightBudget = 2
  \* rate-limit circuits
  CircuitRuns = {"a1", "v1"}
  ReviewRuns = {"v1"}
  Threshold = 2
  PrimaryRetries = 1
  SecondaryRetries = 2
  Cooldown = 2
  MaxClock = 4
  \* agent session
  MaxSends = 2
  MaxMishaps = 1
  MaxToolRounds = 1
  TurnRetryMax = 0
  OverflowCompactMax = 1
  KeepRecent = 1
  StopAt = 0
  SessionSignals = {"abort"}
  Reservations = {TRUE}
  \* evidence: files of a few lines around every budget
  Texts <- MCTexts
  LineMax = 4
  MarkLen = 3
  ReadBudget = 8
  GuestBudget = 5
  SpillThreshold = 11
  MaxFileReads = 2
  \* workspace queries
  QueryPaths = {1, 2, 3}
  QueryTerms = {"a", "b"}
  QueryLines = {1, 2}
  QueryTrees <- MCQueryTrees
  ChunkPaths = 2
  OutputUnits = 3
  SearchMax = 2
  CollectedMax = 3
  AskedMax = {1, 3}
  PageUnits = 7
  TokenUnits = 2
  ArrayMax = 3
  FileSizes = {1, 3, 6}
  MaxChanged = 4
  BlameCallers = {"c1", "c2"}
  MaxBlames = 2
  \* code mode: three scripts of one session, a pool of one, a queue of one
  Scripts = {"x1", "x2", "x3"}
  SessionOf <- MCSessionOf
  PoolSize = 1
  QueueLength = 1
  HostInFlight = 1
  MaxToolCalls = 2
  CallsOf <- MCCallsOf
  CancelledScripts = {"x2"}
  \* searches: two checkouts, one index, two hosts
  Readers = {"k1", "k2"}
  Searches = {"y1", "y2"}
  ReaderOf <- MCReaderOf
  MaxLiveIndexes = 1
  MaxHosts = 2
  TooLarge = {"k2"}
INVARIANTS
  IntakeSound
  QuotaSound
  ToolAnswersHonest
  SearchSound
PROPERTIES
  AccessSound
  CircuitSound
  SessionSound
  CellsSound
CHECK_DEADLOCK FALSE
