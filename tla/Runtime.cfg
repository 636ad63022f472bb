\* The processes and resources below the agents: their safety, and that they end.
SPECIFICATION RuntimeSpec
CONSTANTS
  RuntimeParts = {"cell", "view", "search", "git", "webhook", "worker", "trace"}
  \* code mode: two scripts of one session, a pool of one
  Scripts = {"x1", "x2"}
  SessionOf <- MCSessionOf
  PoolSize = 1
  QueueLength = 1
  HostInFlight = 1
  MaxToolCalls = 1
  CallsOf <- MCCallsOf
  CancelledScripts = {"x1"}
  \* repository views: two viewers of one process, a second process that sweeps
  Hosts = {"p1", "p2"}
  Viewers = {"u1", "u2"}
  HostOf <- MCHostOf
  MaxViewHeads = 2
  MaxRoots = 2
  CrashingHosts = {"p1"}
  MaxViews = 1
  \* searches: two checkouts, one index
  Readers = {"k1", "k2"}
  Searches = {"y1", "y3"}
  ReaderOf <- MCReaderOf
  MaxLiveIndexes = 1
  MaxHosts = 1
  TooLarge = {"k2"}
  \* git processes: every kind of helper
  HelperKinds <- MCHelperKinds
  \* webhook: two requests
  Requests = {"q1", "q2"}
  WebhookEvents <- MCWebhookEvents
  ApprovalMode = TRUE
  \* worker: one durable job and retention
  ConsumerQueues = {"qd", "qp"}
  WorkerJobs = {"d1", "rt"}
  QueueOf <- MCQueueOf
  DurableJobs = {"d1"}
  RetentionJob = "rt"
  SweptTables = {"items", "events"}
  ExpiredRows <- MCExpiredRows
  RetentionBatch = 2
  \* trace queue: bounds a few spans fill
  TracedExecutions = {"e1"}
  Drafts <- MCDrafts
  EventBytes = 6
  MainEvents = 2
  MainBytes = 8
  ReserveEvents = 2
  ReserveBytes = 3
  MarkerBytes = 1
  ElidedBytes = 2
  SpanBytes = 1
  MaxTraceEvents = 3
  MaxFlushWaiters = 2
INVARIANTS
  ViewSound
  GitSound
  WebhookSound
  TraceSound
PROPERTIES
  WorkerSound
  
CHECK_DEADLOCK FALSE
