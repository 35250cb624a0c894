\* What the job manager and the live connections bring to an end, under the
\* fairness of the event loop and its timers.
SPECIFICATION FairServicesSpec
CONSTANTS
  Services = {"jobs", "live"}
  JobWorkers = {w1, w2}
  MaxJobs = 3
  MaxActiveJobs = 2
  JobHistory = 1
  Calls = {c1, c2}
  FanoutLimit = 1
  FanoutCeiling = 2
  LocalMax = 1
  MaxAnswers = 5
  RingLimits = {1, 3}
  SavedLimit = 2
  Editors = {e1, e2}
  MaxCreated = 2
  Evidence = {x1}
  MaxViews = 1
  MaxRevision = 3
  Clients = {c1, c2}
  Requests = {q1, q2}
  RateMax = 2
  RateWindow = 2
  MaxTracked = 1
  QuotaLimit = 2
  WindowSeconds = 2
  EndOfTime = 3
  Sockets = {s1, s2}
  Messages = {m1}
  Caps = {1, 2}
  Browsers = {b1, b2}
  MaxLogins = 2
  MaxSessions = 1
  Lifetime = 1
  MaxToken = 2
  LastSecond = 1
  Workspaces = {w1, w2}
  Callers = {c1, c2, c3}
  MaxBundles = 2
  DocSources = {d1, d2}
  DocVersions = {v1, v2}
  NoDocument = NoDocument
  Excerpts = {1}
  AnySource = AnySource
  Invented = Invented
  MaxSupplied = 2
  MaxChanges = 3
  MaxNodes = 5
  Relations <- SmallRelations
  NodeBudget = 5
  EdgeBudget = 5
  BetweennessMax = 4
  Iterations = 2
  Attempts = {a1, a2}
  Parts = {p1, p2}
  IngestSlots = 1
  ExtractGate = 2
  EmbedGate = 1
  MaxRoleChanges = 1
  MaxLosses = 1
  Importers = {i1, i2}
  ImportKeys = {k1}
  NoImportKey = NoImportKey
  Manifests <- TwoCommands
  MaxBatches = 2
  MaxMarkers = 3
  QueueRoom = 1
  MaxBulkJobs = 5
  MaxKeyedJobs = 2
PROPERTIES EventsInOrder JobsSettle MemoryQueueImplementsLifecycle LiveConnectionsHold
CHECK_DEADLOCK FALSE
