SPECIFICATION MCSpec
CONSTANTS
  Parts = {"records", "scheduler", "degraded", "intake", "queries", "rebuild"}
  x1 = x1
  x2 = x2
  x3 = x3
  s1 = s1
  s2 = s2
  s3 = s3
  RecIds = {x1, x2}
  RecRequests = {s1, s2}
  Batches = {x1}
  BatchIds <- MCBatchIds
  NoBatch = NoBatch
  Signer = TRUE
  MaxVersion = 3
  Tenants = {x1, x2}
  Drainers = {x1}
  Weights = {1, 2}
  Quantum = 1
  Fees = {0, 1, 3}
  Volatilities = {0, 100}
  MinSize = 1
  MaxSize = 3
  EwmaAlpha = 100
  SpikeMultiplier = 300
  Sensitivity = 50
  Dampening = 50
  SampleInterval = 1
  MaxQueue = 2
  MaxDeficit = 3
  DqKeys = {x1, x2, x3}
  Drains = {s1, s2}
  QueueLimit = 2
  DrainLimit = 2
  BackoffCap = 3
  MaxAttempts = 3
  Members = {x1, x2}
  NoMember = NoMember
  Kinds <- MCKinds
  MaxKills = 2
  Calls = {x1, x2, x3}
  CallKinds <- MCCallKinds
  Servers = {s1, s2, s3}
  ServerOf <- MCServerOf
  Modes = {"session", "transaction", "statement", "unknown"}
  NoCall = NoCall
  Rebuilders = {s1, s2}
  ChainAtts = {x1, x2}
  RebuildOptions <- MCRebuildOptions
  Everyone = Everyone
  BusinessOf <- MCBusinessOf
  PageEvents = 2
  MaxChain = 3
SYMMETRY Symmetry
CHECK_DEADLOCK FALSE
INVARIANTS QueuedNotLost NothingSkipped QueryRunsOwnStatement RebuildSound
PROPERTIES RevocationsHold SchedulerHolds
