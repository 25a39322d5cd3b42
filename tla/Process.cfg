SPECIFICATION MCSpec
CONSTANTS
  Parts = {"shutdown", "health", "sweeper", "replay", "telemetry"}
  Conns = {c1, c2, c3}
  Kafka = TRUE
  MaxSignals = 3
  Probes = {p1}
  Configured = {"db", "redis", "soroban", "email"}
  HasSorobanClient = FALSE
  r1 = r1
  r2 = r2
  r3 = r3
  r4 = r4
  r5 = r5
  k1 = k1
  k2 = k2
  b1 = b1
  b2 = b2
  IdemRequests <- MCRequests
  Keyless = {r5}
  Keys = {k1, k2}
  Bodies = {b1, b2}
  KeyOf <- MCKeyOf
  BodyOf <- MCBodyOf
  MaxEntries = 1
  Ttl = 1
  SubKeys = {j1, j2}
  ReplayPage = 2
  ReplayBudget = 2
  HasSigner = TRUE
  MaxFailures = 4
  CredFiles = {"cert", "key"}
  Spans = {n1}
  MaxFileVersion = 3
CHECK_DEADLOCK FALSE
INVARIANTS ReplayedOnce CredentialsCurrent
PROPERTIES OrderlyExit ShutdownEnds IdempotencyHolds ProbesHold
