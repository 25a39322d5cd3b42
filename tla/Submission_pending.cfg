SPECIFICATION MCSpec
CONSTANTS
  Parts = {"submission"}
  r1 = r1
  r2 = r2
  r3 = r3
  a1 = a1
  a2 = a2
  x1 = x1
  x2 = x2
  s1 = s1
  s2 = s2
  s3 = s3
  u1 = u1
  u2 = u2
  i1 = i1
  i2 = i2
  h1 = h1
  Requests = {r1, r2, r3}
  Atts = {a1, a2}
  Slots = {x1, x2}
  AttOf <- MCAttOf
  SlotOf <- MCSlotOf
  Unsigned = {r3}
  MaxPolls = 2
  RedisReliable = TRUE
  MaxCrashes = 1
  Reads = {r1, r2}
  Submits = {r3}
  SameUrl = TRUE
  MaxRetries = 1
  BudgetMax = 1
  Threshold = 1
  MaxHedges = 1
  Sockets = {s1, s2, s3}
  StreamUsers = {u1, u2}
  StreamUserOf <- MCStreamUserOf
  MaxConns = 1
  PubIds = {i1, i2}
  Hashes = {h1}
  RootOf <- MCRootOf
  MaxAge = 2
  GoneAge = 1
  Swr = 1
  Horizon = 4
  EntryIds = {"e1", "e2"}
  RawOf <- MCRawOf
  Months <- MCMonths
  MaxEvidence = 5
  MaxMonths = 2
  MaxSupplied = 3
  Payments = {i1, i2, h1}
  PageSize = 2
  MaxSubmits = 3
CHECK_DEADLOCK FALSE
PROPERTIES NoDuplicateWhilePending
