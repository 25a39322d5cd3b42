SPECIFICATION RpcFairSpec
CONSTANTS
  Reads = {r1, r2}
  Submits = {s1}
  SameUrl = TRUE
  MaxRetries = 1
  BudgetMax = 1
  Threshold = 1
  MaxHedges = 1
CHECK_DEADLOCK FALSE
INVARIANTS BothFailedPropagates
