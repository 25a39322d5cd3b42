SPECIFICATION Spec
CONSTANTS
  Calls = {c1, c2, c3}
  Tokens = {t1, t2, t3}
  MaxCrashes = 1
CHECK_DEADLOCK FALSE
INVARIANTS SingleUse
