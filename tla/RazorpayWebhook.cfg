SPECIFICATION Spec
CONSTANTS
  Events = {e1, e2}
  Deliveries = {d1, d2}
  Secrets = {s1, s2}
  NoSecret = NoSecret
  Damaged = Damaged
  Missing = Missing
  MaxAge = 1
  FutureSkew = 1
  TTL = 2
  MaxAttempts = 3
  MaxTime = 4
SYMMETRY Symmetry
INVARIANTS AnswersTrue
PROPERTIES HandledOncePerWindow
