SPECIFICATION MCSpec
CONSTANTS
  Parts = {"refresh", "reset", "signup", "limiter", "export"}
  Calls = {c1, c2, c3}
  Tokens = {t1, t2, t3}
  MaxCrashes = 1
  Forgots = {f1, f2, f3}
  Resets = {r1, r2}
  None = None
  Ttl = 2
  i1 = i1
  i2 = i2
  e1 = e1
  e1x = e1x
  SignupSlots = {s1, s2}
  RawIps = {i1, i2}
  RawEmails = {e1, e1x}
  IpOf <- MCIpOf
  EmailOf <- MCEmailOf
  EmailFacts <- MCEmailFacts
  Passwords = {{}, {"common"}}
  NoEmail = NoEmail
  Window = 1
  MaxIp = 1
  MaxEmail = 2
  MaxGlobal = 2
  MaxUsers = 2
  LimSlots = {q1, q2}
  LimMax = 1
  LimWindow = 2
  CleanupWindow = 1
  Threshold = 2
  Reset = 2
  MaxWatchRetries = 1
  MaxRedirections = 2
  MaxFaults = 3
  Exports = {x1}
  ExportTokens = {k1, k2}
  Downloads = {d1, d2}
  NoExport = NoExport
  NoToken = NoToken
CHECK_DEADLOCK FALSE
INVARIANTS RotationSafe ResetLinksHold SignupGuarded ExportsHonest
PROPERTIES LimiterHolds
