SPECIFICATION MCSpec
CONSTANTS
  Parts = {"families", "keys", "audit", "admin", "svid", "mtls", "businesses"}
  k1 = k1
  k2 = k2
  x1 = x1
  u1 = u1
  u2 = u2
  a1 = a1
  a2 = a2
  f1 = f1
  Families = {f1}
  AccessTtl = 1
  RefreshTtl = 2
  FamilyMaxAge = 1
  MaxTokens = 6
  MaxTfNow = 3
  Handlers = {h1, h2}
  BootHandler = h1
  Keys = {k1, k2}
  GenKey = GenKey
  NoKey = NoKey
  BadKey = BadKey
  Bundles <- MCBundles
  EnvBundle <- MCEnvBundle
  KrTtl = 2
  Grace = 2
  CacheTtl = 1
  DiskTtl = 0
  MaxHeld = 1
  Providers = {"aws"}
  Actors = {b1, b2}
  AuditIds = {1, 2, 3}
  MaxTs = 1
  MaxEntries = 3
  PageLimit = 1
  UserIds = {u1, u2}
  Admins0 = {u1, u2}
  Addresses = {a1, a2}
  AddressOf <- MCAddressOf
  NoUser = NoUser
  NoId = NoId
  RequestTtl = 0
  MaxRequests = 1
  Fetches = {f1, f2, f3}
  Checks = {c1, c2}
  Staples = {s1}
  NoStaple = NoStaple
  Crl = Crl
  HasCrl = TRUE
  Allowed = TRUE
  StapleLife = 2
  CrlLife = 3
  OcspTtl = 3
  Floor = 1
  CheckMax = 1
  Owners = {u1}
  Rows = {1, 2, 3}
  Names = {1, 2}
  PageSizes = {1, 2}
  PeriodLength = 2
  MaxClock = 2
SYMMETRY Symmetry
CHECK_DEADLOCK FALSE
INVARIANTS FamiliesHold TokensSurviveRotation AuditReliable RenewalGoesOn PassedOnFreshEvidence WalkMeetsEveryRow
PROPERTY AdministrationHolds
