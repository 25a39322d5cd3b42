SPECIFICATION MCSpec
CONSTANTS
  Parts = {"connections", "budget", "outbound"}
  Businesses = {b1, b2}
  Shops = {b1, b2}
  StripeAccounts = {c1}
  Slots = {b1, b2}
  NoShop = NoShop
  StateTtl = 0
  MaxStates = 2
  MaxSerial = 4
  Callers = {b1, b2}
  CallRetries = 2
  BudgetMax = 1
  BudgetWindow = 2
  MaxFaultsRb = 1
  Tenants = {t1}
  SubIds = {1, 2, 3}
  WhSecrets = {b1, b2}
  Works = {b1, b2}
  MaxSubscriptions = 1
  MaxVersion = 2
  NoSub = NoSub
  Removed = Removed
SYMMETRY Symmetry
CHECK_DEADLOCK FALSE
INVARIANTS ConnectionsHold OvershootBounded SubscriptionsHold
