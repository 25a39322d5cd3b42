SPECIFICATION DrrFairSpec
CONSTANTS
  Tenants = {t1, t2}
  Drainers = {d1}
  Weights = {1}
  Quantum = 1
  Fees = {1}
  Volatilities = {0}
  MinSize = 1
  MaxSize = 1
  EwmaAlpha = 100
  SpikeMultiplier = 200
  Sensitivity = 50
  Dampening = 50
  SampleInterval = 1
  MaxQueue = 2
  MaxDeficit = 3
CHECK_DEADLOCK FALSE
PROPERTY NoTenantStarves
