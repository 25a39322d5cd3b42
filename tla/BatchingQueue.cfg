SPECIFICATION FairSpec
CONSTANTS
  Items = {i1, i2, i3, i4}
  MaxBatchSize = 2
  MaxLatency = 2
  BackpressureThreshold = 3
  FlushCooldown = 3
  MaxStall = 6
INVARIANTS WakeupPending
PROPERTIES EveryItemSettles ImplementsService
