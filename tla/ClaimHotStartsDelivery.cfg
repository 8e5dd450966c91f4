SPECIFICATION Spec
CONSTANTS
  i1 = i1
  i2 = i2
  c1 = c1
  c2 = c2
  h1 = h1
  m1 = m1
  m2 = m2
  ColdWorker = {c1}
  HotWorker = {h1}
  Instance = {i1}
  Message = {m1}
  MaxRetries = 0
  MaxFaults = 0
  MaxOverruns = 0
  BatchSize = 1
  NoInstance = NoInstance
  NoPartition = NoPartition
  NoMessage = NoMessage
  Host <- MCHost
  Serves <- MCServes
  Partition <- MCPartition
  CreatedAt <- MCCreatedAt
INVARIANT
  LocksStartDelivery
