SPECIFICATION FairSpec
CONSTANTS
  i1 = i1
  i2 = i2
  m1 = m1
  m2 = m2
  m3 = m3
  x1 = x1
  x2 = x2
  x3 = x3
  s1 = s1
  s2 = s2
  Message = {m1, m2}
  Transaction = {x1, x2}
  Scope = {s1, s2}
  Instance = {i1}
  Handler = {h1}
  Self = i1
  NoInstance = NoInstance
  NoPartition = NoPartition
  NoTransaction = NoTransaction
  NoMessage = NoMessage
  Capacity = 1
  MaxRetries = 1
  MaxFaults = 1
  BatchSize = 2
  TxOf <- MCTxOf
  ScopeOf <- ScopeOfEach
  Partition <- MCPartition
  CreatedAt <- MCCreatedAt
  Serves <- MCServes
PROPERTIES
  CommittedIsSettled
