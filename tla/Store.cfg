SPECIFICATION MCSpec
CONSTANTS
  m1 = m1
  m2 = m2
  m3 = m3
  i1 = i1
  i2 = i2
  p1 = p1
  Message = {m1, m2, m3}
  Instance = {i1, i2}
  NoInstance = NoInstance
  NoPartition = NoPartition
  Partition <- MCPartition
  CreatedAt <- MCCreatedAt
  Serves <- MCServes
  BatchSize = 2
  RetryBound = 1
INVARIANTS
  LockColumnsAgree
PROPERTIES
  TerminalIsFinal
  RetryChargedByOwner
