SPECIFICATION ScanSpec
CONSTANTS
  m1 = m1
  m2 = m2
  m3 = m3
  i1 = i1
  i2 = i2
  w1 = w1
  w2 = w2
  w3 = w3
  p1 = p1
  Message = {m1, m2}
  Instance = {i1, i2}
  NoInstance = NoInstance
  NoPartition = NoPartition
  Session = {w1, w2}
  Ordered = TRUE
  BatchSize = 1
  RetryBound = 1
  Partition <- MCPartition
  CreatedAt <- MCCreatedAt
  Position <- MCPosition
  Serves <- MCServes
  SessionHost <- MCSessionHost
INVARIANTS
  LockColumnsAgree
  ChosenStayLockable
  CirclesNeedOrdering
PROPERTIES
  ScanImplementsStore
  JoinedOnlyDuringScan
