SPECIFICATION Spec
CONSTANTS
  i1 = i1
  i2 = i2
  c1 = c1
  c2 = c2
  t1 = t1
  t2 = t2
  h1 = h1
  h2 = h2
  s1 = s1
  s2 = s2
  m1 = m1
  m2 = m2
  p1 = p1
  ColdWorker = {c1}
  TimerWorker = {}
  HotWorker = {h1}
  Message = {m1, m2}
  Subscription = {s1}
  Instance = {i1}
  NoInstance = NoInstance
  NoPartition = NoPartition
  MaxRetries = 1
  MaxFaults = 2
  MaxOverruns = 0
  Deactivatable = {}
  ReaderMayTimeOut = TRUE
  BatchSize = 2
  Host <- MCHost
  Serves <- MCServes
  Partition <- NoPartitions
  CreatedAt <- MCCreatedAt
  SubMaxRetries <- MCSubMaxRetries
CHECK_DEADLOCK FALSE
INVARIANTS
  DuplicateOnlyIfDisturbed
