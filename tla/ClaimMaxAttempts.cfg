SPECIFICATION Spec
CONSTANTS
  i1 = i1
  i2 = i2
  c1 = c1
  c2 = c2
  t1 = t1
  t2 = t2
  h1 = h1
  h2 = h2
  s1 = s1
  s2 = s2
  m1 = m1
  m2 = m2
  p1 = p1
  ColdWorker = {c1}
  TimerWorker = {}
  HotWorker = {}
  Message = {m1}
  Subscription = {s1}
  Instance = {i1}
  NoInstance = NoInstance
  NoPartition = NoPartition
  MaxRetries = 5
  MaxFaults = 0
  MaxOverruns = 0
  Deactivatable = {}
  ReaderMayTimeOut = FALSE
  BatchSize = 1
  Host <- MCHost
  Serves <- MCServes
  Partition <- NoPartitions
  CreatedAt <- MCCreatedAt
  SubMaxRetries <- MCSubMaxRetries
INVARIANT
  AttemptsWithinMaxRetries
