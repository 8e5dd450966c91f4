SPECIFICATION RetentionSpec
CONSTANTS
  i1 = i1
  t1 = t1
  t2 = t2
  c1 = c1
  h1 = h1
  s1 = s1
  s2 = s2
  m1 = m1
  ColdWorker = {}
  TimerWorker = {t1, t2}
  HotWorker = {}
  Message = {m1}
  Subscription = {s1}
  Instance = {i1}
  NoInstance = NoInstance
  NoPartition = NoPartition
  MaxRetries = 2
  MaxFaults = 1
  MaxOverruns = 1
  MaxPurges = 2
  Deactivatable = {s1}
  ReaderMayTimeOut = FALSE
  BatchSize = 1
  Host <- MCHost
  Serves <- MCServes
  Partition <- MCPartition
  CreatedAt <- MCCreatedAt
  SubMaxRetries <- MCSubMaxRetries
INVARIANTS
  DuplicateOnlyIfForgotten
  NoOrphanAttempts
  RetryBudget
PROPERTIES
  TerminalIsFinal
  PromiseOutlivesPurge
  SettledUnlessTorn
