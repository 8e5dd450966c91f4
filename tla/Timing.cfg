SPECIFICATION Spec
CONSTANTS
  m1 = m1
  m2 = m2
  m3 = m3
  t1 = t1
  t2 = t2
  Message = {m1, m2}
  Subscriptions = 3
  Invocation = {t1, t2}
  Second = 2
  VisibilityTimeout = 3
  Timeout = 1
  ReleaseInterval = 3
  BaseDelay = 1
  MaxDelay = 2
  JitterPercent = 50
  MaxRetries = 1
  BatchSize = 2
  MaxConcurrentDeliveries = 2
  MaxConcurrentSubscriptionDeliveries = 2
  MaxSkew = 1
  MaxStops = 1
  Horizon = 4
SYMMETRY Interchangeable
INVARIANTS
  LockOutlivesJob
PROPERTIES
  ReleasesSpaced
  TimestampsImplementStore
