SPECIFICATION Spec
CONSTANTS
  m1 = m1
  m2 = m2
  m3 = m3
  t1 = t1
  t2 = t2
  Message = {m1}
  Subscriptions = 1
  Invocation = {t1, t2}
  Second = 1
  VisibilityTimeout = 1
  Timeout = 2
  ReleaseInterval = 2
  BaseDelay = 1
  MaxDelay = 3
  JitterPercent = 50
  MaxRetries = 3
  BatchSize = 1
  MaxConcurrentDeliveries = 1
  MaxConcurrentSubscriptionDeliveries = 1
  MaxSkew = 1
  MaxStops = 0
  Horizon = 8
SYMMETRY Interchangeable
INVARIANTS
  RetryIsDue
PROPERTIES
  RetryWaits
