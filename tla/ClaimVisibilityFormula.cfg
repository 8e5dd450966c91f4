SPECIFICATION Spec
CONSTANTS
  m1 = m1
  m2 = m2
  m3 = m3
  t1 = t1
  t2 = t2
  Message = {m1}
  Subscriptions = 3
  Invocation = {t1}
  Second = 1
  VisibilityTimeout = 3
  Timeout = 2
  ReleaseInterval = 3
  BaseDelay = 1
  MaxDelay = 2
  JitterPercent = 50
  MaxRetries = 1
  BatchSize = 1
  MaxConcurrentDeliveries = 1
  MaxConcurrentSubscriptionDeliveries = 1
  MaxSkew = 0
  MaxStops = 0
  Horizon = 5
CHECK_DEADLOCK FALSE
INVARIANTS
  DocumentedTimeoutSuffices
