SPECIFICATION Spec
CONSTANTS
  a = a
  b = b
  ma = ma
  mb = mb
  mo = mo
  e1 = e1
  e2 = e2
  s1 = s1
  s2 = s2
  w1 = w1
  w2 = w2
  Message = {ma, mb}
  Tenant = {a, b}
  NoTenant = NoTenant
  EventType = {e1, e2}
  AnyEvent = AnyEvent
  Subscription = {s1, s2}
  Invocation = {w1, w2}
  Readers = {"table", "global", "perTenant", "none"}
  CacheTtl = 1
  MaxEdits = 1
  MaxTicks = 3
  EventOf <- MCEventOf
  TenantOf <- MCTenantOf
  InitialRow <- MCInitialRow
  ConfiguredKeys <- MCConfiguredKeys
  WrittenRow <- MCWrittenRow
SYMMETRY Invocations
INVARIANTS
  TenantIsolation
  RecipientsOfOneInstant
  OwnEndpointFirst
PROPERTIES
  OldSecretsExpire
