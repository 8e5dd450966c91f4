--------------------------- MODULE MCOutboxRouting ---------------------------
(* Tenants a and b.  Messages ma and mb of these and mo of none, on event e1. *)
(* Subscription s1 is tenant a's, s2 is not there yet.                       *)
EXTENDS OutboxRouting, TLC

CONSTANTS a, b, ma, mb, mo, e1, e2, s1, s2, w1, w2

MCEventOf == [m \in Message |-> e1]
MCTenantOf == [m \in Message |-> CASE m = ma -> a [] m = mb -> b [] OTHER -> NoTenant]
MCInitialRow == [s \in Subscription |->
  [exists |-> s = s1, isActive |-> s = s1, tenant |-> IF s = s1 THEN a ELSE NoTenant,
   event |-> AnyEvent]]

\* A row for tenant b, one for all, and one for events that do not occur.
MCWrittenRow ==
  LET Written(t, e) == [exists |-> TRUE, isActive |-> TRUE, tenant |-> t, event |-> e] IN
  {Written(b, e1), Written(NoTenant, e1), Written(NoTenant, e2)}

MCConfiguredKeys == {a}

Invocations == Permutations(Invocation)
=============================================================================
