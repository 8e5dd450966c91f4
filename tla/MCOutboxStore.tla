--------------------------- MODULE MCOutboxStore ---------------------------
(* Two rows of one partition and a row without partition, two instances of *)
(* which the second serves only part of the tenants.                       *)
EXTENDS OutboxStore, TLC

CONSTANTS m1, m2, m3, i1, i2, p1, RetryBound

MCPartition == (m1 :> p1) @@ (m2 :> p1) @@ (m3 :> NoPartition)
MCCreatedAt == (m1 :> 1) @@ (m2 :> 2) @@ (m3 :> 2)
MCServes == (i1 :> Message) @@ (i2 :> {m2, m3})

BoundedRetryStep ==
  \E i \in Instance, m \in Message :
    row[m].retryCount < RetryBound /\ IncrementRetry(i, m)

MCNext == LockStep \/ OwnerStep \/ BoundedRetryStep \/ MaintenanceStep \/ ClockStep

MCSpec == StoreInit /\ [][MCNext]_row
=============================================================================
