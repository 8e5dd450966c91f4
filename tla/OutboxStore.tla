---------------------------- MODULE OutboxStore ----------------------------
(***************************************************************************)
(* The OutboxMessages table and the statements IOutboxStore runs on it.    *)
(* Every operation of the store is one SQL statement, hence one action.    *)
(*                                                                         *)
(* Time is abstracted row by row: LockedUntil is "none" (NULL), "held" (in *)
(* the future) or "expired" (in the past), and NextRetryAt is due (NULL or *)
(* past) or not.  LeaseExpires and RetryDue are the clock passing those    *)
(* instants; nothing relates the timestamps of different rows.             *)
(***************************************************************************)
EXTENDS Naturals, FiniteSets

CONSTANTS
  Message,      \* ids of outbox rows
  Instance,     \* values of OutboxOptions.InstanceId
  NoInstance,   \* LockedBy IS NULL
  Partition,    \* Message -> its (TenantId, UserId, EntityId)
  NoPartition,  \* the key whose three columns are NULL
  CreatedAt,    \* Message -> creation time
  Serves,       \* Instance -> the messages its TenantFilter lets through
  BatchSize     \* OutboxOptions.BatchSize

ASSUME StoreAssumption ==
  /\ IsFiniteSet(Message)
  /\ NoInstance \notin Instance
  /\ CreatedAt \in [Message -> Nat]
  /\ Serves \in [Instance -> SUBSET Message]
  /\ BatchSize \in Nat \ {0}

VARIABLE row    \* the table: Message -> Row

Terminal == {"Delivered", "DeadLettered", "Failed"}

\* "Absent": not inserted yet.  "Purged": deleted; Guids are never reused.
Row == [status     : {"Absent", "Pending", "Processing", "Purged"} \cup Terminal,
        lockedBy   : Instance \cup {NoInstance},
        lease      : {"none", "held", "expired"},
        due        : BOOLEAN,
        retryCount : Nat]

NewRow == [status |-> "Pending", lockedBy |-> NoInstance, lease |-> "none",
           due |-> TRUE, retryCount |-> 0]

StoreInit == row = [m \in Message |-> [NewRow EXCEPT !.status = "Absent"]]

-----------------------------------------------------------------------------
(* Row predicates and SET clauses *)

\* Mutant: the scan forgets LockedUntil.
LockableIgnoringLease(r) == r.status \in {"Pending", "Processing"} /\ r.due

\* Mutant: the scan leaves rows with an expired lock to ReleaseExpiredLocksAsync.
LockableIfPending(r) == r.status = "Pending" /\ r.lease # "held" /\ r.due

LockableByScan(r) ==
  /\ r.status \in {"Pending", "Processing"}
  /\ r.lease # "held"
  /\ r.due

LockableById(r) ==
  /\ r.status = "Pending"
  /\ r.lease # "held"
  /\ r.due

LockHeld(r) == r.status = "Processing" /\ r.lease = "held"

Locked(r, i) ==
  [r EXCEPT !.status = "Processing", !.lockedBy = i, !.lease = "held"]

\* Mutant: LockedBy = NULL is missing.
UnlockedKeepingOwner(r, s) == [r EXCEPT !.status = s, !.lease = "none"]

Unlocked(r, s) ==
  [r EXCEPT !.status = s, !.lockedBy = NoInstance, !.lease = "none"]

\* Mutant: the NOT EXISTS clause is missing.
PartitionNeverBusy(m) == FALSE

\* An unexpired lock on another row of m's partition keeps m out of a batch.
PartitionBusy(m) ==
  /\ Partition[m] # NoPartition
  /\ \E n \in Message \ {m} : Partition[n] = Partition[m] /\ LockHeld(row[n])

Eligible(i, skip) ==
  {m \in Serves[i] \ skip : LockableByScan(row[m]) /\ ~PartitionBusy(m)}

\* TOP (BatchSize) ... ORDER BY CreatedAt; rows created together come in any order.
IsOldestOf(batch, candidates) ==
  /\ batch \subseteq candidates
  /\ Cardinality(batch) <= BatchSize
  /\ batch # candidates => Cardinality(batch) = BatchSize
  /\ \A m \in batch, n \in candidates \ batch : CreatedAt[m] <= CreatedAt[n]

\* Mutant: the WHERE clause tests the status instead of LockedBy.
OwnsIfProcessing(i, m) == row[m].status = "Processing"

\* WHERE Id = @Id AND LockedBy = @LockedBy: the only ownership test there is.
Owns(i, m) == row[m].lockedBy = i

IsLockHeld(i, m) == Owns(i, m) /\ LockHeld(row[m])

-----------------------------------------------------------------------------
(* IOutboxStore *)

SaveMessage(m) ==
  /\ row[m].status = "Absent"
  /\ row' = [row EXCEPT ![m] = NewRow]

LockNextBatch(i, skip, batch) ==
  /\ IsOldestOf(batch, Eligible(i, skip))
  /\ row' = [m \in Message |-> IF m \in batch THEN Locked(row[m], i) ELSE row[m]]

TryLockById(i, m) ==
  row' = IF LockableById(row[m]) THEN [row EXCEPT ![m] = Locked(@, i)] ELSE row

\* The updates that give a lock up: 0 rows affected unless the caller owns it.
GiveUp(i, m, r) == row' = IF Owns(i, m) THEN [row EXCEPT ![m] = r] ELSE row

MarkAsProcessed(i, m) == GiveUp(i, m, Unlocked(row[m], "Delivered"))

MarkAsFailed(i, m) == GiveUp(i, m, Unlocked(row[m], "Failed"))

MarkAsDeadLettered(i, m) == GiveUp(i, m, Unlocked(row[m], "DeadLettered"))

\* Mutant: RetryCount counts the retries left.
IncrementRetryDownwards(i, m) ==
  GiveUp(i, m, [Unlocked(row[m], "Pending") EXCEPT
                  !.retryCount = @ - 1, !.due = FALSE])

\* NextRetryAt is set in the future (a zero delay is RetryDue at once).
IncrementRetry(i, m) ==
  GiveUp(i, m, [Unlocked(row[m], "Pending") EXCEPT
                  !.retryCount = @ + 1, !.due = FALSE])

ExpiredLocks == {m \in Message : row[m].status = "Processing" /\ row[m].lease = "expired"}

\* Mutant: releasing an expired lock charges a retry.
ReleaseExpiredLocksCharging ==
  row' = [m \in Message |->
            IF m \in ExpiredLocks
            THEN [Unlocked(row[m], "Pending") EXCEPT !.retryCount = @ + 1]
            ELSE row[m]]

ReleaseExpiredLocks ==
  row' = [m \in Message |-> IF m \in ExpiredLocks THEN Unlocked(row[m], "Pending")
                                                  ELSE row[m]]

\* WHERE Status IN (Delivered, DeadLettered) AND CreatedAt < @OlderThan
PurgeProcessedMessages(olderThan) ==
  row' = [m \in Message |->
            IF row[m].status \in {"Delivered", "DeadLettered"} /\ CreatedAt[m] < olderThan
            THEN [row[m] EXCEPT !.status = "Purged"] ELSE row[m]]

(* The clock *)

LeaseExpires(m) ==
  /\ row[m].lease = "held"
  /\ row' = [row EXCEPT ![m].lease = "expired"]

RetryDue(m) ==
  /\ ~row[m].due
  /\ row' = [row EXCEPT ![m].due = TRUE]

-----------------------------------------------------------------------------
(* The store under arbitrary callers: any instance, any operation, any time. *)

LockStep ==
  \E i \in Instance :
    \/ \E skip, batch \in SUBSET Message : LockNextBatch(i, skip, batch)
    \/ \E m \in Message : TryLockById(i, m)

OwnerStep ==
  \E i \in Instance, m \in Message :
    \/ MarkAsProcessed(i, m)
    \/ MarkAsFailed(i, m)
    \/ MarkAsDeadLettered(i, m)

RetryStep == \E i \in Instance, m \in Message : IncrementRetry(i, m)

\* Only the order of CreatedAt and olderThan matters: one cutoff per message.
MaintenanceStep ==
  \/ \E m \in Message : SaveMessage(m)
  \/ ReleaseExpiredLocks
  \/ \E m \in Message : PurgeProcessedMessages(CreatedAt[m] + 1)

ClockStep == \E m \in Message : LeaseExpires(m) \/ RetryDue(m)

StoreStep == LockStep \/ OwnerStep \/ RetryStep \/ MaintenanceStep \/ ClockStep

StoreSpec == StoreInit /\ [][StoreStep]_row

-----------------------------------------------------------------------------
(* Properties *)

\* Every row has the columns of OutboxMessage with values of their types.
StoreTypeOK == row \in [Message -> Row]

\* The lock columns agree with the status: LockedBy and LockedUntil are set
\* exactly while the row is Processing.  The WHERE clauses of the Mark and
\* Increment statements test LockedBy alone, so a row that kept LockedBy after
\* leaving Processing could be rewritten by its former owner.
LockColumnsAgree ==
  \A m \in Message :
    /\ row[m].status = "Processing" <=> row[m].lockedBy # NoInstance
    /\ row[m].status = "Processing" <=> row[m].lease # "none"

\* Delivered, DeadLettered and Failed are final whatever stale caller writes
\* last: such a row is only ever deleted, and a deleted row never comes back.
TerminalIsFinal ==
  [][\A m \in Message :
       /\ row[m].status \in Terminal => row'[m] \in {row[m], [row[m] EXCEPT !.status = "Purged"]}
       /\ row[m].status = "Purged" => row'[m] = row[m]]_row

\* An unexpired lock is never taken over: between two owners of a row there is
\* an instant at which no instance holds it (EfCoreOutboxStore.cs, "DB lock gate").
HeldLockIsNotStolen ==
  [][\A m \in Message, i, j \in Instance :
       i # j /\ IsLockHeld(i, m) => ~IsLockHeld(j, m)']_row

\* Sharding by TenantFilter ends at the hot path, which ignores it (TryLockById): an
\* instance takes messages of other shards, but only such that wait as Pending.  What
\* an instance died with stays with its shard until its locks are released.
ShardsShareOnlyPending ==
  [][\A m \in Message, i \in Instance :
       /\ m \notin Serves[i]
       /\ row[m].lockedBy # i /\ row'[m].lockedBy = i
       => row[m].status = "Pending"]_row

\* The retry budget is charged for delivery failures only: RetryCount never
\* falls, and moves only by a caller that owned the lock and gave it up to wait
\* for a retry; expiry and release of a lock leave it alone ("infrastructure
\* failure, not a delivery failure", DirectSqlOutboxStore.ReleaseExpiredLocksAsync).
RetryChargedByOwner ==
  [][\A m \in Message :
       row'[m].retryCount # row[m].retryCount =>
         /\ row'[m].retryCount = row[m].retryCount + 1
         /\ row[m].status = "Processing"
         /\ row'[m].status = "Pending" /\ ~row'[m].due]_row
=============================================================================
