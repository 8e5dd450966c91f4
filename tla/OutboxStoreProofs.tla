-------------------------- MODULE OutboxStoreProofs --------------------------
(***************************************************************************)
(* Proofs about the store under arbitrary callers (StoreSpec).             *)
(*                                                                         *)
(* Every step of the store rewrites rows one by one, so the argument is    *)
(* split in two: StepRewritesRows reduces a step to RowStep, the ways one  *)
(* row may be rewritten, and the rest reasons about a single row.          *)
(***************************************************************************)
EXTENDS OutboxStore, TLAPS

Taken(r, q) == \E i \in Instance : LockableByScan(r) /\ q = Locked(r, i)

Finished(r, q) ==
  /\ r.lockedBy # NoInstance
  /\ \E s \in Terminal : q = Unlocked(r, s)

Retried(r, q) ==
  /\ r.lockedBy # NoInstance
  /\ q = [Unlocked(r, "Pending") EXCEPT !.retryCount = @ + 1, !.due = FALSE]

Released(r, q) ==
  /\ r.status = "Processing" /\ r.lease = "expired"
  /\ q = Unlocked(r, "Pending")

Purged(r, q) ==
  /\ r.status \in {"Delivered", "DeadLettered"}
  /\ q = [r EXCEPT !.status = "Purged"]

Inserted(r, q) == r.status = "Absent" /\ q = NewRow

Aged(r, q) ==
  \/ r.lease = "held" /\ q = [r EXCEPT !.lease = "expired"]
  \/ ~r.due /\ q = [r EXCEPT !.due = TRUE]

\* The ways a step of the store may rewrite one row.
RowStep(r, q) ==
  \/ q = r
  \/ Taken(r, q) \/ Finished(r, q) \/ Retried(r, q) \/ Released(r, q)
  \/ Purged(r, q) \/ Inserted(r, q) \/ Aged(r, q)

RowLocksAgree(r) ==
  /\ r.status = "Processing" <=> r.lockedBy # NoInstance
  /\ r.status = "Processing" <=> r.lease # "none"

\* Only a pending row waits for its NextRetryAt: a lock is taken when it is due.
RowWaitsPending(r) == ~r.due => r.status = "Pending"

\* A row is inserted with a zero RetryCount in its place.
RowStartsAtZero(r) == r.status = "Absent" => r.retryCount = 0

RowInv(r) ==
  r \in Row /\ RowLocksAgree(r) /\ RowWaitsPending(r) /\ RowStartsAtZero(r)

\* The inductive invariant.  LockColumnsAgree alone is inductive, but that a
\* settled row never changes needs that it does not wait for a retry either,
\* and that an insertion charges no retry needs the zero.
StoreInv == StoreTypeOK /\ \A m \in Message : RowInv(row[m])

-----------------------------------------------------------------------------
\* Whatever operation runs, each row is rewritten in one of the ways of RowStep.
LEMMA StepRewritesRows ==
  ASSUME StoreTypeOK, StoreStep
  PROVE  /\ row' = [m \in Message |-> row'[m]]
         /\ \A m \in Message : RowStep(row[m], row'[m])
<1> USE DEF StoreTypeOK
<1>0. NoInstance \notin Instance
  BY StoreAssumption
<1>1. CASE LockStep
  <2>1. ASSUME NEW i \in Instance, NEW skip, NEW batch, LockNextBatch(i, skip, batch)
        PROVE  /\ row' = [m \in Message |-> row'[m]]
               /\ \A m \in Message : RowStep(row[m], row'[m])
    <3>1. \A m \in batch : LockableByScan(row[m])
      BY <2>1 DEF LockNextBatch, IsOldestOf, Eligible
    <3>2. row' = [m \in Message |-> IF m \in batch THEN Locked(row[m], i) ELSE row[m]]
      BY <2>1 DEF LockNextBatch
    <3> QED BY <3>1, <3>2 DEF RowStep, Taken
  <2>2. ASSUME NEW i \in Instance, NEW n \in Message, TryLockById(i, n)
        PROVE  /\ row' = [m \in Message |-> row'[m]]
               /\ \A m \in Message : RowStep(row[m], row'[m])
    <3>1. CASE LockableById(row[n])
      <4>1. LockableByScan(row[n])
        BY <3>1 DEF LockableById, LockableByScan
      <4>2. row' = [row EXCEPT ![n] = Locked(row[n], i)]
        BY <2>2, <3>1 DEF TryLockById
      <4> QED BY <4>1, <4>2 DEF RowStep, Taken
    <3>2. CASE ~LockableById(row[n])
      BY <2>2, <3>2 DEF TryLockById, RowStep
    <3> QED BY <3>1, <3>2
  <2> QED BY <1>1, <2>1, <2>2 DEF LockStep
<1>2. CASE OwnerStep
  <2>1. PICK i \in Instance, n \in Message, s \in Terminal :
               GiveUp(i, n, Unlocked(row[n], s))
    BY <1>2 DEF OwnerStep, MarkAsProcessed, MarkAsFailed, MarkAsDeadLettered, Terminal
  <2>2. CASE Owns(i, n)
    <3>1. row' = [row EXCEPT ![n] = Unlocked(row[n], s)]
      BY <2>1, <2>2 DEF GiveUp
    <3>2. row[n].lockedBy # NoInstance
      BY <1>0, <2>2 DEF Owns
    <3> QED BY <3>1, <3>2 DEF RowStep, Finished
  <2>3. CASE ~Owns(i, n)
    BY <2>1, <2>3 DEF GiveUp, RowStep
  <2> QED BY <2>2, <2>3
<1>3. CASE RetryStep
  <2>1. PICK i \in Instance, n \in Message : IncrementRetry(i, n)
    BY <1>3 DEF RetryStep
  <2>2. CASE Owns(i, n)
    <3>1. row' = [row EXCEPT ![n] = [Unlocked(row[n], "Pending") EXCEPT
                                       !.retryCount = @ + 1, !.due = FALSE]]
      BY <2>1, <2>2 DEF GiveUp, IncrementRetry
    <3>2. row[n].lockedBy # NoInstance
      BY <1>0, <2>2 DEF Owns
    <3> QED BY <3>1, <3>2 DEF RowStep, Retried
  <2>3. CASE ~Owns(i, n)
    BY <2>1, <2>3 DEF GiveUp, IncrementRetry, RowStep
  <2> QED BY <2>2, <2>3
<1>4. CASE MaintenanceStep
  <2>1. CASE \E n \in Message : SaveMessage(n)
    BY <2>1 DEF SaveMessage, RowStep, Inserted
  <2>2. CASE ReleaseExpiredLocks
    BY <2>2 DEF ReleaseExpiredLocks, ExpiredLocks, RowStep, Released
  <2>3. ASSUME NEW c, PurgeProcessedMessages(c)
        PROVE  /\ row' = [m \in Message |-> row'[m]]
               /\ \A m \in Message : RowStep(row[m], row'[m])
    BY <2>3 DEF PurgeProcessedMessages, RowStep, Purged
  <2> QED BY <1>4, <2>1, <2>2, <2>3 DEF MaintenanceStep
<1>5. CASE ClockStep
  <2>1. PICK n \in Message : LeaseExpires(n) \/ RetryDue(n)
    BY <1>5 DEF ClockStep
  <2>2. CASE LeaseExpires(n)
    BY <2>2 DEF LeaseExpires, RowStep, Aged
  <2>3. CASE RetryDue(n)
    BY <2>3 DEF RetryDue, RowStep, Aged
  <2> QED BY <2>1, <2>2, <2>3
<1> QED BY <1>1, <1>2, <1>3, <1>4, <1>5 DEF StoreStep

\* A row stays well typed and its lock columns stay in agreement.
LEMMA RowStepKeepsInv ==
  ASSUME NEW r, NEW q, RowInv(r), RowStep(r, q)
  PROVE  RowInv(q)
<1>0. NoInstance \notin Instance
  BY StoreAssumption
<1> USE DEF Row, RowInv, RowLocksAgree, RowWaitsPending, RowStartsAtZero
<1>1. CASE q = r
  BY <1>1
<1>2. CASE Taken(r, q)
  BY <1>0, <1>2 DEF Taken, LockableByScan, Locked
<1>3. CASE Finished(r, q)
  BY <1>3 DEF Finished, Unlocked, Terminal
<1>4. CASE Retried(r, q)
  <2>1. q = [[r EXCEPT !.status = "Pending", !.lockedBy = NoInstance, !.lease = "none"]
               EXCEPT !.retryCount = r.retryCount + 1, !.due = FALSE]
    BY <1>4 DEF Retried, Unlocked
  <2>2. r.retryCount + 1 \in Nat
    OBVIOUS
  <2>3. q \in Row
    BY <2>1, <2>2 DEF Terminal
  <2>4. q.status = "Pending" /\ q.lockedBy = NoInstance /\ q.lease = "none"
    BY <2>1
  <2> QED BY <2>3, <2>4
<1>5. CASE Released(r, q)
  BY <1>5 DEF Released, Unlocked, Terminal
<1>6. CASE Purged(r, q)
  BY <1>6 DEF Purged, Terminal
<1>7. CASE Inserted(r, q)
  BY <1>7 DEF Inserted, NewRow
<1>8. CASE Aged(r, q)
  BY <1>8 DEF Aged, Terminal
<1> QED BY <1>1, <1>2, <1>3, <1>4, <1>5, <1>6, <1>7, <1>8 DEF RowStep

\* The invariant is inductive: no step of any caller breaks it.
LEMMA StoreInvKept ==
  ASSUME StoreInv, [StoreStep]_row
  PROVE  StoreInv'
<1> USE DEF StoreInv, StoreTypeOK
<1>1. CASE StoreStep
  <2>1. /\ row' = [m \in Message |-> row'[m]]
        /\ \A m \in Message : RowStep(row[m], row'[m])
    BY <1>1, StepRewritesRows
  <2>2. \A m \in Message : RowInv(row'[m])
    BY <2>1, RowStepKeepsInv
  <2> QED BY <2>1, <2>2 DEF RowInv
<1>2. CASE UNCHANGED row
  BY <1>2
<1> QED BY <1>1, <1>2

\* A new row satisfies the invariant of rows, inserted or not.
LEMMA NewRowInv ==
  RowInv(NewRow) /\ RowInv([NewRow EXCEPT !.status = "Absent"])
BY DEF NewRow, RowInv, Row, RowLocksAgree, RowWaitsPending, RowStartsAtZero

\* The store's columns keep their types and its lock columns agree with the
\* status, whoever calls it (OutboxMessage, DirectSqlOutboxStore).
LEMMA StoreInvariant == StoreSpec => []StoreInv
<1>1. StoreInit => StoreInv
  BY NewRowInv DEF StoreInit, StoreInv, StoreTypeOK, RowInv
<1>2. StoreInv /\ [StoreStep]_row => StoreInv'
  BY StoreInvKept
<1> QED BY <1>1, <1>2, PTL DEF StoreSpec

\* Type correctness of the table.
THEOREM StoreTypeCorrect == StoreSpec => []StoreTypeOK
<1>1. StoreInv => StoreTypeOK
  BY DEF StoreInv
<1> QED BY <1>1, StoreInvariant, PTL

\* LockedBy and LockedUntil are set exactly while a row is Processing.
THEOREM LockColumnsAgreeAlways == StoreSpec => []LockColumnsAgree
<1>1. StoreInv => LockColumnsAgree
  BY DEF StoreInv, RowInv, RowLocksAgree, LockColumnsAgree
<1> QED BY <1>1, StoreInvariant, PTL

-----------------------------------------------------------------------------
\* What the action properties share: from a state of the invariant, a step of
\* the store takes every row from a good state to the next by a RowStep.
LEMMA InvariantStep ==
  ASSUME StoreInv, StoreStep, NEW m \in Message
  PROVE  RowInv(row[m]) /\ RowStep(row[m], row'[m])
BY StepRewritesRows DEF StoreInv

\* A settled row is only deleted, a deleted one is never rewritten.
Final(r, q) ==
  /\ r.status \in Terminal => q \in {r, [r EXCEPT !.status = "Purged"]}
  /\ r.status = "Purged" => q = r

LEMMA RowStepIsFinal ==
  ASSUME NEW r, NEW q, RowInv(r), RowStep(r, q)
  PROVE  Final(r, q)
<1>1. SUFFICES ASSUME r.status \in Terminal \cup {"Purged"} PROVE Final(r, q)
  BY DEF Final
<1>2. r.status \notin {"Absent", "Pending", "Processing"}
  BY <1>1 DEF Terminal
<1>3. r.lockedBy = NoInstance /\ r.lease = "none" /\ r.due
  BY <1>2 DEF RowInv, RowLocksAgree, RowWaitsPending, Row
<1>4. q = r \/ Purged(r, q)
  BY <1>2, <1>3 DEF RowStep, Taken, LockableByScan, Finished, Retried,
                    Released, Inserted, Aged
<1> QED BY <1>4 DEF Purged, Final

\* A settled row is only ever deleted: the WHERE clauses on LockedBy cannot
\* reach it, because its LockedBy is NULL.
THEOREM SettledForGood == StoreSpec => TerminalIsFinal
<1>1. ASSUME StoreInv, StoreStep PROVE \A m \in Message : Final(row[m], row'[m])
  BY <1>1, RowStepIsFinal, InvariantStep
<1>2. StoreInv /\ [StoreStep]_row =>
        [\A m \in Message : Final(row[m], row'[m])]_row
  BY <1>1
<1> QED BY <1>2, StoreInvariant, PTL DEF StoreSpec, TerminalIsFinal, Final

\* No instance takes over a lock that has not expired.
THEOREM NoLockStolen == StoreSpec => HeldLockIsNotStolen
<1> DEFINE Held(r, i) == r.lockedBy = i /\ LockHeld(r)
<1>1. ASSUME NEW r, NEW q, RowInv(r), RowStep(r, q),
             NEW i \in Instance, NEW j \in Instance, i # j, Held(r, i)
      PROVE  ~Held(q, j)
  <2>1. r.status = "Processing" /\ r.lease = "held" /\ r.lockedBy = i
    BY <1>1 DEF LockHeld
  <2>2. q = r \/ Finished(r, q) \/ Retried(r, q) \/ Aged(r, q)
    BY <1>1, <2>1 DEF RowStep, Taken, LockableByScan, Released, Purged, Inserted
  <2>3. q.status # "Processing" \/ q.lockedBy = r.lockedBy
    BY <1>1, <2>2 DEF RowInv, Row, Finished, Retried, Aged, Unlocked, Terminal
  <2> QED BY <1>1, <2>1, <2>3 DEF LockHeld
<1>2. StoreInv /\ [StoreStep]_row =>
        [\A m \in Message, i, j \in Instance :
           i # j /\ IsLockHeld(i, m) => ~IsLockHeld(j, m)']_row
  <2> SUFFICES ASSUME StoreInv, StoreStep, NEW m \in Message,
                      NEW i \in Instance, NEW j \in Instance, i # j, IsLockHeld(i, m)
               PROVE  ~IsLockHeld(j, m)'
    OBVIOUS
  <2>1. RowInv(row[m]) /\ RowStep(row[m], row'[m])
    BY InvariantStep
  <2>2. Held(row[m], i)
    BY DEF IsLockHeld, Owns
  <2>3. ~Held(row'[m], j)
    BY <1>1, <2>1, <2>2
  <2> QED BY <2>3 DEF IsLockHeld, Owns, LockHeld
<1> QED BY <1>2, StoreInvariant, PTL DEF StoreSpec, HeldLockIsNotStolen

\* RetryCount moves only by the owner of the lock giving it up for a retry.
THEOREM RetriesChargedByOwner == StoreSpec => RetryChargedByOwner
<1> DEFINE Charged(r, q) ==
      q.retryCount # r.retryCount =>
        /\ q.retryCount = r.retryCount + 1
        /\ r.status = "Processing"
        /\ q.status = "Pending" /\ ~q.due
<1>1. ASSUME NEW r, NEW q, RowInv(r), RowStep(r, q)
      PROVE  Charged(r, q)
  <2>1. CASE Retried(r, q)
    <3>1. q = [[r EXCEPT !.status = "Pending", !.lockedBy = NoInstance, !.lease = "none"]
                 EXCEPT !.retryCount = r.retryCount + 1, !.due = FALSE]
      BY <1>1, <2>1 DEF Retried, Unlocked, RowInv, Row
    <3>2. q.retryCount = r.retryCount + 1 /\ q.status = "Pending" /\ ~q.due
      BY <1>1, <3>1 DEF RowInv, Row
    <3>3. r.status = "Processing"
      BY <1>1, <2>1 DEF Retried, RowInv, RowLocksAgree
    <3> QED BY <3>2, <3>3
  <2>2. CASE Inserted(r, q)
    BY <1>1, <2>2 DEF Inserted, NewRow, RowInv, RowStartsAtZero
  <2>3. CASE q = r
    BY <2>3
  <2>4. CASE Taken(r, q) \/ Finished(r, q) \/ Released(r, q) \/ Purged(r, q) \/ Aged(r, q)
    <3>1. q.retryCount = r.retryCount
      BY <1>1, <2>4 DEF Taken, Finished, Released, Purged, Aged, Locked, Unlocked, RowInv, Row
    <3> QED BY <3>1
  <2> QED BY <1>1, <2>1, <2>2, <2>3, <2>4 DEF RowStep
<1>2. ASSUME StoreInv, StoreStep PROVE \A m \in Message : Charged(row[m], row'[m])
  BY <1>1, <1>2, InvariantStep
<1>3. StoreInv /\ [StoreStep]_row =>
        [\A m \in Message : Charged(row[m], row'[m])]_row
  BY <1>2
<1> QED BY <1>3, StoreInvariant, PTL DEF StoreSpec, RetryChargedByOwner

\* No batch takes a row of another shard: its candidates are the rows its instance
\* serves.
LEMMA BatchWithinShard ==
  ASSUME StoreInv, NEW i \in Instance, NEW skip \in SUBSET Message,
         NEW batch \in SUBSET Message, LockNextBatch(i, skip, batch),
         NEW m \in Message, NEW j \in Instance,
         row[m].lockedBy # j, row'[m].lockedBy = j
  PROVE  m \in Serves[j]
<1>1. m \in batch
  BY DEF LockNextBatch
<1>2. row'[m] = Locked(row[m], i) /\ batch \subseteq Serves[i]
  BY <1>1 DEF LockNextBatch, IsOldestOf, Eligible
<1>3. Locked(row[m], i).lockedBy = i
  BY DEF Locked, StoreInv, StoreTypeOK, Row
<1> QED BY <1>1, <1>2, <1>3

\* A statement that gives a lock up makes nobody its owner.
LEMMA GivingUpTakesNothing ==
  ASSUME StoreInv, NEW m \in Message, NEW j \in Instance,
         row[m].lockedBy # j, row'[m].lockedBy = j
  PROVE  ~OwnerStep /\ ~RetryStep /\ ~MaintenanceStep /\ ~ClockStep
<1> USE StoreAssumption DEF StoreInv, StoreTypeOK, Row, RowInv
<1>1. ASSUME NEW i \in Instance, NEW n \in Message, NEW s, GiveUp(i, n, Unlocked(row[n], s))
      PROVE  FALSE
  <2>1. Unlocked(row[n], s).lockedBy = NoInstance
    BY DEF Unlocked
  <2>2. row'[m] = row[m] \/ row'[m] = Unlocked(row[n], s)
    BY <1>1 DEF GiveUp
  <2> QED BY <2>1, <2>2
<1>2. ~OwnerStep
  BY <1>1 DEF OwnerStep, MarkAsProcessed, MarkAsFailed, MarkAsDeadLettered
<1>5. ~RetryStep
  <2>1. ASSUME NEW i \in Instance, NEW n \in Message, IncrementRetry(i, n) PROVE FALSE
    <3>1. [Unlocked(row[n], "Pending") EXCEPT !.retryCount = @ + 1, !.due = FALSE].lockedBy
            = NoInstance
      BY DEF Unlocked
    <3> QED BY <2>1, <3>1 DEF IncrementRetry, GiveUp
  <2> QED BY <2>1 DEF RetryStep
<1>3. ~MaintenanceStep
  <2>1. ~\E n \in Message : SaveMessage(n)
    BY DEF SaveMessage, NewRow
  <2>2. ~ReleaseExpiredLocks
    <3>1. Unlocked(row[m], "Pending").lockedBy = NoInstance
      BY DEF Unlocked
    <3> QED BY <3>1 DEF ReleaseExpiredLocks
  <2>3. ~\E n \in Message : PurgeProcessedMessages(CreatedAt[n] + 1)
    <3>1. [row[m] EXCEPT !.status = "Purged"].lockedBy = row[m].lockedBy
      OBVIOUS
    <3> QED BY <3>1 DEF PurgeProcessedMessages
  <2> QED BY <2>1, <2>2, <2>3 DEF MaintenanceStep
<1>4. ~ClockStep
  BY DEF ClockStep, LeaseExpires, RetryDue
<1> QED BY <1>2, <1>3, <1>4, <1>5

\* Whatever shards there are, an instance takes a row of another one only while the
\* row waits as Pending.
THEOREM ShardsMeetAtPending == StoreSpec => ShardsShareOnlyPending
<1>1. ASSUME StoreInv, StoreStep, NEW m \in Message, NEW j \in Instance,
             m \notin Serves[j], row[m].lockedBy # j, row'[m].lockedBy = j
      PROVE  row[m].status = "Pending"
  <2>1. LockStep
    BY <1>1, GivingUpTakesNothing DEF StoreStep
  <2>2. PICK i \in Instance :
          \/ \E skip, batch \in SUBSET Message : LockNextBatch(i, skip, batch)
          \/ \E n \in Message : TryLockById(i, n)
    BY <2>1 DEF LockStep
  <2>3. PICK n \in Message : TryLockById(i, n)
    BY <1>1, <2>2, BatchWithinShard
  <2> QED BY <1>1, <2>3 DEF TryLockById, LockableById
<1>2. StoreInv /\ [StoreStep]_row =>
        [\A m \in Message, i \in Instance :
           /\ m \notin Serves[i]
           /\ row[m].lockedBy # i /\ row'[m].lockedBy = i
           => row[m].status = "Pending"]_row
  BY <1>1
<1> QED BY <1>2, StoreInvariant, PTL DEF StoreSpec, ShardsShareOnlyPending
=============================================================================
