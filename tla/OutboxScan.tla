----------------------------- MODULE OutboxScan -----------------------------
(***************************************************************************)
(* What the server does while it runs LockNextBatchAsync and               *)
(* ReleaseExpiredLocksAsync.  OutboxStore takes each for one step; here    *)
(* they read row by row, under the row locks their hints ask for:          *)
(*                                                                         *)
(*   - the scan (UPDLOCK, READPAST) passes over a row that another session *)
(*     has locked and keeps an update lock on every row that passes the    *)
(*     WHERE clause, until its single UPDATE at the end, which tests       *)
(*     nothing any more;                                                   *)
(*   - with EnableOrderedProcessing it also reads the partition of the row *)
(*     (READCOMMITTEDLOCK): it waits for exclusive locks there, but not    *)
(*     for the update locks of another scan;                               *)
(*   - the release waits for any lock of another session.                  *)
(*                                                                         *)
(* A session is one connection of an instance running one statement.  The  *)
(* one-row statements of the hot path and of the lock owners wait for the  *)
(* row and are one step.  One lock stands for all index entries of a row.  *)
(***************************************************************************)
EXTENDS OutboxStore

CONSTANTS
  Session,
  SessionHost,  \* Session -> Instance
  Position,     \* Message -> its place in the index a release reads
  Ordered,      \* OutboxOptions.EnableOrderedProcessing
  RetryBound    \* bound on RetryCount

ASSUME ScanAssumption ==
  /\ SessionHost \in [Session -> Instance]
  /\ Position \in [Message -> Nat]
  /\ \A m, n \in Message : m # n => Position[m] # Position[n]
  /\ Ordered \in BOOLEAN
  /\ RetryBound \in Nat

VARIABLES
  stmt,    \* Session -> the statement it runs
  during   \* history: the rows locked by other statements while a scan runs

scanVars == <<row, stmt, during>>

Stmt == [kind   : {"none", "scan", "release"},
         left   : SUBSET Message,   \* rows still to be read
         locks  : SUBSET Message,   \* row locks held until the statement ends
         check  : SUBSET Message,   \* the row whose partition is read next
         chosen : SUBSET Message]   \* rows that pass the whole WHERE clause

NoStmt == [kind |-> "none", left |-> {}, locks |-> {}, check |-> {}, chosen |-> {}]

Running(w, kind) == stmt[w].kind = kind

SetStmt(w, s) == stmt' = [stmt EXCEPT ![w] = s]

\* All rows are there: an insert meets no row lock.
ScanInit ==
  /\ row = [m \in Message |-> NewRow]
  /\ stmt = [w \in Session |-> NoStmt]
  /\ during = [w \in Session |-> {}]

-----------------------------------------------------------------------------
(* Row locks *)

LockedByOther(w, m) == \E v \in Session \ {w} : m \in stmt[v].locks

\* No session stands in the way of a statement that writes row m.
Free(m) == \A v \in Session : m \notin stmt[v].locks

PartitionOf(m) == {n \in Message : Partition[n] = Partition[m]}

\* The rows the next read of w must wait for, were they locked by another: those
\* a release reads next, and those of the partition a scan is checking.
NextRead(w) ==
  IF Running(w, "release")
  THEN {m \in stmt[w].left : row[m].status = "Processing"
                             /\ \A n \in stmt[w].left : Position[m] <= Position[n]}
  ELSE UNION {PartitionOf(m) : m \in stmt[w].check}

\* Mutant: the partition is read under update locks too.
ConflictsAlways(w, v) == stmt[v].locks \cap NextRead(w) # {}

\* A shared lock is compatible with an update lock, not with the exclusive locks
\* of a release.
Conflicts(w, v) ==
  /\ stmt[v].locks \cap NextRead(w) # {}
  /\ Running(w, "release") \/ Running(v, "release")

Blockers(w) == {v \in Session \ {w} : Conflicts(w, v)}

\* A set of sessions that wait for each other for ever.
Deadlocked(ws) == ws # {} /\ \A w \in ws : Blockers(w) \cap ws # {}

Locks(batch) ==
  during' = [w \in Session |->
               IF stmt'[w].kind = "scan" THEN during[w] \cup batch ELSE {}]

-----------------------------------------------------------------------------
(* LockNextBatchAsync *)

StartScan(w) ==
  /\ Running(w, "none")
  /\ \E skip \in SUBSET Message :
       SetStmt(w, [NoStmt EXCEPT !.kind = "scan", !.left = Serves[SessionHost[w]] \ skip])
  /\ UNCHANGED <<row, during>>

\* The row passes the WHERE clause, up to NOT EXISTS.
Keep(w, m) ==
  LET s == [stmt[w] EXCEPT !.left = @ \ {m}, !.locks = @ \cup {m}] IN
  SetStmt(w, IF Ordered /\ Partition[m] # NoPartition
             THEN [s EXCEPT !.check = {m}]
             ELSE [s EXCEPT !.chosen = @ \cup {m}])

\* Mutant: no UPDLOCK.
ReadRowUnlocked(w, m) ==
  /\ Running(w, "scan") /\ stmt[w].check = {}
  /\ m \in stmt[w].left
  /\ SetStmt(w, [stmt[w] EXCEPT !.left = @ \ {m},
       !.chosen = IF LockableByScan(row[m]) THEN @ \cup {m} ELSE @])
  /\ UNCHANGED <<row, during>>

ReadRow(w, m) ==
  /\ Running(w, "scan") /\ stmt[w].check = {}
  /\ m \in stmt[w].left
  /\ IF LockableByScan(row[m]) /\ ~LockedByOther(w, m)
     THEN Keep(w, m)
     ELSE SetStmt(w, [stmt[w] EXCEPT !.left = @ \ {m}])
  /\ UNCHANGED <<row, during>>

\* NOT EXISTS: another row of the partition is not locked by anybody.
ReadPartition(w) ==
  /\ Running(w, "scan") /\ Blockers(w) = {}
  /\ \E m \in stmt[w].check :
       SetStmt(w, [stmt[w] EXCEPT !.check = {},
         !.chosen = IF PartitionBusy(m) THEN @ ELSE @ \cup {m}])
  /\ UNCHANGED <<row, during>>

\* The oldest BatchSize rows are known once no older row is left to read.
IsBatch(w, batch) ==
  /\ IsOldestOf(batch, stmt[w].chosen)
  /\ \/ stmt[w].left = {}
     \/ /\ Cardinality(batch) = BatchSize
        /\ \A m \in batch, n \in stmt[w].left : CreatedAt[m] <= CreatedAt[n]

UpdateBatch(w) ==
  /\ Running(w, "scan") /\ stmt[w].check = {}
  /\ \E batch \in SUBSET stmt[w].chosen :
       /\ IsBatch(w, batch)
       /\ row' = [m \in Message |-> IF m \in batch THEN Locked(row[m], SessionHost[w]) ELSE row[m]]
       /\ SetStmt(w, NoStmt)
       /\ Locks(batch)

(* ReleaseExpiredLocksAsync *)

StartRelease(w) ==
  /\ Running(w, "none")
  /\ SetStmt(w, [NoStmt EXCEPT !.kind = "release", !.left = Message])
  /\ UNCHANGED <<row, during>>

\* Rows in the order of the index on Status; those not Processing are not read.
ReadExpired(w, m) ==
  /\ Running(w, "release") /\ Blockers(w) = {}
  /\ m \in stmt[w].left
  /\ \A n \in stmt[w].left : Position[m] <= Position[n]
  /\ SetStmt(w, [stmt[w] EXCEPT !.left = @ \ {m},
                                !.locks = IF m \in ExpiredLocks THEN @ \cup {m} ELSE @])
  /\ UNCHANGED <<row, during>>

CommitRelease(w) ==
  /\ Running(w, "release") /\ stmt[w].left = {}
  /\ row' = [m \in Message |-> IF m \in stmt[w].locks THEN Unlocked(row[m], "Pending")
                                                      ELSE row[m]]
  /\ SetStmt(w, NoStmt)
  /\ UNCHANGED during

\* External: SQL Server's deadlock monitor rolls one of the sessions back.
Victim(w) ==
  /\ \E ws \in SUBSET Session : w \in ws /\ Deadlocked(ws)
  /\ SetStmt(w, NoStmt)
  /\ Locks({})
  /\ UNCHANGED row

(* One-row statements *)

LockHintedRow(i, m) ==
  /\ Free(m)
  /\ TryLockById(i, m)
  /\ UNCHANGED stmt
  /\ Locks({n \in {m} : row'[n] # row[n]})

\* MarkAsFailed and MarkAsDeadLettered differ in the status they write only.
OwnerWrites(i, m) ==
  /\ Free(m)
  /\ \/ MarkAsProcessed(i, m)
     \/ row[m].retryCount < RetryBound /\ IncrementRetry(i, m)
  /\ UNCHANGED <<stmt, during>>

\* The clock waits for nobody.
TimePasses ==
  /\ \E m \in Message : LeaseExpires(m) \/ RetryDue(m)
  /\ UNCHANGED <<stmt, during>>

-----------------------------------------------------------------------------
SessionStep(w) ==
  \/ \E m \in Message : ReadRow(w, m) \/ ReadExpired(w, m)
  \/ ReadPartition(w)
  \/ UpdateBatch(w)
  \/ CommitRelease(w)
  \/ Victim(w)

ScanNext ==
  \/ \E w \in Session : StartScan(w) \/ StartRelease(w) \/ SessionStep(w)
  \/ \E i \in Instance, m \in Message : LockHintedRow(i, m) \/ OwnerWrites(i, m)
  \/ TimePasses

ScanSpec == ScanInit /\ [][ScanNext]_scanVars

-----------------------------------------------------------------------------
(* Properties *)

ScanTypeOK ==
  /\ StoreTypeOK
  /\ stmt \in [Session -> Stmt]
  /\ during \in [Session -> SUBSET Message]

\* The UPDATE at the end of a scan tests nothing, so what its WHERE clause saw must
\* last: while the scan goes on reading, no hint, owner, release or other scan
\* takes a chosen row away from it.
ChosenStayLockable ==
  \A w \in Session : \A m \in stmt[w].chosen :
    LockableByScan(row[m]) /\ ~LockedByOther(w, m)

\* The atomic statements of OutboxStore, without partitions and with one liberty:
\* a release misses a lock that expires behind its back.
Table == INSTANCE OutboxStore WITH Partition <- [m \in Message |-> NoPartition]

ReleaseSome ==
  \E ms \in SUBSET ExpiredLocks :
    row' = [m \in Message |-> IF m \in ms THEN Unlocked(row[m], "Pending") ELSE row[m]]

\* Interleaved row by row, the statements have the effect of the atomic ones: each
\* commit is one step of the store.  In particular a batch holds the oldest
\* lockable rows of those the scan did not pass over.
ScanImplementsStore == [][Table!StoreStep \/ ReleaseSome]_row

\* Ordered processing: a batch joins a partition in which a lock is held only when
\* that lock was taken while the scan was running (OutboxOptions.EnableOrderedProcessing
\* "does not pick up"; the NOT EXISTS clause sees every older lock).
JoinedOnlyDuringScan ==
  [][Ordered =>
       \A w \in Session, m, n \in Message :
         /\ Running(w, "scan") /\ stmt'[w].kind = "none"
         /\ Partition[m] = Partition[n] /\ Partition[m] # NoPartition
         /\ ~LockHeld(row[m]) /\ LockHeld(row'[m])
         /\ LockHeld(row[n])
         => n \in during[w]]_scanVars

\* Scans pass over each other's rows, so they wait for each other never, and for a
\* release only when they read a partition: without ordered processing no set of
\* sessions ever waits in a circle, with it every circle holds a scan and a release.
CirclesNeedOrdering ==
  \A ws \in SUBSET Session : Deadlocked(ws) =>
    /\ Ordered
    /\ \E v, w \in ws : Running(v, "scan") /\ Running(w, "release")
=============================================================================
