-------------------------- MODULE OutboxScanProofs --------------------------
(***************************************************************************)
(* Proofs about the row-by-row statements (ScanSpec of OutboxScan), for    *)
(* any number of sessions and rows and with or without ordered processing: *)
(* update locks keep what a scan has seen true until its UPDATE, hence     *)
(* every commit is a step of the atomic store.                             *)
(* ReadInv adds what a statement that runs has read, which bounds the      *)
(* races of ordered processing and says who may wait for whom.             *)
(***************************************************************************)
EXTENDS OutboxScan, FiniteSetTheorems, WellFoundedInduction, TLAPS

\* What the locks of session w stand for while its statement runs.
StmtOK(w) ==
  LET s == stmt[w] IN
  /\ s.check \cup s.chosen \subseteq s.locks
  /\ s.kind = "none" => s.locks = {}
  /\ s.kind = "scan" => /\ s.left \cup s.chosen \cup s.check \subseteq Serves[SessionHost[w]]
                        /\ \A m \in s.locks : LockableByScan(row[m])
  /\ s.kind = "release" => /\ s.locks \subseteq ExpiredLocks
                           /\ s.chosen = {} /\ s.check = {}

LocksExclude ==
  \A v, w \in Session : v # w => stmt[v].locks \cap stmt[w].locks = {}

\* The inductive invariant.
ScanInv ==
  /\ ScanTypeOK
  /\ \A w \in Session : StmtOK(w)
  /\ LocksExclude

-----------------------------------------------------------------------------
LEMMA HostServes ==
  ASSUME NEW w \in Session
  PROVE  /\ SessionHost[w] \in Instance
         /\ Serves[SessionHost[w]] \subseteq Message
BY StoreAssumption, ScanAssumption

LEMMA NoStmtType == NoStmt \in Stmt
BY DEF NoStmt, Stmt

LEMMA LockedType ==
  ASSUME NEW r \in Row, NEW i \in Instance
  PROVE  Locked(r, i) \in Row /\ Unlocked(r, "Pending") \in Row
BY DEF Locked, Unlocked, Row

LEMMA RetryType ==
  ASSUME NEW r \in Row, NEW n \in Nat
  PROVE  [r EXCEPT !.retryCount = n, !.due = FALSE] \in Row
<1>1. [r EXCEPT !.retryCount = n] \in Row
  BY DEF Row
<1> QED BY <1>1 DEF Row

\* The clock takes no row from the reach of a scan or of a release.
LEMMA ClockType ==
  ASSUME NEW r \in Row, NEW t, t = [r EXCEPT !.lease = "expired"] \/ t = [r EXCEPT !.due = TRUE]
  PROVE  /\ t \in Row /\ t.status = r.status
         /\ LockableByScan(r) => LockableByScan(t)
         /\ r.lease = "expired" => t.lease = "expired"
<1>1. CASE t = [r EXCEPT !.lease = "expired"]
  BY <1>1 DEF Row, LockableByScan
<1>2. CASE t = [r EXCEPT !.due = TRUE]
  BY <1>2 DEF Row, LockableByScan
<1> QED BY <1>1, <1>2

\* The history has its type whatever a step locks.
LEMMA DuringType ==
  ASSUME during \in [Session -> SUBSET Message], NEW ms \in SUBSET Message, Locks(ms)
  PROVE  during' \in [Session -> SUBSET Message]
BY DEF Locks

\* Rows that are locked by a session keep what the session saw, when a step writes
\* only rows that no session has locked, or lets the clock pass.
LEMMA RowsKept ==
  ASSUME ScanInv, UNCHANGED stmt,
         \A w \in Session : \A m \in stmt[w].locks :
           /\ LockableByScan(row[m]) => LockableByScan(row'[m])
           /\ m \in ExpiredLocks => row'[m].status = "Processing" /\ row'[m].lease = "expired"
  PROVE  (\A w \in Session : StmtOK(w)') /\ LocksExclude'
<1>1. \A w \in Session : stmt[w].locks \subseteq Message
  BY DEF ScanInv, ScanTypeOK, Stmt
<1> QED BY <1>1 DEF ScanInv, StmtOK, LocksExclude, ExpiredLocks

\* One session moves to statement s, and no row that another has locked is written.
LEMMA SessionMoves ==
  ASSUME ScanInv, NEW w \in Session, NEW s \in Stmt, SetStmt(w, s),
         \A v \in Session \ {w} : \A m \in stmt[v].locks : row'[m] = row[m] /\ m \notin s.locks,
         StmtOK(w)'
  PROVE  (\A v \in Session : StmtOK(v)') /\ LocksExclude' /\ stmt' \in [Session -> Stmt]
<1>0. stmt \in [Session -> Stmt]
  BY DEF ScanInv, ScanTypeOK
<1>1. stmt' \in [Session -> Stmt] /\ stmt'[w] = s
      /\ \A v \in Session \ {w} : stmt'[v] = stmt[v]
  BY <1>0 DEF SetStmt
<1>2. \A v \in Session \ {w} : stmt[v].locks \subseteq Message
  BY <1>0 DEF Stmt
<1>3. \A v \in Session \ {w} : StmtOK(v)'
  BY <1>1, <1>2 DEF ScanInv, StmtOK, ExpiredLocks
<1>4. LocksExclude'
  BY <1>1 DEF ScanInv, LocksExclude
<1> QED BY <1>1, <1>3, <1>4

LEMMA EndType ==
  ASSUME NEW w \in Session, stmt \in [Session -> Stmt], SetStmt(w, NoStmt)
  PROVE  StmtOK(w)'
BY DEF SetStmt, StmtOK, NoStmt

-----------------------------------------------------------------------------
(* The steps of a scan *)

LEMMA ReadRowKeeps ==
  ASSUME ScanInv, NEW w \in Session, NEW m \in Message, ReadRow(w, m)
  PROVE  ScanInv'
<1> DEFINE s == stmt[w]
<1>0. /\ s \in Stmt /\ StmtOK(w) /\ s.kind = "scan" /\ m \in s.left /\ s.check = {}
      /\ UNCHANGED <<row, during>>
  BY DEF ScanInv, ScanTypeOK, ReadRow, Running
<1>1. ASSUME NEW k \in Stmt, SetStmt(w, k), StmtOK(w)',
             k.locks \subseteq s.locks \cup {m},
             k.locks = s.locks \/ ~LockedByOther(w, m)
      PROVE  ScanInv'
  <2>1. \A v \in Session \ {w} : \A n \in stmt[v].locks : row'[n] = row[n] /\ n \notin k.locks
    BY <1>0, <1>1 DEF ScanInv, LocksExclude, LockedByOther
  <2>2. (\A v \in Session : StmtOK(v)') /\ LocksExclude' /\ stmt' \in [Session -> Stmt]
    BY <1>1, <2>1, SessionMoves
  <2> QED BY <1>0, <2>2 DEF ScanInv, ScanTypeOK, StoreTypeOK
<1>2. \A k : SetStmt(w, k) => stmt'[w] = k
  BY DEF ScanInv, ScanTypeOK, SetStmt
<1>3. CASE LockableByScan(row[m]) /\ ~LockedByOther(w, m)
  <2> DEFINE k0 == [s EXCEPT !.left = s.left \ {m}, !.locks = s.locks \cup {m}]
  <2>1. PICK k \in {[k0 EXCEPT !.check = {m}], [k0 EXCEPT !.chosen = k0.chosen \cup {m}]} :
               SetStmt(w, k)
    BY <1>3 DEF ReadRow, Keep
  <2>2. /\ k \in Stmt /\ k.kind = "scan" /\ k.left = s.left \ {m} /\ k.locks = s.locks \cup {m}
        /\ k.check \cup k.chosen \subseteq s.chosen \cup {m}
    <3>1. /\ k0 \in Stmt /\ k0.kind = "scan" /\ k0.left = s.left \ {m}
          /\ k0.locks = s.locks \cup {m} /\ k0.check = {} /\ k0.chosen = s.chosen
      BY <1>0 DEF Stmt
    <3> HIDE DEF k0
    <3> QED BY <2>1, <3>1 DEF Stmt
  <2>3. StmtOK(w)'
    BY <1>0, <1>2, <1>3, <2>1, <2>2 DEF StmtOK
  <2> QED BY <1>1, <1>3, <2>1, <2>2, <2>3
<1>4. CASE ~(LockableByScan(row[m]) /\ ~LockedByOther(w, m))
  <2> DEFINE k == [s EXCEPT !.left = s.left \ {m}]
  <2>1. SetStmt(w, k)
    BY <1>4 DEF ReadRow
  <2>2. /\ k \in Stmt /\ k.kind = "scan" /\ k.left = s.left \ {m} /\ k.locks = s.locks
        /\ k.check = s.check /\ k.chosen = s.chosen
    BY <1>0 DEF Stmt
  <2>3. StmtOK(w)'
    BY <1>0, <1>2, <2>1, <2>2 DEF StmtOK
  <2> QED BY <1>1, <2>1, <2>2, <2>3
<1> QED BY <1>3, <1>4

LEMMA ReadPartitionKeeps ==
  ASSUME ScanInv, NEW w \in Session, ReadPartition(w)
  PROVE  ScanInv'
<1> DEFINE s == stmt[w]
<1>0. /\ s \in Stmt /\ StmtOK(w) /\ s.kind = "scan" /\ UNCHANGED <<row, during>>
  BY DEF ScanInv, ScanTypeOK, ReadPartition, Running
<1>1. PICK m \in s.check :
        SetStmt(w, [s EXCEPT !.check = {},
                      !.chosen = IF PartitionBusy(m) THEN s.chosen ELSE s.chosen \cup {m}])
  BY DEF ReadPartition
<1> DEFINE k == [s EXCEPT !.check = {},
                   !.chosen = IF PartitionBusy(m) THEN s.chosen ELSE s.chosen \cup {m}]
<1>2. m \in Message
  BY <1>0 DEF Stmt
<1>3. /\ k \in Stmt /\ k.kind = "scan" /\ k.left = s.left /\ k.locks = s.locks
      /\ k.check = {} /\ k.chosen \subseteq s.chosen \cup {m}
  BY <1>0, <1>1, <1>2 DEF Stmt
<1>4. SetStmt(w, k) /\ stmt'[w] = k
  BY <1>1 DEF ScanInv, ScanTypeOK, SetStmt
<1> HIDE DEF k
<1>5. StmtOK(w)'
  BY <1>0, <1>1, <1>3, <1>4 DEF StmtOK
<1>6. (\A v \in Session : StmtOK(v)') /\ LocksExclude' /\ stmt' \in [Session -> Stmt]
  <2>1. \A v \in Session \ {w} : \A n \in stmt[v].locks : row'[n] = row[n] /\ n \notin k.locks
    BY <1>0, <1>3 DEF ScanInv, LocksExclude
  <2> QED BY <1>3, <1>4, <1>5, <2>1, SessionMoves
<1> QED BY <1>0, <1>6 DEF ScanInv, ScanTypeOK, StoreTypeOK

\* A statement ends: it wrote none but the rows it had locked itself.
LEMMA EndKeeps ==
  ASSUME ScanInv, NEW w \in Session, SetStmt(w, NoStmt),
         row' \in [Message -> Row], during' \in [Session -> SUBSET Message],
         \A m \in Message : m \notin stmt[w].locks => row'[m] = row[m]
  PROVE  ScanInv'
<1>1. \A v \in Session \ {w} : \A m \in stmt[v].locks : m \in Message /\ m \notin stmt[w].locks
  BY DEF ScanInv, ScanTypeOK, Stmt, LocksExclude
<1>2. StmtOK(w)'
  BY EndType DEF ScanInv, ScanTypeOK
<1>3. NoStmt.locks = {}
  BY DEF NoStmt
<1> QED BY <1>1, <1>2, <1>3, NoStmtType, SessionMoves DEF ScanInv, ScanTypeOK, StoreTypeOK

LEMMA UpdateBatchKeeps ==
  ASSUME ScanInv, NEW w \in Session, UpdateBatch(w)
  PROVE  ScanInv'
<1>1. PICK batch \in SUBSET stmt[w].chosen :
        /\ row' = [m \in Message |-> IF m \in batch THEN Locked(row[m], SessionHost[w]) ELSE row[m]]
        /\ SetStmt(w, NoStmt) /\ Locks(batch)
  BY DEF UpdateBatch
<1>2. batch \subseteq Message /\ batch \subseteq stmt[w].locks
  BY <1>1 DEF ScanInv, ScanTypeOK, Stmt, StmtOK
<1>3. row' \in [Message -> Row]
  BY <1>1, HostServes, LockedType DEF ScanInv, ScanTypeOK, StoreTypeOK
<1>4. during' \in [Session -> SUBSET Message]
  BY <1>1, <1>2, DuringType DEF ScanInv, ScanTypeOK
<1> QED BY <1>1, <1>2, <1>3, <1>4, EndKeeps

(* The steps of a release *)

LEMMA ReadExpiredKeeps ==
  ASSUME ScanInv, NEW w \in Session, NEW m \in Message, ReadExpired(w, m)
  PROVE  ScanInv'
<1> DEFINE s == stmt[w]
           k == [s EXCEPT !.left = s.left \ {m},
                          !.locks = IF m \in ExpiredLocks THEN s.locks \cup {m} ELSE s.locks]
<1>0. /\ s \in Stmt /\ StmtOK(w) /\ s.kind = "release" /\ UNCHANGED <<row, during>>
      /\ SetStmt(w, k) /\ m \in s.left /\ \A n \in s.left : Position[m] <= Position[n]
  BY DEF ScanInv, ScanTypeOK, ReadExpired, Running
<1>1. /\ k \in Stmt /\ k.kind = "release" /\ k.locks \subseteq s.locks \cup (ExpiredLocks \cap {m})
      /\ k.check = s.check /\ k.chosen = s.chosen
  BY <1>0 DEF Stmt
<1> HIDE DEF k
<1>2. m \in ExpiredLocks => \A v \in Session \ {w} : m \notin stmt[v].locks
  <2>1. m \in ExpiredLocks => m \in NextRead(w)
    BY <1>0 DEF NextRead, Running, ExpiredLocks
  <2> QED BY <2>1 DEF ReadExpired, Blockers, Conflicts
<1>3. stmt'[w] = k
  BY <1>0 DEF ScanInv, ScanTypeOK, SetStmt
<1>4. StmtOK(w)'
  BY <1>0, <1>1, <1>3 DEF StmtOK, ExpiredLocks
<1>5. (\A v \in Session : StmtOK(v)') /\ LocksExclude' /\ stmt' \in [Session -> Stmt]
  <2>1. \A v \in Session \ {w} : \A n \in stmt[v].locks : row'[n] = row[n] /\ n \notin k.locks
    BY <1>0, <1>1, <1>2 DEF ScanInv, LocksExclude
  <2> QED BY <1>0, <1>1, <1>4, <2>1, SessionMoves
<1> QED BY <1>0, <1>5 DEF ScanInv, ScanTypeOK, StoreTypeOK

LEMMA CommitReleaseKeeps ==
  ASSUME ScanInv, NEW w \in Session, CommitRelease(w)
  PROVE  ScanInv'
<1>1. row' \in [Message -> Row]
  BY HostServes, LockedType DEF CommitRelease, ScanInv, ScanTypeOK, StoreTypeOK
<1> QED BY <1>1, EndKeeps DEF CommitRelease, ScanInv, ScanTypeOK

\* Statements that begin hold no lock.
LEMMA StartKeeps ==
  ASSUME ScanInv, NEW w \in Session, StartScan(w) \/ StartRelease(w)
  PROVE  ScanInv'
<1>1. PICK k : /\ SetStmt(w, k) /\ k \in Stmt
               /\ k.locks = {} /\ k.check = {} /\ k.chosen = {}
               /\ k.kind \in {"scan", "release"}
               /\ k.kind = "scan" => k.left \subseteq Serves[SessionHost[w]]
  <2>1. CASE StartScan(w)
    <3>1. PICK skip \in SUBSET Message :
             SetStmt(w, [NoStmt EXCEPT !.kind = "scan", !.left = Serves[SessionHost[w]] \ skip])
      BY <2>1 DEF StartScan
    <3> DEFINE k == [NoStmt EXCEPT !.kind = "scan", !.left = Serves[SessionHost[w]] \ skip]
    <3>2. /\ k \in Stmt /\ k.locks = {} /\ k.check = {} /\ k.chosen = {} /\ k.kind = "scan"
          /\ k.left \subseteq Serves[SessionHost[w]]
      BY HostServes DEF NoStmt, Stmt
    <3> QED BY <3>1, <3>2
  <2>2. CASE StartRelease(w)
    <3> DEFINE k == [NoStmt EXCEPT !.kind = "release", !.left = Message]
    <3>1. /\ k \in Stmt /\ k.locks = {} /\ k.check = {} /\ k.chosen = {} /\ k.kind = "release"
      BY DEF NoStmt, Stmt
    <3>2. SetStmt(w, k)
      BY <2>2 DEF StartRelease
    <3> QED BY <3>1, <3>2
  <2> QED BY <2>1, <2>2
<1>2. stmt'[w] = k
  BY <1>1 DEF ScanInv, ScanTypeOK, SetStmt
<1>3. StmtOK(w)'
  BY <1>1, <1>2 DEF StmtOK
<1>4. UNCHANGED <<row, during>>
  BY DEF StartScan, StartRelease
<1>5. (\A v \in Session : StmtOK(v)') /\ LocksExclude' /\ stmt' \in [Session -> Stmt]
  BY <1>1, <1>3, <1>4, SessionMoves
<1> QED BY <1>4, <1>5 DEF ScanInv, ScanTypeOK, StoreTypeOK

(* The statements that write one row *)

\* A one-row statement or the clock: locked rows keep what their session saw.
LEMMA OthersKeep ==
  ASSUME ScanInv,
         \/ \E i \in Instance, m \in Message : LockHintedRow(i, m) \/ OwnerWrites(i, m)
         \/ TimePasses
  PROVE  ScanInv'
<1>0. row \in [Message -> Row] /\ StoreTypeOK /\ during \in [Session -> SUBSET Message]
      /\ stmt \in [Session -> Stmt]
  BY DEF ScanInv, ScanTypeOK, StoreTypeOK
<1>1. ASSUME NEW i \in Instance, NEW m \in Message, LockHintedRow(i, m) \/ OwnerWrites(i, m)
      PROVE  /\ UNCHANGED stmt
             /\ \A n \in Message : n # m => row'[n] = row[n]
             /\ Free(m)
             /\ row' \in [Message -> Row]
             /\ during' \in [Session -> SUBSET Message]
  <2>1. CASE LockHintedRow(i, m)
    <3>1. {n \in {m} : row'[n] # row[n]} \in SUBSET Message
      OBVIOUS
    <3>2. during' \in [Session -> SUBSET Message]
      BY <1>0, <2>1, <3>1, DuringType DEF LockHintedRow
    <3> QED BY <1>0, <2>1, <3>2, LockedType DEF LockHintedRow, TryLockById
  <2>2. CASE OwnerWrites(i, m)
    <3>1. /\ Unlocked(row[m], "Delivered") \in Row
          /\ [Unlocked(row[m], "Pending") EXCEPT !.retryCount = @ + 1, !.due = FALSE] \in Row
      <4> DEFINE r == row[m]
                 u == Unlocked(r, "Pending")
      <4>1. r \in Row
        BY <1>0
      <4>2. Unlocked(r, "Delivered") \in Row /\ u \in Row
        BY <4>1 DEF Unlocked, Row, Terminal
      <4>3. [u EXCEPT !.retryCount = u.retryCount + 1, !.due = FALSE] \in Row
        <5>1. u.retryCount + 1 \in Nat
          BY <4>2 DEF Row
        <5> QED BY <4>2, <5>1, RetryType
      <4> QED BY <4>2, <4>3
    <3> QED BY <1>0, <2>2, <3>1 DEF OwnerWrites, MarkAsProcessed, IncrementRetry, GiveUp
  <2> QED BY <1>1, <2>1, <2>2
<1>2. ASSUME NEW i \in Instance, NEW m \in Message, LockHintedRow(i, m) \/ OwnerWrites(i, m)
      PROVE  ScanInv'
  <2>1. \A w \in Session : \A n \in stmt[w].locks : n \in Message /\ row'[n] = row[n]
    BY <1>0, <1>1, <1>2 DEF Free, Stmt
  <2> QED BY <1>1, <1>2, <2>1, <1>0, RowsKept DEF ScanInv, ScanTypeOK, StoreTypeOK, ExpiredLocks
<1>3. CASE TimePasses
  <2>1. PICK m \in Message : LeaseExpires(m) \/ RetryDue(m)
    BY <1>3 DEF TimePasses
  <2>2. /\ row' \in [Message -> Row]
        /\ \A n \in Message : /\ LockableByScan(row[n]) => LockableByScan(row'[n])
                              /\ n \in ExpiredLocks => row'[n].status = "Processing"
                                                       /\ row'[n].lease = "expired"
    <3>1. PICK t : /\ row' = [row EXCEPT ![m] = t]
                   /\ t = [row[m] EXCEPT !.lease = "expired"] \/ t = [row[m] EXCEPT !.due = TRUE]
      BY <2>1 DEF LeaseExpires, RetryDue
    <3>2. /\ t \in Row /\ t.status = row[m].status
          /\ LockableByScan(row[m]) => LockableByScan(t)
          /\ row[m].lease = "expired" => t.lease = "expired"
      BY <1>0, <3>1, ClockType
    <3> QED BY <1>0, <3>1, <3>2 DEF ExpiredLocks
  <2>3. \A w \in Session : stmt[w].locks \subseteq Message
    BY <1>0 DEF Stmt
  <2> QED BY <1>0, <1>3, <2>2, <2>3, RowsKept DEF TimePasses, ScanInv, ScanTypeOK, StoreTypeOK
<1> QED BY <1>2, <1>3

-----------------------------------------------------------------------------
LEMMA ScanInvInit == ScanInit => ScanInv
<1> SUFFICES ASSUME ScanInit PROVE ScanInv
  OBVIOUS
<1>1. StoreTypeOK
  BY DEF ScanInit, StoreTypeOK, NewRow, Row
<1>2. \A w \in Session : StmtOK(w)
  BY DEF ScanInit, StmtOK, NoStmt
<1> QED BY <1>1, <1>2, NoStmtType DEF ScanInit, ScanInv, ScanTypeOK, LocksExclude, NoStmt

LEMMA ScanInvKept == ScanInv /\ [ScanNext]_scanVars => ScanInv'
<1> SUFFICES ASSUME ScanInv, [ScanNext]_scanVars PROVE ScanInv'
  OBVIOUS
<1>1. ASSUME NEW w \in Session, Victim(w) PROVE ScanInv'
  <2>1. during' \in [Session -> SUBSET Message]
    BY <1>1, DuringType DEF Victim, ScanInv, ScanTypeOK
  <2> QED BY <1>1, <2>1, EndKeeps DEF Victim, ScanInv, ScanTypeOK, StoreTypeOK
<1>2. ASSUME NEW w \in Session, SessionStep(w) PROVE ScanInv'
  BY <1>1, <1>2, ReadRowKeeps, ReadExpiredKeeps, ReadPartitionKeeps, UpdateBatchKeeps,
     CommitReleaseKeeps DEF SessionStep
<1>3. CASE UNCHANGED scanVars
  BY <1>3 DEF scanVars, ScanInv, ScanTypeOK, StoreTypeOK, StmtOK, LocksExclude, ExpiredLocks
<1> QED BY <1>2, <1>3, StartKeeps, OthersKeep DEF ScanNext

LEMMA ScanInvariant == ScanSpec => []ScanInv
BY ScanInvInit, ScanInvKept, PTL DEF ScanSpec

\* What a scan has chosen lasts until its UPDATE, whatever the other sessions do:
\* the update locks make up for the test that the UPDATE does not repeat.
THEOREM ChosenLast == ScanSpec => []ChosenStayLockable
<1>1. ScanInv => ChosenStayLockable
  <2> SUFFICES ASSUME ScanInv, NEW w \in Session, NEW m \in stmt[w].chosen
               PROVE  LockableByScan(row[m]) /\ ~LockedByOther(w, m)
    BY DEF ChosenStayLockable
  <2>1. m \in stmt[w].locks /\ stmt[w].kind = "scan"
    BY DEF ScanInv, StmtOK, ScanTypeOK, Stmt
  <2> QED BY <2>1 DEF ScanInv, StmtOK, LockedByOther, LocksExclude
<1> QED BY <1>1, ScanInvariant, PTL

-----------------------------------------------------------------------------
(* Every commit is a step of the store *)

LEMMA UpdateBatchIsLockNextBatch ==
  ASSUME ScanInv, NEW w \in Session, UpdateBatch(w)
  PROVE  Table!StoreStep
<1> DEFINE i == SessionHost[w]
           chosen == stmt[w].chosen
           skip == Message \ chosen
<1>1. PICK batch \in SUBSET chosen :
        /\ IsOldestOf(batch, chosen)
        /\ row' = [m \in Message |-> IF m \in batch THEN Locked(row[m], i) ELSE row[m]]
  BY DEF UpdateBatch, IsBatch
<1>2. /\ chosen \subseteq Message /\ chosen \subseteq Serves[i]
      /\ \A m \in chosen : LockableByScan(row[m])
  BY DEF UpdateBatch, Running, ScanInv, ScanTypeOK, Stmt, StmtOK
<1>3. Table!Eligible(i, skip) = chosen
  <2>1. \A m \in Message : ~Table!PartitionBusy(m)
    BY DEF Table!PartitionBusy
  <2>2. \A m \in Message : Table!LockableByScan(row[m]) <=> LockableByScan(row[m])
    BY DEF Table!LockableByScan, LockableByScan
  <2> QED BY <1>2, <2>1, <2>2, HostServes DEF Table!Eligible
<1>4. Table!IsOldestOf(batch, chosen)
  <2>1. Table!Cardinality(batch) = Cardinality(batch)
    BY Zenon DEF Cardinality, Table!Cardinality
  <2> QED BY <1>1, <2>1 DEF IsOldestOf, Table!IsOldestOf
<1>5. Table!LockNextBatch(i, skip, batch)
  BY <1>1, <1>3, <1>4 DEF Table!LockNextBatch, Table!Locked, Locked
<1>6. i \in Instance /\ skip \in SUBSET Message /\ batch \in SUBSET Message
  BY <1>1, <1>2, HostServes
<1> QED BY <1>5, <1>6 DEF Table!StoreStep, Table!LockStep

LEMMA OneRowIsStoreStep ==
  ASSUME NEW i \in Instance, NEW m \in Message, LockHintedRow(i, m) \/ OwnerWrites(i, m)
  PROVE  Table!StoreStep
<1>1. CASE LockHintedRow(i, m)
  <2>1. Table!TryLockById(i, m)
    BY <1>1 DEF LockHintedRow, TryLockById, LockableById, Locked,
                Table!TryLockById, Table!LockableById, Table!Locked
  <2> QED BY <2>1 DEF Table!StoreStep, Table!LockStep
<1>2. CASE OwnerWrites(i, m)
  <2>1. Table!MarkAsProcessed(i, m) \/ Table!IncrementRetry(i, m)
    BY <1>2 DEF OwnerWrites, MarkAsProcessed, IncrementRetry, GiveUp, Owns, Unlocked,
                Table!MarkAsProcessed, Table!IncrementRetry, Table!GiveUp, Table!Owns,
                Table!Unlocked
  <2> QED BY <2>1 DEF Table!StoreStep, Table!OwnerStep, Table!RetryStep
<1> QED BY <1>1, <1>2

\* Interleaved as they are, the statements are those of the store: what is checked
\* and proved of the atomic LockNextBatch holds of the scan.
THEOREM ScanIsStore == ScanSpec => ScanImplementsStore
<1>1. ScanInv /\ [ScanNext]_scanVars => [Table!StoreStep \/ ReleaseSome]_row
  <2> SUFFICES ASSUME ScanInv, ScanNext, row' # row PROVE Table!StoreStep \/ ReleaseSome
    BY DEF scanVars
  <2>1. ASSUME NEW w \in Session, CommitRelease(w) PROVE ReleaseSome
    <3>1. stmt[w].locks \in SUBSET ExpiredLocks
      BY <2>1 DEF CommitRelease, Running, ScanInv, StmtOK
    <3> QED BY <2>1, <3>1 DEF CommitRelease, ReleaseSome
  <2>2. CASE TimePasses
    BY <2>2 DEF TimePasses, LeaseExpires, RetryDue, Table!StoreStep, Table!ClockStep,
                Table!LeaseExpires, Table!RetryDue
  <2>3. ASSUME NEW w \in Session, SessionStep(w) PROVE Table!StoreStep \/ ReleaseSome
    BY <2>1, <2>3, UpdateBatchIsLockNextBatch
       DEF SessionStep, ReadRow, ReadExpired, ReadPartition, Victim
  <2>4. ASSUME NEW w \in Session, StartScan(w) \/ StartRelease(w) PROVE FALSE
    BY <2>4 DEF StartScan, StartRelease
  <2> QED BY <2>2, <2>3, <2>4, OneRowIsStoreStep DEF ScanNext
<1> QED BY <1>1, ScanInvariant, PTL DEF ScanSpec, ScanImplementsStore

-----------------------------------------------------------------------------
(* What a running statement has read *)

\* Only ordered processing reads partitions, and a release has read all rows up to
\* the one it reads next.
ReadOK(w) ==
  /\ stmt[w].check # {} => Ordered /\ Running(w, "scan")
  /\ Running(w, "release") =>
       /\ stmt[w].locks \cap stmt[w].left = {}
       /\ \A m \in Message \ stmt[w].left : \A n \in stmt[w].left : Position[m] < Position[n]

\* Every lock on a row of the partition of a chosen row is younger than the scan.
JoinOK(w) ==
  Ordered /\ Running(w, "scan") =>
    \A m \in stmt[w].chosen : \A n \in Message :
      Partition[m] = Partition[n] /\ Partition[m] # NoPartition /\ LockHeld(row[n])
        => n \in during[w]

ReadInv == \A w \in Session : ReadOK(w) /\ JoinOK(w)

LEMMA MovedStmt ==
  ASSUME ScanInv, NEW w \in Session, NEW s, SetStmt(w, s)
  PROVE  stmt'[w] = s /\ \A v \in Session \ {w} : stmt'[v] = stmt[v]
BY DEF ScanInv, ScanTypeOK, SetStmt

\* What a step may do to the statement of a session.
LEMMA StmtStep ==
  ASSUME ScanInv, ScanNext, NEW w \in Session
  PROVE  \/ stmt'[w] = stmt[w]
         \/ /\ stmt'[w].check = {} /\ stmt'[w].chosen = {} /\ stmt'[w].locks = {}
            /\ stmt'[w].kind = "release" => stmt'[w].left = Message
         \/ \E m \in Message : ReadRow(w, m) \/ ReadExpired(w, m)
         \/ ReadPartition(w)
<1> DEFINE Fresh(s) == /\ s.check = {} /\ s.chosen = {} /\ s.locks = {}
                       /\ s.kind = "release" => s.left = Message
<1>1. Fresh(NoStmt)
  BY DEF NoStmt
<1>2. ASSUME NEW v \in Session, StartScan(v) \/ StartRelease(v)
      PROVE  stmt'[w] = stmt[w] \/ Fresh(stmt'[w])
  <2>1. CASE StartScan(v)
    <3>1. PICK skip \in SUBSET Message :
             SetStmt(v, [NoStmt EXCEPT !.kind = "scan", !.left = Serves[SessionHost[v]] \ skip])
      BY <2>1 DEF StartScan
    <3>2. Fresh([NoStmt EXCEPT !.kind = "scan", !.left = Serves[SessionHost[v]] \ skip])
      BY DEF NoStmt
    <3> QED BY <3>1, <3>2, MovedStmt
  <2>2. CASE StartRelease(v)
    <3>1. Fresh([NoStmt EXCEPT !.kind = "release", !.left = Message])
      BY DEF NoStmt
    <3> QED BY <2>2, <3>1, MovedStmt DEF StartRelease
  <2> QED BY <1>2, <2>1, <2>2
<1>3. ASSUME NEW v \in Session, UpdateBatch(v) \/ CommitRelease(v) \/ Victim(v)
      PROVE  stmt'[w] = stmt[w] \/ Fresh(stmt'[w])
  <2>1. SetStmt(v, NoStmt)
    BY <1>3 DEF UpdateBatch, CommitRelease, Victim
  <2> QED BY <1>1, <2>1, MovedStmt
<1>4. ASSUME NEW v \in Session \ {w}, NEW m \in Message,
             ReadRow(v, m) \/ ReadExpired(v, m) \/ ReadPartition(v)
      PROVE  stmt'[w] = stmt[w]
  <2>1. PICK s : SetStmt(v, s)
    BY <1>4 DEF ReadRow, Keep, ReadExpired, ReadPartition
  <2> QED BY <2>1, MovedStmt
<1>5. ASSUME NEW v \in Session \ {w}, ReadPartition(v) PROVE stmt'[w] = stmt[w]
  <2>1. PICK s : SetStmt(v, s)
    BY <1>5 DEF ReadPartition
  <2> QED BY <2>1, MovedStmt
<1>6. ASSUME NEW v \in Session, SessionStep(v)
      PROVE  \/ stmt'[w] = stmt[w]
             \/ Fresh(stmt'[w])
             \/ \E m \in Message : ReadRow(w, m) \/ ReadExpired(w, m)
             \/ ReadPartition(w)
  BY <1>3, <1>4, <1>5, <1>6 DEF SessionStep
<1>7. ASSUME \/ \E i \in Instance, m \in Message : LockHintedRow(i, m) \/ OwnerWrites(i, m)
             \/ TimePasses
      PROVE  stmt'[w] = stmt[w]
  BY <1>7 DEF LockHintedRow, OwnerWrites, TimePasses
<1> QED BY <1>2, <1>6, <1>7 DEF ScanNext

LEMMA ReadRowFields ==
  ASSUME ScanInv, NEW w \in Session, NEW m \in Message, ReadRow(w, m)
  PROVE  /\ stmt[w].kind = "scan" /\ stmt'[w].kind = "scan"
         /\ stmt'[w].check # {} => Ordered
         /\ \A n \in stmt'[w].chosen :
              n \in stmt[w].chosen \/ (n = m /\ ~(Ordered /\ Partition[m] # NoPartition))
<1> DEFINE s == stmt[w]
           k0 == [s EXCEPT !.left = s.left \ {m}, !.locks = s.locks \cup {m}]
           k1 == [s EXCEPT !.left = s.left \ {m}]
<1>0. s \in Stmt /\ s.kind = "scan" /\ s.check = {}
  BY DEF ScanInv, ScanTypeOK, ReadRow, Running
<1>1. k0 \in Stmt /\ k0.kind = "scan" /\ k0.check = {} /\ k0.chosen = s.chosen
  BY <1>0 DEF Stmt
<1>2. k1.kind = "scan" /\ k1.check = {} /\ k1.chosen = s.chosen
  BY <1>0 DEF Stmt
<1>3. PICK k : /\ SetStmt(w, k)
               /\ \/ k = k1
                  \/ k = IF Ordered /\ Partition[m] # NoPartition
                         THEN [k0 EXCEPT !.check = {m}]
                         ELSE [k0 EXCEPT !.chosen = k0.chosen \cup {m}]
  BY DEF ReadRow, Keep
<1> HIDE DEF k0, k1
<1>4. /\ k.kind = "scan"
      /\ k.check # {} => Ordered
      /\ \A n \in k.chosen :
           n \in s.chosen \/ (n = m /\ ~(Ordered /\ Partition[m] # NoPartition))
  BY <1>1, <1>2, <1>3 DEF Stmt
<1> QED BY <1>0, <1>3, <1>4, MovedStmt

LEMMA ReadPartitionFields ==
  ASSUME ScanInv, NEW w \in Session, ReadPartition(w)
  PROVE  /\ stmt[w].kind = "scan" /\ stmt'[w].kind = "scan" /\ stmt'[w].check = {}
         /\ \A m \in stmt'[w].chosen :
              m \in stmt[w].chosen \/ (~PartitionBusy(m) /\ LockableByScan(row[m]))
<1> DEFINE s == stmt[w]
<1>0. s \in Stmt /\ s.kind = "scan" /\ StmtOK(w)
  BY DEF ScanInv, ScanTypeOK, ReadPartition, Running
<1>1. PICK m \in s.check :
        SetStmt(w, [s EXCEPT !.check = {},
                      !.chosen = IF PartitionBusy(m) THEN s.chosen ELSE s.chosen \cup {m}])
  BY DEF ReadPartition
<1> DEFINE k == [s EXCEPT !.check = {},
                   !.chosen = IF PartitionBusy(m) THEN s.chosen ELSE s.chosen \cup {m}]
<1>2. k.kind = "scan" /\ k.check = {}
      /\ k.chosen = IF PartitionBusy(m) THEN s.chosen ELSE s.chosen \cup {m}
  BY <1>0 DEF Stmt
<1>3. LockableByScan(row[m])
  BY <1>0, <1>1 DEF StmtOK
<1> HIDE DEF k
<1>4. stmt'[w] = k
  BY <1>1, MovedStmt DEF k
<1> QED BY <1>0, <1>2, <1>3, <1>4

LEMMA ReadExpiredFields ==
  ASSUME ScanInv, NEW w \in Session, NEW m \in Message, ReadExpired(w, m)
  PROVE  /\ stmt[w].kind = "release" /\ stmt'[w].kind = "release"
         /\ stmt'[w].check = stmt[w].check
         /\ stmt'[w].left = stmt[w].left \ {m} /\ stmt'[w].locks \subseteq stmt[w].locks \cup {m}
         /\ m \in stmt[w].left /\ \A n \in stmt[w].left : Position[m] <= Position[n]
<1> DEFINE s == stmt[w]
           k == [s EXCEPT !.left = s.left \ {m},
                          !.locks = IF m \in ExpiredLocks THEN s.locks \cup {m} ELSE s.locks]
<1>0. /\ s \in Stmt /\ s.kind = "release" /\ SetStmt(w, k) /\ m \in s.left
      /\ \A n \in s.left : Position[m] <= Position[n]
  BY DEF ScanInv, ScanTypeOK, ReadExpired, Running
<1>1. /\ k.kind = "release" /\ k.check = s.check /\ k.left = s.left \ {m}
      /\ k.locks \subseteq s.locks \cup {m}
  BY <1>0 DEF Stmt
<1> HIDE DEF k
<1>2. stmt'[w] = k
  BY <1>0, MovedStmt
<1> QED BY <1>0, <1>1, <1>2

LEMMA ReadOKKept ==
  ASSUME ScanInv, ScanNext, NEW w \in Session, ReadOK(w)
  PROVE  ReadOK(w)'
<1>1. CASE stmt'[w] = stmt[w]
  BY <1>1 DEF ReadOK, Running
<1>2. CASE /\ stmt'[w].check = {} /\ stmt'[w].locks = {}
           /\ stmt'[w].kind = "release" => stmt'[w].left = Message
  BY <1>2 DEF ReadOK, Running
<1>3. ASSUME NEW m \in Message, ReadRow(w, m) PROVE ReadOK(w)'
  BY <1>3, ReadRowFields DEF ReadOK, Running
<1>4. ASSUME NEW m \in Message, ReadExpired(w, m) PROVE ReadOK(w)'
  <2>1. \A n \in stmt[w].left \ {m} : Position[m] < Position[n]
    <3>1. stmt[w].left \subseteq Message
      BY DEF ScanInv, ScanTypeOK, Stmt
    <3> QED BY <1>4, <3>1, ReadExpiredFields, ScanAssumption
  <2> QED BY <1>4, <2>1, ReadExpiredFields DEF ReadOK, Running
<1>5. CASE ReadPartition(w)
  BY <1>5, ReadPartitionFields DEF ReadOK, Running
<1> QED BY <1>1, <1>2, <1>3, <1>4, <1>5, StmtStep

\* Whoever takes a lock leaves its mark on the scans that run.
LEMMA LocksAreMarked ==
  ASSUME ScanInv, ScanNext, NEW w \in Session, stmt'[w].kind = "scan"
  PROVE  /\ during[w] \subseteq during'[w]
         /\ \A n \in Message : LockHeld(row'[n]) => LockHeld(row[n]) \/ n \in during'[w]
<1>0. row \in [Message -> Row]
  BY DEF ScanInv, ScanTypeOK, StoreTypeOK
<1> DEFINE Marked == /\ during[w] \subseteq during'[w]
                     /\ \A n \in Message : LockHeld(row'[n]) => LockHeld(row[n]) \/ n \in during'[w]
<1>1. ASSUME UNCHANGED <<row, during>> PROVE Marked
  BY <1>1
<1>2. ASSUME NEW ms, Locks(ms) PROVE during'[w] = during[w] \cup ms
  BY <1>2 DEF Locks
<1>3. ASSUME NEW v \in Session, UpdateBatch(v) PROVE Marked
  <2>1. PICK batch :
          /\ row' = [m \in Message |-> IF m \in batch THEN Locked(row[m], SessionHost[v]) ELSE row[m]]
          /\ Locks(batch)
    BY <1>3 DEF UpdateBatch
  <2> QED BY <1>2, <2>1
<1>4. ASSUME NEW v \in Session, CommitRelease(v) PROVE Marked
  <2>1. \A n \in Message : row'[n] = row[n] \/ ~LockHeld(row'[n])
    BY <1>0, <1>4 DEF CommitRelease, Unlocked, LockHeld, Row
  <2> QED BY <1>4, <2>1 DEF CommitRelease
<1>5. ASSUME NEW v \in Session, Victim(v) PROVE Marked
  BY <1>2, <1>5 DEF Victim
<1>6. ASSUME NEW i \in Instance, NEW m \in Message, LockHintedRow(i, m) PROVE Marked
  <2>1. Locks({n \in {m} : row'[n] # row[n]}) /\ \A n \in Message : n # m => row'[n] = row[n]
    BY <1>0, <1>6 DEF LockHintedRow, TryLockById
  <2> QED BY <1>2, <2>1
<1>7. ASSUME NEW i \in Instance, NEW m \in Message, OwnerWrites(i, m) PROVE Marked
  <2>1. UNCHANGED during /\ \A n \in Message : n # m => row'[n] = row[n]
    BY <1>0, <1>7 DEF OwnerWrites, MarkAsProcessed, IncrementRetry, GiveUp
  <2>2. row'[m] = row[m] \/ ~LockHeld(row'[m])
    <3>1. row[m] \in Row
      BY <1>0
    <3>2. ~LockHeld(Unlocked(row[m], "Delivered"))
      BY <3>1 DEF LockHeld, Unlocked, Row
    <3>3. ~LockHeld([Unlocked(row[m], "Pending") EXCEPT !.retryCount = @ + 1, !.due = FALSE])
      BY <3>1 DEF LockHeld, Unlocked, Row
    <3> QED BY <1>0, <1>7, <3>2, <3>3 DEF OwnerWrites, MarkAsProcessed, IncrementRetry, GiveUp
  <2> QED BY <2>1, <2>2
<1>8. ASSUME TimePasses PROVE Marked
  <2>1. PICK m \in Message : LeaseExpires(m) \/ RetryDue(m)
    BY <1>8 DEF TimePasses
  <2>2. UNCHANGED during /\ \A n \in Message : LockHeld(row'[n]) => LockHeld(row[n])
    BY <1>0, <1>8, <2>1 DEF TimePasses, LeaseExpires, RetryDue, LockHeld, Row
  <2> QED BY <2>2
<1>9. ASSUME NEW v \in Session, SessionStep(v) PROVE Marked
  BY <1>1, <1>3, <1>4, <1>5, <1>9 DEF SessionStep, ReadRow, ReadExpired, ReadPartition
<1>10. ASSUME NEW v \in Session, StartScan(v) \/ StartRelease(v) PROVE Marked
  BY <1>1, <1>10 DEF StartScan, StartRelease
<1> QED BY <1>6, <1>7, <1>8, <1>9, <1>10 DEF ScanNext

LEMMA JoinOKKept ==
  ASSUME ScanInv, ScanNext, NEW w \in Session, JoinOK(w)
  PROVE  JoinOK(w)'
<1> SUFFICES ASSUME Ordered, stmt'[w].kind = "scan",
                    NEW m \in stmt'[w].chosen, NEW n \in Message,
                    Partition[m] = Partition[n], Partition[m] # NoPartition, LockHeld(row'[n])
             PROVE  n \in during'[w]
  BY DEF JoinOK, Running
<1>1. LockHeld(row[n]) \/ n \in during'[w]
  BY LocksAreMarked
<1>2. CASE LockHeld(row[n]) /\ stmt[w].kind = "scan" /\ m \in stmt[w].chosen
  BY <1>2, LocksAreMarked DEF JoinOK, Running
<1>3. CASE LockHeld(row[n]) /\ ~PartitionBusy(m) /\ LockableByScan(row[m])
  BY <1>3 DEF PartitionBusy, LockableByScan, LockHeld
<1>4. CASE stmt'[w] = stmt[w]
  BY <1>1, <1>2, <1>4
<1>5. CASE \E k \in Message : ReadRow(w, k)
  BY <1>1, <1>2, <1>5, ReadRowFields
<1>6. CASE ReadPartition(w)
  BY <1>1, <1>2, <1>3, <1>6, ReadPartitionFields
<1>7. CASE \E k \in Message : ReadExpired(w, k)
  BY <1>7, ReadExpiredFields
<1> QED BY <1>4, <1>5, <1>6, <1>7, StmtStep

LEMMA ReadInvariant == ScanSpec => []ReadInv
<1>1. ScanInit => ReadInv
  BY DEF ScanInit, ReadInv, ReadOK, JoinOK, NoStmt, Running
<1>2. ScanInv /\ ReadInv /\ [ScanNext]_scanVars => ReadInv'
  <2>1. ReadInv /\ UNCHANGED scanVars => ReadInv'
    BY DEF scanVars, ReadInv, ReadOK, JoinOK, Running
  <2> QED BY <2>1, ReadOKKept, JoinOKKept DEF ReadInv
<1> QED BY <1>1, <1>2, ScanInvariant, PTL DEF ScanSpec

\* Ordered processing: a batch joins a busy partition only when the lock it meets
\* there was taken while the scan was running.  NOT EXISTS sees every older lock,
\* and no newer one.
THEOREM JoinsAreRaces == ScanSpec => JoinedOnlyDuringScan
<1> DEFINE Joins == Ordered =>
       \A w \in Session, m, n \in Message :
         /\ Running(w, "scan") /\ stmt'[w].kind = "none"
         /\ Partition[m] = Partition[n] /\ Partition[m] # NoPartition
         /\ ~LockHeld(row[m]) /\ LockHeld(row'[m])
         /\ LockHeld(row[n])
         => n \in during[w]
<1>1. ScanInv /\ ReadInv /\ [ScanNext]_scanVars => [Joins]_scanVars
  <2> SUFFICES ASSUME ScanInv, ReadInv, ScanNext, Ordered,
                      NEW w \in Session, NEW m \in Message, NEW n \in Message,
                      Running(w, "scan"), stmt'[w].kind = "none",
                      Partition[m] = Partition[n], Partition[m] # NoPartition,
                      ~LockHeld(row[m]), LockHeld(row'[m]), LockHeld(row[n])
               PROVE  n \in during[w]
    OBVIOUS
  <2>1. UpdateBatch(w) \/ UNCHANGED row
    <3>1. ASSUME NEW v \in Session, v # w, SessionStep(v) PROVE FALSE
      <4>1. PICK s : SetStmt(v, s)
        BY <3>1 DEF SessionStep, ReadRow, Keep, ReadExpired, ReadPartition, UpdateBatch,
                    CommitRelease, Victim
      <4> QED BY <3>1, <4>1, MovedStmt DEF Running
    <3>2. ASSUME SessionStep(w) PROVE UpdateBatch(w) \/ UNCHANGED row
      BY <3>2 DEF SessionStep, ReadRow, ReadExpired, ReadPartition, CommitRelease, Victim, Running
    <3>3. ASSUME NEW v \in Session, StartScan(v) \/ StartRelease(v) PROVE UNCHANGED row
      BY <3>3 DEF StartScan, StartRelease
    <3>4. ASSUME UNCHANGED stmt PROVE FALSE
      BY <3>4 DEF Running
    <3>5. (\E i \in Instance, k \in Message : LockHintedRow(i, k) \/ OwnerWrites(i, k)) \/ TimePasses
            => UNCHANGED stmt
      BY DEF LockHintedRow, OwnerWrites, TimePasses
    <3> QED BY <3>1, <3>2, <3>3, <3>4, <3>5 DEF ScanNext
  <2>2. m \in stmt[w].chosen
    BY <2>1 DEF UpdateBatch
  <2> QED BY <2>2 DEF ReadInv, JoinOK
<1> QED BY <1>1, ScanInvariant, ReadInvariant, PTL DEF ScanSpec, JoinedOnlyDuringScan

-----------------------------------------------------------------------------
(* Who waits for whom *)

\* A session that waits reads: a scan a partition, a release its next row.
LEMMA WaitersRead ==
  ASSUME ScanInv, ReadInv, NEW w \in Session, Blockers(w) # {}
  PROVE  \/ Running(w, "scan") /\ Ordered
         \/ Running(w, "release")
<1>1. CASE ~Running(w, "release")
  <2>1. stmt[w].check # {}
    BY <1>1 DEF Blockers, Conflicts, NextRead
  <2> QED BY <2>1 DEF ReadInv, ReadOK
<1> QED BY <1>1

\* A release that waits for another one has more rows left to read.
LEMMA BlockerIsAhead ==
  ASSUME ScanInv, ReadInv, NEW w \in Session, NEW v \in Blockers(w),
         Running(w, "release"), Running(v, "release")
  PROVE  stmt[v].left \subseteq stmt[w].left /\ stmt[v].left # stmt[w].left
<1>0. v \in Session /\ ReadOK(v) /\ ReadOK(w)
      /\ stmt[v].left \subseteq Message /\ stmt[w].left \subseteq Message
  BY DEF Blockers, ReadInv, ScanInv, ScanTypeOK, Stmt
<1>1. PICK m \in stmt[v].locks :
        m \in stmt[w].left /\ \A n \in stmt[w].left : Position[m] <= Position[n]
  BY DEF Blockers, Conflicts, NextRead
<1>2. m \in Message /\ m \notin stmt[v].left
  BY <1>0, <1>1 DEF ReadOK
<1>3. ASSUME NEW n \in stmt[v].left PROVE n \in stmt[w].left
  <2>1. Position[m] < Position[n]
    BY <1>0, <1>2 DEF ReadOK
  <2>2. n \notin stmt[w].left => Position[n] < Position[m]
    BY <1>0, <1>1 DEF ReadOK
  <2>3. Position[m] \in Nat /\ Position[n] \in Nat
    BY <1>0, <1>2, ScanAssumption
  <2> QED BY <2>1, <2>2, <2>3
<1> QED BY <1>1, <1>2, <1>3

\* So releases alone never wait in a circle.
LEMMA NoCircleOfReleases ==
  ASSUME ScanInv, ReadInv, NEW ws \in SUBSET Session, Deadlocked(ws)
  PROVE  \E v \in ws : ~Running(v, "release")
<1> SUFFICES ASSUME \A v \in ws : Running(v, "release") PROVE FALSE
  OBVIOUS
<1> DEFINE lefts == {stmt[w].left : w \in ws}
<1>1. lefts \subseteq FiniteSubsetsOf(Message) /\ lefts # {}
  <2>1. \A w \in ws : stmt[w].left \subseteq Message
    BY DEF ScanInv, ScanTypeOK, Stmt
  <2> QED BY <2>1, StoreAssumption, FS_Subset DEF FiniteSubsetsOf, Deadlocked
<1>2. PICK l \in lefts : \A k \in lefts : ~ (<<k, l>> \in StrictSubsetOrdering(Message))
  <2>1. IsWellFoundedOn(StrictSubsetOrdering(Message), FiniteSubsetsOf(Message))
    BY FS_StrictSubsetOrderingWellFounded
  <2> HIDE DEF lefts
  <2> QED BY <1>1, <2>1, WFMin
<1>3. PICK w \in ws : l = stmt[w].left
  BY <1>2
<1>4. PICK v \in ws : v \in Blockers(w)
  BY DEF Deadlocked
<1>5. stmt[v].left \subseteq stmt[w].left /\ stmt[v].left # stmt[w].left
  BY <1>4, BlockerIsAhead
<1>6. stmt[v].left \subseteq Message /\ stmt[w].left \subseteq Message
  BY DEF ScanInv, ScanTypeOK, Stmt
<1>7. <<stmt[v].left, stmt[w].left>> \in StrictSubsetOrdering(Message)
  BY <1>5, <1>6 DEF StrictSubsetOrdering
<1> QED BY <1>2, <1>3, <1>7

\* Without ordered processing no set of sessions waits in a circle; with it, every
\* circle holds a scan and a release.
THEOREM CirclesAreOrdered == ScanSpec => []CirclesNeedOrdering
<1>1. ScanInv /\ ReadInv => CirclesNeedOrdering
  <2> SUFFICES ASSUME ScanInv, ReadInv, NEW ws \in SUBSET Session, Deadlocked(ws)
               PROVE  Ordered /\ \E v, w \in ws : Running(v, "scan") /\ Running(w, "release")
    BY DEF CirclesNeedOrdering
  <2>1. PICK v \in ws : ~Running(v, "release")
    BY NoCircleOfReleases
  <2>2. PICK w \in ws : w \in Blockers(v)
    BY DEF Deadlocked
  <2>3. Running(v, "scan") /\ Ordered
    BY <2>1, <2>2, WaitersRead
  <2>4. Running(w, "release")
    BY <2>1, <2>2 DEF Blockers, Conflicts
  <2> QED BY <2>3, <2>4
<1> QED BY <1>1, ScanInvariant, ReadInvariant, PTL
=============================================================================
