------------------------ MODULE OutboxPublishingProofs ------------------------
(***************************************************************************)
(* Proofs about publishing and the channel (Spec of OutboxPublishing), for *)
(* any number of messages, transactions, handlers and polling processes,   *)
(* and for a channel of any capacity.                                      *)
(*                                                                         *)
(*   1. Rows: who has never been locked is as it was inserted.             *)
(*   2. Transactions: a row is there when and only when the transaction    *)
(*      that inserted it has committed.                                    *)
(*   3. Scopes: who is inserted by another call than its own, and when.    *)
(*   4. Hints: each is in one place, and covers its message.               *)
(***************************************************************************)
EXTENDS OutboxPublishing, OutboxStoreProofs

AbsentRow == [NewRow EXCEPT !.status = "Absent"]

RowsInv ==
  /\ StoreInv
  /\ \A m \in Message :
       IF m \in taken THEN row[m].status # "Absent" ELSE row[m] \in {NewRow, AbsentRow}

TxInv ==
  \A m \in Message :
    /\ m \in tracked => ~IsInserted(m)
    /\ IsInserted(m) => tx[insertedIn[m]] # "none"
    /\ row[m].status # "Absent" <=> IsInserted(m) /\ tx[insertedIn[m]] = "committed"

ScopeInv ==
  /\ ~tracking => tracked = {}
  /\ \A m \in published : insertedIn[m] = TxOf[m]
  /\ \A m \in Message \ published :
       IsInserted(m) => /\ tracking
                        /\ \E n \in published : /\ TxOf[n] = insertedIn[m]
                                               /\ SameScope(TxOf[n], TxOf[m])

InChannel(m) == \E k \in 1..Len(channel) : channel[k] = m

\* The hint a handler has taken is not in the channel.
HandlerOK(h) == handler[h] # NoMessage => handler[h] \in published /\ ~InChannel(handler[h])

HintsInv ==
  /\ Len(channel) <= Len(notified) /\ OldestHintsDropped
  /\ \A k \in 1..Len(notified) : notified[k] \in published
  /\ \A j, k \in 1..Len(channel) : channel[j] = channel[k] => j = k
  /\ \A h \in Handler : HandlerOK(h)
  /\ \A h \in locked : handler[h] \in taken
  /\ InFlightExact

\* What becomes of a hint that was neither lost nor used.
Covered(m) ==
  \/ InChannel(m)
  \/ \E h \in Handler : handler[h] = m
  \/ tx[TxOf[m]] = "rolledBack"

CoverInv ==
  \A m \in Message : Hinted(m) /\ m \notin lost \cup taken => Covered(m)

TypeInv == PublishingTypeOK

PublishingInv == TypeInv /\ RowsInv /\ TxInv /\ ScopeInv /\ HintsInv /\ CoverInv

LEMMA NewRowFields ==
  /\ NewRow \in Row /\ AbsentRow \in Row /\ RowInv(NewRow) /\ RowInv(AbsentRow)
  /\ NewRow.status = "Pending" /\ AbsentRow.status = "Absent"
  /\ \A r \in {NewRow, AbsentRow} : r.lockedBy = NoInstance /\ r.lease = "none" /\ r.due
  /\ LockableById(NewRow)
BY NewRowInv DEF NewRow, AbsentRow, RowInv, LockableById

-----------------------------------------------------------------------------
(* 1. Rows *)

\* What a process does to the table is a statement of the store.
LEMMA EndedIsStoreStep ==
  ASSUME NEW i \in Instance, NEW m \in Message, Ended(i, m)
  PROVE  [StoreStep]_row
BY DEF Ended, StoreStep, OwnerStep, RetryStep

LEMMA RowsStep ==
  ASSUME TypeInv, HintsInv, Next, \A t \in Transaction : ~Commit(t)
  PROVE  [StoreStep]_row
<1> USE DEF StoreStep
<1>1. ASSUME NEW m \in Message, Publish(m) \/ PublishFails(m) \/ Clock(m)
      PROVE  [StoreStep]_row
  BY <1>1 DEF Publish, EfCorePublish, DirectSqlPublish, PublishFails, Clock, ClockStep
<1>2. ASSUME NEW t \in Transaction, Begin(t) \/ Rollback(t) PROVE [StoreStep]_row
  BY <1>2 DEF Begin, Rollback
<1>3. ASSUME NEW h \in Handler, TakeHint(h) \/ HandlerStep(h) \/ LockHintedFails(h)
      PROVE  [StoreStep]_row
  <2>0. Self \in Instance /\ handler[h] \in Message \cup {NoMessage}
    BY PublishingAssumption DEF TypeInv, PublishingTypeOK
  <2>1. CASE LockHinted(h)
    BY <2>0, <2>1 DEF LockHinted, Waiting, LockStep
  <2>2. CASE FinishHinted(h)
    <3>1. handler[h] \in Message
      BY <2>0, <2>2 DEF FinishHinted, HintsInv, TypeInv, PublishingTypeOK
    <3> QED BY <2>0, <2>2, <3>1, EndedIsStoreStep DEF FinishHinted
  <2> QED BY <1>3, <2>1, <2>2 DEF TakeHint, HandlerStep, LockHintedFails
<1>4. ASSUME NEW i \in Instance, ColdStep(i) PROVE [StoreStep]_row
  <2>1. CASE Snapshot(i)
    BY <2>1 DEF Snapshot, MaintenanceStep
  <2>2. CASE LockBatch(i)
    <3>1. skip[i] \in SUBSET Message
      BY DEF TypeInv, PublishingTypeOK
    <3> QED BY <2>2, <3>1 DEF LockBatch, LockStep
  <2>3. ASSUME NEW m \in Message, FinishOfBatch(i, m) PROVE [StoreStep]_row
    BY <2>3, EndedIsStoreStep DEF FinishOfBatch
  <2> QED BY <1>4, <2>1, <2>2, <2>3 DEF ColdStep
<1>5. CASE Crash
  BY <1>5 DEF Crash
<1> QED BY <1>1, <1>2, <1>3, <1>4, <1>5 DEF Next

\* A row that nobody has locked changes only in being locked.
LEMMA FreshKept ==
  ASSUME TypeInv, RowsInv, Next, \A t \in Transaction : ~Commit(t),
         NEW m \in Message, m \notin taken
  PROVE  row'[m] = row[m] \/ (m \in taken' /\ row[m] = NewRow)
<1>0. /\ row[m] \in {NewRow, AbsentRow} /\ row[m].lockedBy = NoInstance
      /\ row[m].lease = "none" /\ row[m].due /\ row[m].status \in {"Pending", "Absent"}
      /\ row[m].status = "Pending" => row[m] = NewRow
      /\ row \in [Message -> Row]
      /\ NoInstance \notin Instance /\ Self \in Instance
  BY NewRowFields, StoreAssumption, PublishingAssumption DEF RowsInv, StoreInv, StoreTypeOK
<1>1. ASSUME NEW i \in Instance, NEW n, Ended(i, n) PROVE row'[m] = row[m]
  <2>1. CASE Owns(i, n)
    <3>1. n # m
      BY <1>0, <2>1 DEF Owns
    <3> QED BY <1>0, <1>1, <3>1 DEF Ended, MarkAsProcessed, MarkAsDeadLettered, IncrementRetry, GiveUp
  <2>2. CASE ~Owns(i, n)
    BY <1>1, <2>2 DEF Ended, MarkAsProcessed, MarkAsDeadLettered, IncrementRetry, GiveUp
  <2> QED BY <2>1, <2>2
<1>2. ASSUME NEW n \in Message, Publish(n) \/ PublishFails(n) \/ Clock(n) PROVE row'[m] = row[m]
  BY <1>0, <1>2 DEF Publish, EfCorePublish, DirectSqlPublish, PublishFails, Clock,
                    LeaseExpires, RetryDue
<1>3. ASSUME NEW t \in Transaction, Begin(t) \/ Rollback(t) PROVE row'[m] = row[m]
  BY <1>3 DEF Begin, Rollback
<1>4. ASSUME NEW h \in Handler, TakeHint(h) \/ HandlerStep(h) \/ LockHintedFails(h)
      PROVE  row'[m] = row[m] \/ (m \in taken' /\ row[m] = NewRow)
  <2>1. CASE LockHinted(h)
    <3>1. CASE handler[h] = m /\ LockableById(row[m])
      BY <1>0, <2>1, <3>1 DEF LockHinted, LockableById
    <3>2. CASE ~(handler[h] = m /\ LockableById(row[m]))
      BY <1>0, <2>1, <3>2 DEF LockHinted, TryLockById
    <3> QED BY <3>1, <3>2
  <2>2. CASE FinishHinted(h)
    BY <1>0, <1>1, <2>2 DEF FinishHinted
  <2> QED BY <1>4, <2>1, <2>2 DEF TakeHint, HandlerStep, LockHintedFails
<1>5. ASSUME NEW i \in Instance, ColdStep(i)
      PROVE  row'[m] = row[m] \/ (m \in taken' /\ row[m] = NewRow)
  <2>1. CASE Snapshot(i)
    BY <1>0, <2>1 DEF Snapshot, ReleaseExpiredLocks, ExpiredLocks
  <2>2. CASE LockBatch(i)
    <3>1. PICK ms \in SUBSET Message :
            LockNextBatch(i, skip[i], ms) /\ taken' = taken \cup ms
      BY <2>2 DEF LockBatch
    <3>2. m \in ms => LockableByScan(row[m])
      BY <3>1 DEF LockNextBatch, IsOldestOf, Eligible
    <3> QED BY <1>0, <3>1, <3>2 DEF LockNextBatch, LockableByScan
  <2>3. ASSUME NEW n \in Message, FinishOfBatch(i, n) PROVE row'[m] = row[m]
    BY <1>1, <2>3 DEF FinishOfBatch
  <2> QED BY <1>5, <2>1, <2>2, <2>3 DEF ColdStep
<1>6. CASE Crash
  BY <1>6 DEF Crash
<1> QED BY <1>2, <1>3, <1>4, <1>5, <1>6 DEF Next

\* What a handler or a batch takes was in the table.
LEMMA TakenWasThere ==
  ASSUME TypeInv, RowsInv, Next, NEW m \in taken' \ taken
  PROVE  m \in Message /\ LockableByScan(row[m])
<1>1. ASSUME NEW h \in Handler, LockHinted(h) PROVE m \in Message /\ LockableByScan(row[m])
  <2>1. m = handler[h] /\ LockableById(row[m]) /\ m # NoMessage
    BY <1>1 DEF LockHinted, Waiting
  <2> QED BY <2>1 DEF TypeInv, PublishingTypeOK, LockableById, LockableByScan
<1>2. ASSUME NEW i \in Instance, LockBatch(i) PROVE m \in Message /\ LockableByScan(row[m])
  <2>1. PICK ms \in SUBSET Message : LockNextBatch(i, skip[i], ms) /\ taken' = taken \cup ms
    BY <1>2 DEF LockBatch
  <2> QED BY <2>1 DEF LockNextBatch, IsOldestOf, Eligible
<1> QED BY <1>1, <1>2 DEF Next, Publish, EfCorePublish, DirectSqlPublish, PublishFails, Clock,
       Begin, Commit, Rollback, TakeHint, HandlerStep, FinishHinted, LockHintedFails, ColdStep,
       Snapshot, FinishOfBatch, Crash, history, caller

LEMMA TakenGrows == ASSUME Next PROVE taken \subseteq taken'
BY DEF Next, Publish, EfCorePublish, DirectSqlPublish, PublishFails, Clock, Begin, Commit, Rollback,
       TakeHint, HandlerStep, LockHinted, FinishHinted, LockHintedFails, ColdStep, Snapshot,
       LockBatch, FinishOfBatch, Crash, history

\* A row that is there stays.
LEMMA RowStaysPresent ==
  ASSUME NEW r, NEW q, r \in Row, RowStep(r, q), r.status # "Absent"
  PROVE  q.status # "Absent"
<1> USE DEF Row
<1>1. CASE Taken(r, q)
  BY <1>1 DEF Taken, Locked
<1>2. CASE Finished(r, q)
  BY <1>2 DEF Finished, Unlocked, Terminal
<1>3. CASE Retried(r, q)
  BY <1>3 DEF Retried, Unlocked
<1>4. CASE Released(r, q) \/ Purged(r, q) \/ Inserted(r, q) \/ Aged(r, q) \/ q = r
  BY <1>4 DEF Released, Purged, Inserted, Aged, Unlocked
<1> QED BY <1>1, <1>2, <1>3, <1>4 DEF RowStep

\* The rows around a step that commits nothing.
LEMMA PresentKept ==
  ASSUME TypeInv, RowsInv, HintsInv, Next, \A t \in Transaction : ~Commit(t),
         NEW m \in Message
  PROVE  row'[m].status # "Absent" <=> row[m].status # "Absent"
<1>1. row[m] \in Row
  BY DEF TypeInv, PublishingTypeOK, StoreTypeOK
<1>2. [StoreStep]_row
  BY RowsStep
<1>3. row[m].status # "Absent" => row'[m].status # "Absent"
  <2>1. CASE StoreStep
    <3>1. RowStep(row[m], row'[m])
      BY <2>1, StepRewritesRows DEF TypeInv, PublishingTypeOK
    <3> QED BY <1>1, <3>1, RowStaysPresent
  <2> QED BY <1>2, <2>1
<1>4. row[m].status = "Absent" => row'[m].status = "Absent"
  <2>1. row[m].status = "Absent" => m \notin taken /\ row[m] # NewRow
    BY NewRowFields DEF RowsInv
  <2> QED BY <2>1, FreshKept
<1> QED BY <1>3, <1>4

LEMMA CommitRows ==
  ASSUME TypeInv, RowsInv, TxInv, NEW t \in Transaction, Commit(t)
  PROVE  /\ RowsInv' /\ taken' = taken
         /\ \A m \in Message :
              row'[m] = IF insertedIn[m] = t THEN NewRow ELSE row[m]
<1>1. /\ tx[t] = "open" /\ taken' = taken
      /\ row' = [m \in Message |-> IF insertedIn[m] = t THEN NewRow ELSE row[m]]
  BY DEF Commit, history
<1>2. \A m \in Message : row'[m] = IF insertedIn[m] = t THEN NewRow ELSE row[m]
  BY <1>1
<1>3. \A m \in Message : insertedIn[m] = t => row[m].status = "Absent"
  BY <1>1 DEF TxInv
<1>4. StoreInv'
  BY <1>1, <1>2, NewRowFields DEF RowsInv, StoreInv, StoreTypeOK
<1>5. \A m \in Message :
        IF m \in taken THEN row'[m].status # "Absent" ELSE row'[m] \in {NewRow, AbsentRow}
  BY <1>2, <1>3 DEF RowsInv
<1> QED BY <1>1, <1>2, <1>4, <1>5 DEF RowsInv

LEMMA RowsInvStep ==
  ASSUME TypeInv, RowsInv, TxInv, HintsInv, [Next]_vars
  PROVE  RowsInv'
<1>1. CASE \E t \in Transaction : Commit(t)
  BY <1>1, CommitRows
<1>2. CASE Next /\ \A t \in Transaction : ~Commit(t)
  <2>1. StoreInv'
    BY <1>2, RowsStep, StoreInvKept DEF RowsInv
  <2>2. ASSUME NEW m \in Message
        PROVE  IF m \in taken' THEN row'[m].status # "Absent" ELSE row'[m] \in {NewRow, AbsentRow}
    <3>1. CASE m \in taken'
      <4>1. row[m].status # "Absent"
        BY <1>2, <3>1, TakenWasThere DEF RowsInv, LockableByScan
      <4> QED BY <1>2, <3>1, <4>1, PresentKept
    <3>2. CASE m \notin taken'
      BY <1>2, <3>2, TakenGrows, FreshKept DEF RowsInv
    <3> QED BY <3>1, <3>2
  <2> QED BY <2>1, <2>2 DEF RowsInv
<1>3. CASE UNCHANGED vars
  BY <1>3 DEF vars, history, RowsInv, StoreInv, StoreTypeOK
<1> QED BY <1>1, <1>2, <1>3

-----------------------------------------------------------------------------
(* 2. Transactions *)

LEMMA TxMoves ==
  ASSUME TypeInv, Next, NEW t \in Transaction
  PROVE  /\ tx'[t] # tx[t] => tx[t] = "open" \/ (tx[t] = "none" /\ tx'[t] = "open")
         /\ tx'[t] = "committed" /\ tx[t] # "committed" => Commit(t)
         /\ tx[t] # "none" => tx'[t] # "none"
<1>1. tx \in [Transaction -> {"none", "open", "committed", "rolledBack"}]
  BY DEF TypeInv, PublishingTypeOK
<1> DEFINE Moves == /\ tx'[t] # tx[t] => tx[t] = "open" \/ (tx[t] = "none" /\ tx'[t] = "open")
                    /\ tx'[t] = "committed" /\ tx[t] # "committed" => Commit(t)
                    /\ tx[t] # "none" => tx'[t] # "none"
<1>2. ASSUME NEW u \in Transaction, Begin(u) \/ Commit(u) \/ Rollback(u) PROVE Moves
  BY <1>1, <1>2 DEF Begin, Commit, Rollback
<1>3. CASE Crash
  BY <1>1, <1>3 DEF Crash
<1>4. CASE UNCHANGED tx
  BY <1>4
<1>5. ASSUME NEW m \in Message, Publish(m) \/ PublishFails(m) \/ Clock(m) PROVE UNCHANGED tx
  BY <1>5 DEF Publish, EfCorePublish, DirectSqlPublish, PublishFails, Clock, caller
<1>6. ASSUME NEW h \in Handler, TakeHint(h) \/ HandlerStep(h) \/ LockHintedFails(h)
      PROVE  UNCHANGED tx
  BY <1>6 DEF TakeHint, HandlerStep, LockHinted, FinishHinted, LockHintedFails, caller
<1>7. ASSUME NEW i \in Instance, ColdStep(i) PROVE UNCHANGED tx
  BY <1>7 DEF ColdStep, Snapshot, LockBatch, FinishOfBatch, caller
<1> QED BY <1>2, <1>3, <1>4, <1>5, <1>6, <1>7 DEF Next

\* What a call inserts: its message, and what the scope still tracked.
LEMMA Publishing ==
  ASSUME TypeInv, TxInv, ScopeInv, NEW m \in Message, Publish(m)
  PROVE  /\ ~IsInserted(m) /\ m \notin published /\ published' = published \cup {m}
         /\ tx[TxOf[m]] = "open" /\ TxOf[m] \in Transaction
         /\ insertedIn'[m] = TxOf[m] /\ m \notin tracked'
         /\ tracked' \subseteq tracked
         /\ UNCHANGED <<tracking, row, tx>>
         /\ \A n \in Message :
              \/ insertedIn'[n] = insertedIn[n] /\ (n \in tracked' => n \in tracked)
              \/ n = m
              \/ /\ n \in tracked /\ ~IsInserted(n) /\ n \notin tracked' /\ tracking
                 /\ insertedIn'[n] = TxOf[m] /\ SameScope(TxOf[n], TxOf[m])
<1>1. NotPublished(m) /\ TxOf[m] \in Transaction /\ TxOf[m] # NoTransaction
  BY PublishingAssumption DEF Publish, EfCorePublish, DirectSqlPublish
<1>2. insertedIn \in [Message -> Transaction \cup {NoTransaction}]
  BY DEF TypeInv, PublishingTypeOK
<1>3. m \notin published
  BY <1>1 DEF NotPublished, IsInserted, ScopeInv
<1>4. CASE EfCorePublish(m)
  <2>1. \A n \in Message : insertedIn'[n] = IF n \in Leftover(TxOf[m]) \cup {m} THEN TxOf[m]
                                           ELSE insertedIn[n]
    BY <1>4 DEF EfCorePublish
  <2> QED BY <1>1, <1>3, <1>4, <2>1 DEF EfCorePublish, NotPublished, Leftover, TxInv
<1>5. CASE DirectSqlPublish(m)
  BY <1>1, <1>2, <1>3, <1>5 DEF DirectSqlPublish, NotPublished
<1> QED BY <1>4, <1>5 DEF Publish

\* Steps other than calls of PublishAsync insert nothing.
LEMMA NothingInserted ==
  ASSUME Next, \A m \in Message : ~Publish(m)
  PROVE  /\ UNCHANGED <<tracking, insertedIn, published>>
         /\ \/ tracked' \subseteq tracked
            \/ \E m \in Message : /\ NotPublished(m) /\ tracked' = tracked \cup {m}
                                  /\ tracking
<1>1. ASSUME NEW m \in Message, PublishFails(m) \/ Clock(m)
      PROVE  /\ UNCHANGED <<tracking, insertedIn, published>>
             /\ tracked' \subseteq tracked
                \/ (NotPublished(m) /\ tracked' = tracked \cup {m} /\ tracking)
  BY <1>1 DEF PublishFails, Clock, caller
<1>2. ASSUME NEW t \in Transaction, Begin(t) \/ Commit(t) \/ Rollback(t)
      PROVE  UNCHANGED <<tracking, insertedIn, published, tracked>>
  BY <1>2 DEF Begin, Commit, Rollback
<1>3. ASSUME NEW h \in Handler, TakeHint(h) \/ HandlerStep(h) \/ LockHintedFails(h)
      PROVE  UNCHANGED <<tracking, insertedIn, published, tracked>>
  BY <1>3 DEF TakeHint, HandlerStep, LockHinted, FinishHinted, LockHintedFails, caller
<1>4. ASSUME NEW i \in Instance, ColdStep(i)
      PROVE  UNCHANGED <<tracking, insertedIn, published, tracked>>
  BY <1>4 DEF ColdStep, Snapshot, LockBatch, FinishOfBatch, caller
<1>5. CASE Crash
  BY <1>5 DEF Crash
<1> QED BY <1>1, <1>2, <1>3, <1>4, <1>5 DEF Next

LEMMA PublishedGrows ==
  ASSUME TypeInv, TxInv, ScopeInv, Next PROVE published \subseteq published'
BY Publishing, NothingInserted

LEMMA TxInvStep ==
  ASSUME TypeInv, RowsInv, TxInv, ScopeInv, HintsInv, [Next]_vars
  PROVE  TxInv'
<1>0. /\ insertedIn \in [Message -> Transaction \cup {NoTransaction}]
      /\ NoTransaction \notin Transaction
      /\ \A m \in Message : IsInserted(m) => insertedIn[m] \in Transaction
  BY PublishingAssumption DEF TypeInv, PublishingTypeOK, IsInserted
<1>1. ASSUME NEW t \in Transaction, Commit(t) PROVE TxInv'
  <2>1. /\ tx' = [tx EXCEPT ![t] = "committed"] /\ tx[t] = "open"
        /\ UNCHANGED <<insertedIn, tracked>>
        /\ tx \in [Transaction -> {"none", "open", "committed", "rolledBack"}]
    BY <1>1 DEF Commit, TypeInv, PublishingTypeOK
  <2>2. \A m \in Message : row'[m] = IF insertedIn[m] = t THEN NewRow ELSE row[m]
    BY <1>1, CommitRows
  <2> QED BY <1>0, <2>1, <2>2, NewRowFields DEF TxInv, IsInserted
<1>2. CASE Next /\ \A t \in Transaction : ~Commit(t)
  <2>1. \A m \in Message : row'[m].status # "Absent" <=> row[m].status # "Absent"
    BY <1>2, PresentKept
  <2>2. ASSUME NEW m \in Message, Publish(m) PROVE TxInv'
    <3>1. UNCHANGED tx /\ TxOf[m] \in Transaction /\ tx[TxOf[m]] = "open" /\ ~IsInserted(m)
          /\ m \notin tracked' /\ insertedIn'[m] = TxOf[m]
      BY <2>2, Publishing
    <3> SUFFICES ASSUME NEW n \in Message
                 PROVE  /\ n \in tracked' => ~IsInserted(n)'
                        /\ IsInserted(n)' => tx'[insertedIn'[n]] # "none"
                        /\ row'[n].status # "Absent"
                             <=> IsInserted(n)' /\ tx'[insertedIn'[n]] = "committed"
      BY DEF TxInv
    <3>2. CASE insertedIn'[n] = insertedIn[n] /\ (n \in tracked' => n \in tracked)
      BY <2>1, <3>1, <3>2 DEF TxInv, IsInserted
    <3>3. CASE n \notin tracked' /\ insertedIn'[n] = TxOf[m] /\ ~IsInserted(n)
      BY <1>0, <2>1, <3>1, <3>3 DEF TxInv
    <3> QED BY <2>2, <3>1, <3>2, <3>3, Publishing
  <2>3. CASE \A m \in Message : ~Publish(m)
    <3> SUFFICES ASSUME NEW n \in Message
                 PROVE  /\ n \in tracked' => ~IsInserted(n)'
                        /\ IsInserted(n)' => tx'[insertedIn'[n]] # "none"
                        /\ row'[n].status # "Absent"
                             <=> IsInserted(n)' /\ tx'[insertedIn'[n]] = "committed"
      BY DEF TxInv
    <3>1. insertedIn' = insertedIn
      BY <1>2, <2>3, NothingInserted
    <3>2. n \in tracked' => ~IsInserted(n)
      BY <1>2, <2>3, NothingInserted DEF TxInv, NotPublished
    <3>3. IsInserted(n) => tx'[insertedIn[n]] # "none"
      BY <1>0, <1>2, TxMoves DEF TxInv
    <3>4. IsInserted(n) =>
            (tx'[insertedIn[n]] = "committed" <=> tx[insertedIn[n]] = "committed")
      BY <1>0, <1>2, TxMoves
    <3> QED BY <2>1, <3>1, <3>2, <3>3, <3>4 DEF TxInv, IsInserted
  <2> QED BY <2>2, <2>3
<1>3. CASE UNCHANGED vars
  BY <1>3 DEF vars, caller, TxInv, IsInserted
<1> QED BY <1>1, <1>2, <1>3

-----------------------------------------------------------------------------
(* 3. Scopes *)

LEMMA ScopeInvStep ==
  ASSUME TypeInv, TxInv, ScopeInv, [Next]_vars
  PROVE  ScopeInv'
<1>0. published \subseteq Message
  BY DEF TypeInv, PublishingTypeOK
<1>1. ASSUME NEW m \in Message, Publish(m) PROVE ScopeInv'
  <2>1. /\ published' = published \cup {m} /\ insertedIn'[m] = TxOf[m] /\ ~IsInserted(m)
        /\ tracking' = tracking /\ tracked' \subseteq tracked
    BY <1>1, Publishing
  <2>2. \A n \in Message :
          \/ insertedIn'[n] = insertedIn[n]
          \/ n = m
          \/ ~IsInserted(n) /\ tracking /\ insertedIn'[n] = TxOf[m] /\ SameScope(TxOf[n], TxOf[m])
    BY <1>1, Publishing
  <2>3. \A n \in published : insertedIn[n] = TxOf[n] /\ IsInserted(n)
    BY <1>0, PublishingAssumption DEF ScopeInv, IsInserted
  <2>4. \A n \in published' : insertedIn'[n] = TxOf[n]
    BY <1>0, <2>1, <2>2, <2>3
  <2>5. ASSUME NEW n \in Message \ published', IsInserted(n)'
        PROVE  tracking /\ \E k \in published' : TxOf[k] = insertedIn'[n] /\ SameScope(TxOf[k], TxOf[n])
    <3>1. CASE insertedIn'[n] = insertedIn[n]
      BY <2>1, <2>5, <3>1 DEF ScopeInv, IsInserted
    <3>2. CASE insertedIn'[n] = TxOf[m] /\ tracking /\ SameScope(TxOf[n], TxOf[m])
      <4>1. m \in published' /\ SameScope(TxOf[m], TxOf[n])
        BY <2>1, <3>2 DEF SameScope
      <4> QED BY <3>2, <4>1
    <3> QED BY <2>1, <2>2, <2>5, <3>1, <3>2
  <2> QED BY <2>1, <2>4, <2>5 DEF ScopeInv
<1>2. CASE Next /\ \A m \in Message : ~Publish(m)
  <2>1. UNCHANGED <<tracking, insertedIn, published>> /\ (~tracking => tracked' \subseteq tracked)
    BY <1>2, NothingInserted
  <2> QED BY <2>1 DEF ScopeInv, IsInserted
<1>3. CASE UNCHANGED vars
  BY <1>3 DEF vars, caller, ScopeInv, IsInserted
<1> QED BY <1>1, <1>2, <1>3

-----------------------------------------------------------------------------
(* 4. Hints *)

LEMMA NotifyChannel ==
  ASSUME TypeInv, NEW m \in Message, Notify(m)
  PROVE  /\ channel' \in Seq(Message) /\ Len(channel') <= Capacity
         /\ notified' \in Seq(Message) /\ Len(notified') = Len(notified) + 1
         /\ \A k \in 1..Len(notified) : notified'[k] = notified[k]
         /\ notified'[Len(notified')] = m
         /\ \/ /\ Len(channel') = Len(channel) + 1 /\ lost' = lost
               /\ \A k \in 1..Len(channel) : channel'[k] = channel[k]
            \/ /\ Len(channel') = Len(channel) /\ Len(channel) # 0
               /\ \A k \in 1..(Len(channel) - 1) : channel'[k] = channel[k + 1]
               /\ lost' = lost \cup {channel[1]}
         /\ channel'[Len(channel')] = m
<1>0. /\ channel \in Seq(Message) /\ notified \in Seq(Message) /\ Len(channel) <= Capacity
      /\ Capacity \in Nat \ {0} /\ Len(channel) \in Nat /\ Len(notified) \in Nat
  BY PublishingAssumption DEF TypeInv, PublishingTypeOK
<1>1. /\ notified' \in Seq(Message) /\ Len(notified') = Len(notified) + 1
      /\ \A k \in 1..Len(notified) : notified'[k] = notified[k]
      /\ notified'[Len(notified')] = m
  BY <1>0 DEF Notify
<1>2. CASE Len(channel) < Capacity
  <2>1. channel' = Append(channel, m) /\ lost' = lost
    BY <1>2 DEF Notify
  <2> QED BY <1>0, <1>1, <1>2, <2>1
<1>3. CASE ~(Len(channel) < Capacity)
  <2>1. channel' = Append(Tail(channel), m) /\ lost' = lost \cup {channel[1]}
    BY <1>3 DEF Notify
  <2>2. Len(channel) = Capacity /\ channel # <<>>
    BY <1>0, <1>3
  <2>3. /\ Tail(channel) \in Seq(Message) /\ Len(Tail(channel)) = Len(channel) - 1
        /\ \A k \in 1..(Len(channel) - 1) : Tail(channel)[k] = channel[k + 1]
    BY <1>0, <2>2
  <2> QED BY <1>0, <1>1, <2>1, <2>2, <2>3
<1> QED BY <1>2, <1>3

LEMMA TakeChannel ==
  ASSUME TypeInv, NEW h \in Handler, TakeHint(h)
  PROVE  /\ Len(channel) # 0 /\ channel[1] \in Message
         /\ handler[h] = NoMessage /\ handler' = [handler EXCEPT ![h] = channel[1]]
         /\ hotInFlight' = hotInFlight \cup {channel[1]}
         /\ channel' \in Seq(Message) /\ Len(channel') = Len(channel) - 1
         /\ \A k \in 1..Len(channel') : channel'[k] = channel[k + 1]
BY DEF TypeInv, PublishingTypeOK, TakeHint

LEMMA EndsTypes ==
  ASSUME TypeInv, NEW h \in Handler, HandlerEnds(h)
  PROVE  /\ handler' \in [Handler -> Message \cup {NoMessage}]
         /\ locked' \subseteq Handler /\ hotInFlight' \subseteq Message
BY DEF TypeInv, PublishingTypeOK, HandlerEnds

LEMMA FaultAllowed == ASSUME TypeInv, Fault PROVE faults' \in 0..MaxFaults
BY PublishingAssumption DEF TypeInv, PublishingTypeOK, Fault

\* The types of what is not a row.
LoopsOK ==
  /\ tracking \in BOOLEAN
  /\ tx \in [Transaction -> {"none", "open", "committed", "rolledBack"}]
  /\ insertedIn \in [Message -> Transaction \cup {NoTransaction}]
  /\ tracked \subseteq Message /\ published \subseteq Message
  /\ channel \in Seq(Message) /\ Len(channel) <= Capacity
  /\ handler \in [Handler -> Message \cup {NoMessage}]
  /\ locked \subseteq Handler
  /\ hotInFlight \subseteq Message
  /\ cold \in [Instance -> {"idle", "lock", "work"}]
  /\ skip \in [Instance -> SUBSET Message]
  /\ batch \in [Instance -> SUBSET Message]
  /\ faults \in 0..MaxFaults
  /\ notified \in Seq(Message) /\ lost \subseteq Message /\ taken \subseteq Message

LEMMA EndedFaults ==
  ASSUME TypeInv, NEW i, NEW m, Ended(i, m)
  PROVE  faults' \in 0..MaxFaults
BY FaultAllowed DEF Ended, TypeInv, PublishingTypeOK

LEMMA LoopsStep ==
  ASSUME TypeInv, [Next]_vars
  PROVE  LoopsOK'
<1>0. LoopsOK /\ Self \in Instance
  BY PublishingAssumption DEF TypeInv, PublishingTypeOK, LoopsOK
<1> USE <1>0
<1>1. ASSUME NEW m \in Message, Publish(m) PROVE LoopsOK'
  <2>1. channel' \in Seq(Message) /\ Len(channel') <= Capacity /\ notified' \in Seq(Message)
        /\ lost' \subseteq Message
    <3>1. Notify(m)
      BY <1>1 DEF Publish, EfCorePublish, DirectSqlPublish
    <3>2. Len(channel) # 0 => channel[1] \in Message
      BY DEF LoopsOK
    <3> QED BY <3>1, <3>2, NotifyChannel DEF LoopsOK
  <2>2. TxOf[m] \in Transaction
    BY PublishingAssumption
  <2> QED BY <1>1, <2>1, <2>2 DEF Publish, EfCorePublish, DirectSqlPublish, LoopsOK, coldPath
<1>2. ASSUME NEW m \in Message, PublishFails(m) PROVE LoopsOK'
  BY <1>2, FaultAllowed DEF PublishFails, hot, coldPath, history, LoopsOK
<1>3. ASSUME NEW m \in Message, Clock(m) PROVE LoopsOK'
  BY <1>3 DEF Clock, caller, hot, coldPath, history, LoopsOK
<1>4. ASSUME NEW t \in Transaction, Begin(t) \/ Commit(t) \/ Rollback(t) PROVE LoopsOK'
  BY <1>4 DEF Begin, Commit, Rollback, hot, coldPath, history, LoopsOK
<1>5. ASSUME NEW h \in Handler, TakeHint(h) PROVE LoopsOK'
  <2>1. /\ channel[1] \in Message /\ handler' = [handler EXCEPT ![h] = channel[1]]
        /\ hotInFlight' = hotInFlight \cup {channel[1]}
        /\ channel' \in Seq(Message) /\ Len(channel') = Len(channel) - 1
    BY <1>5, TakeChannel
  <2>2. Len(channel') <= Capacity
    BY <2>1, PublishingAssumption DEF LoopsOK
  <2> QED BY <1>5, <2>1, <2>2 DEF TakeHint, caller, coldPath, history, LoopsOK
<1>6. ASSUME NEW h \in Handler, LockHinted(h) PROVE LoopsOK'
  <2>1. handler[h] \in Message
    BY <1>6 DEF LockHinted, Waiting, LoopsOK
  <2>2. /\ handler' \in [Handler -> Message \cup {NoMessage}]
        /\ locked' \subseteq Handler /\ hotInFlight' \subseteq Message /\ taken' \subseteq Message
    BY <1>6, <2>1, EndsTypes DEF LockHinted, LoopsOK
  <2> QED BY <1>6, <2>2 DEF LockHinted, caller, coldPath, LoopsOK
<1>7. ASSUME NEW h \in Handler, LockHintedFails(h) PROVE LoopsOK'
  BY <1>7, FaultAllowed, EndsTypes DEF LockHintedFails, Waiting, caller, coldPath, LoopsOK
<1>8. ASSUME NEW h \in Handler, FinishHinted(h) PROVE LoopsOK'
  BY <1>8, EndedFaults, EndsTypes DEF FinishHinted, caller, coldPath, history, LoopsOK
<1>9. ASSUME NEW i \in Instance, ColdStep(i) PROVE LoopsOK'
  <2>1. CASE Snapshot(i)
    BY <2>1 DEF Snapshot, caller, hot, history, LoopsOK
  <2>2. CASE LockBatch(i)
    <3>1. PICK ms \in SUBSET Message :
            /\ batch' = [batch EXCEPT ![i] = ms] /\ taken' = taken \cup ms
            /\ cold' = [cold EXCEPT ![i] = IF ms = {} THEN "idle" ELSE "work"]
      BY <2>2 DEF LockBatch
    <3> QED BY <2>2, <3>1 DEF LockBatch, caller, hot, LoopsOK
  <2>3. ASSUME NEW m \in Message, FinishOfBatch(i, m) PROVE LoopsOK'
    BY <2>3, EndedFaults DEF FinishOfBatch, caller, hot, history, LoopsOK
  <2> QED BY <1>9, <2>1, <2>2, <2>3 DEF ColdStep
<1>10. CASE Crash
  <2>1. <<>> \in Seq(Message) /\ Len(<<>>) <= Capacity
    BY PublishingAssumption
  <2>2. tx' \in [Transaction -> {"none", "open", "committed", "rolledBack"}]
    BY <1>10 DEF Crash, LoopsOK
  <2> QED BY <1>10, <2>1, <2>2, FaultAllowed DEF Crash, LoopsOK
<1>11. CASE UNCHANGED vars
  BY <1>11 DEF vars, caller, hot, coldPath, history, LoopsOK
<1> QED BY <1>1, <1>2, <1>3, <1>4, <1>5, <1>6, <1>7, <1>8, <1>9, <1>10, <1>11
        DEF Next, HandlerStep

\* A message is notified when it is inserted, hence once.
LEMMA PublishedNow ==
  ASSUME TypeInv, TxInv, ScopeInv, NEW m \in Message, Publish(m)
  PROVE  /\ Notify(m) /\ m \notin published /\ m \in published' /\ published \subseteq published'
         /\ UNCHANGED <<handler, locked, hotInFlight, taken, row, tx>>
BY Publishing DEF Publish, EfCorePublish, DirectSqlPublish

\* Steps that leave channel and handlers alone.
HotKept ==
  UNCHANGED <<channel, notified, handler, locked, hotInFlight, lost>>

LEMMA QuietSteps ==
  ASSUME Next
  PROVE  \/ HotKept
         \/ \E m \in Message : Publish(m)
         \/ \E h \in Handler : TakeHint(h) \/ HandlerStep(h) \/ LockHintedFails(h)
         \/ Crash
BY DEF Next, PublishFails, Clock, Begin, Commit, Rollback, ColdStep, Snapshot, LockBatch,
       FinishOfBatch, hot, history, HotKept

\* A handler that lets go leaves the others and the set exact.
LEMMA LettingGo ==
  ASSUME TypeInv, HintsInv, NEW h \in Handler, HandlerEnds(h), handler[h] # NoMessage,
         UNCHANGED <<channel, notified>>, published \subseteq published', taken \subseteq taken'
  PROVE  HintsInv'
<1>1. \A g \in Handler : handler'[g] = IF g = h THEN NoMessage ELSE handler[g]
  BY DEF HandlerEnds, TypeInv, PublishingTypeOK
<1>2. InFlightExact'
  <2>1. hotInFlight' = hotInFlight \ {handler[h]}
    BY DEF HandlerEnds
  <2>2. hotInFlight = {handler[g] : g \in Handler} \ {NoMessage}
    BY DEF HintsInv, InFlightExact
  <2>3. \A g \in Handler : g # h => handler[g] # handler[h]
    BY DEF HintsInv, InFlightExact
  <2>4. hotInFlight' = {handler'[g] : g \in Handler} \ {NoMessage}
    BY <1>1, <2>1, <2>2, <2>3
  <2>5. \A f, g \in Handler : f # g /\ handler'[f] # NoMessage => handler'[f] # handler'[g]
    BY <1>1 DEF HintsInv, InFlightExact
  <2> QED BY <2>4, <2>5 DEF InFlightExact
<1>3. \A g \in locked' : g \in locked /\ g # h /\ g \in Handler
  BY DEF HandlerEnds, TypeInv, PublishingTypeOK
<1>4. \A g \in locked' : handler'[g] \in taken'
  BY <1>1, <1>3 DEF HintsInv
<1> QED BY <1>1, <1>2, <1>4 DEF HintsInv, OldestHintsDropped, HandlerOK, InChannel

LEMMA HintsInvStep ==
  ASSUME TypeInv, TxInv, ScopeInv, HintsInv, [Next]_vars
  PROVE  HintsInv'
<1>0. channel \in Seq(Message) /\ notified \in Seq(Message) /\ NoMessage \notin Message
      /\ handler \in [Handler -> Message \cup {NoMessage}] /\ locked \subseteq Handler
      /\ Len(channel) \in Nat /\ Len(notified) \in Nat
  BY PublishingAssumption DEF TypeInv, PublishingTypeOK
<1>1. ASSUME HotKept, published \subseteq published', taken \subseteq taken' PROVE HintsInv'
  BY <1>1 DEF HotKept, HintsInv, OldestHintsDropped, HandlerOK, InChannel, InFlightExact
<1>2. ASSUME NEW m \in Message, Publish(m) PROVE HintsInv'
  <2>1. /\ Notify(m) /\ m \notin published /\ m \in published' /\ published \subseteq published'
        /\ UNCHANGED <<handler, locked, hotInFlight, taken, row, tx>>
    BY <1>2, PublishedNow
  <2>2. /\ channel' \in Seq(Message) /\ Len(channel') \in Nat
        /\ notified' \in Seq(Message) /\ Len(notified') = Len(notified) + 1
        /\ \A k \in 1..Len(notified) : notified'[k] = notified[k]
        /\ notified'[Len(notified')] = m
        /\ channel'[Len(channel')] = m
    BY <2>1, NotifyChannel
  <2>3. PICK d \in 0..1 :
          /\ Len(channel') = Len(channel) + 1 - d /\ Len(channel') > 0
          /\ \A k \in 1..(Len(channel') - 1) : channel'[k] = channel[k + d]
          /\ \A k \in 1..(Len(channel') - 1) : k + d \in 1..Len(channel)
    <3>1. CASE Len(channel') = Len(channel) + 1 /\ \A k \in 1..Len(channel) : channel'[k] = channel[k]
      BY <1>0, <3>1
    <3>2. CASE Len(channel') = Len(channel) /\ Len(channel) # 0
               /\ \A k \in 1..(Len(channel) - 1) : channel'[k] = channel[k + 1]
      BY <1>0, <3>2
    <3> QED BY <2>1, <3>1, <3>2, NotifyChannel
  <2>4. \A k \in 1..(Len(channel') - 1) : channel'[k] \in published /\ channel'[k] # m
    <3>1. \A k \in 1..Len(channel) : channel[k] \in published
      <4> SUFFICES ASSUME NEW k \in 1..Len(channel) PROVE channel[k] \in published
        OBVIOUS
      <4>1. Len(notified) - Len(channel) + k \in 1..Len(notified)
        BY <1>0 DEF HintsInv
      <4>2. channel[k] = notified[Len(notified) - Len(channel) + k]
        BY DEF HintsInv, OldestHintsDropped
      <4> QED BY <4>1, <4>2 DEF HintsInv
    <3> QED BY <2>1, <2>3, <3>1
  <2>5. Len(channel') <= Len(notified')
    BY <1>0, <2>2, <2>3 DEF HintsInv
  <2>6. \A k \in 1..Len(channel') : channel'[k] = notified'[Len(notified') - Len(channel') + k]
    <3> SUFFICES ASSUME NEW k \in 1..Len(channel')
                 PROVE  channel'[k] = notified'[Len(notified') - Len(channel') + k]
      OBVIOUS
    <3>1. CASE k = Len(channel')
      <4>1. Len(notified') - Len(channel') + k = Len(notified')
        BY <1>0, <2>2, <3>1
      <4> QED BY <2>2, <3>1, <4>1
    <3>2. CASE k # Len(channel')
      <4>0. k \in 1..(Len(channel') - 1)
        BY <2>2, <3>2
      <4>1. k \in 1..(Len(channel') - 1) /\ k + d \in 1..Len(channel)
        BY <2>3, <4>0
      <4>2. channel'[k] = channel[k + d]
        BY <2>3, <4>1
      <4>3. channel[k + d] = notified[Len(notified) - Len(channel) + (k + d)]
        BY <4>1 DEF HintsInv, OldestHintsDropped
      <4>4. /\ Len(notified) - Len(channel) + (k + d) = Len(notified') - Len(channel') + k
            /\ Len(notified) - Len(channel) + (k + d) \in 1..Len(notified)
        BY <1>0, <2>2, <2>3, <4>1 DEF HintsInv
      <4> QED BY <2>2, <4>2, <4>3, <4>4
    <3> QED BY <3>1, <3>2
  <2>7. \A k \in 1..Len(notified') : notified'[k] \in published'
    <3>1. \A k \in 1..Len(notified') : k = Len(notified') \/ k \in 1..Len(notified)
      BY <1>0, <2>2
    <3> QED BY <2>1, <2>2, <3>1 DEF HintsInv, HandlerOK
  <2>8. \A j, k \in 1..Len(channel') : channel'[j] = channel'[k] => j = k
    <3> SUFFICES ASSUME NEW j \in 1..Len(channel'), NEW k \in 1..Len(channel'),
                        channel'[j] = channel'[k]
                 PROVE  j = k
      OBVIOUS
    <3>1. CASE j = Len(channel') \/ k = Len(channel')
      BY <2>2, <2>4, <3>1
    <3>2. CASE j # Len(channel') /\ k # Len(channel')
      <4>1. j \in 1..(Len(channel') - 1) /\ k \in 1..(Len(channel') - 1)
        BY <2>2, <3>2
      <4>2. channel[j + d] = channel[k + d] /\ j + d \in 1..Len(channel) /\ k + d \in 1..Len(channel)
        BY <2>3, <4>1
      <4>3. j + d = k + d
        BY <4>2 DEF HintsInv
      <4> QED BY <2>3, <4>1, <4>3
    <3> QED BY <3>1, <3>2
  <2>9. \A h \in Handler : HandlerOK(h)'
    <3> SUFFICES ASSUME NEW h \in Handler, handler[h] # NoMessage, NEW k \in 1..Len(channel'),
                        channel'[k] = handler[h]
                 PROVE  FALSE
      BY <2>1 DEF HintsInv, HandlerOK, InChannel
    <3>1. CASE k = Len(channel')
      BY <2>1, <2>2, <3>1 DEF HintsInv, HandlerOK
    <3>2. CASE k # Len(channel')
      <4>1. k \in 1..(Len(channel') - 1)
        BY <2>2, <3>2
      <4>2. channel[k + d] = handler[h] /\ k + d \in 1..Len(channel)
        BY <2>3, <4>1
      <4> QED BY <4>2 DEF HintsInv, HandlerOK, InChannel
    <3> QED BY <3>1, <3>2
  <2> QED BY <2>1, <2>5, <2>6, <2>7, <2>8, <2>9 DEF HintsInv, OldestHintsDropped, InFlightExact
<1>3. ASSUME NEW h \in Handler, TakeHint(h) PROVE HintsInv'
  <2>1. /\ Len(channel) # 0 /\ channel[1] \in Message
        /\ handler[h] = NoMessage /\ handler' = [handler EXCEPT ![h] = channel[1]]
        /\ hotInFlight' = hotInFlight \cup {channel[1]}
        /\ channel' \in Seq(Message) /\ Len(channel') = Len(channel) - 1
        /\ \A k \in 1..Len(channel') : channel'[k] = channel[k + 1]
    BY <1>3, TakeChannel
  <2>2. UNCHANGED <<locked, notified, published, taken>>
    BY <1>3 DEF TakeHint, caller, history
  <2>3. 1 \in 1..Len(channel) /\ \A k \in 1..Len(channel') : k + 1 \in 1..Len(channel)
    BY <1>0, <2>1
  <2>4. channel[1] \in published
    <3>1. Len(notified) - Len(channel) + 1 \in 1..Len(notified)
      BY <1>0, <2>3 DEF HintsInv
    <3>2. channel[1] = notified[Len(notified) - Len(channel) + 1]
      BY <2>3 DEF HintsInv, OldestHintsDropped
    <3> QED BY <3>1, <3>2 DEF HintsInv
  <2>5. \A g \in Handler : handler'[g] = IF g = h THEN channel[1] ELSE handler[g]
    BY <1>0, <2>1
  <2>6. \A g \in Handler : handler[g] # channel[1]
    BY <1>0, <2>1, <2>3 DEF HintsInv, HandlerOK, InChannel
  <2>7. InFlightExact'
    <3>1. hotInFlight = {handler[g] : g \in Handler} \ {NoMessage}
      BY DEF HintsInv, InFlightExact
    <3>2. hotInFlight' = {handler'[g] : g \in Handler} \ {NoMessage}
      BY <1>0, <2>1, <2>5, <3>1
    <3>3. \A f, g \in Handler : f # g /\ handler'[f] # NoMessage => handler'[f] # handler'[g]
      BY <1>0, <2>1, <2>5, <2>6 DEF HintsInv, InFlightExact
    <3> QED BY <3>2, <3>3 DEF InFlightExact
  <2>8. \A j, k \in 1..Len(channel') : channel'[j] = channel'[k] => j = k
    BY <1>0, <2>1, <2>3 DEF HintsInv
  <2>9. OldestHintsDropped' /\ Len(channel') <= Len(notified')
    <3>1. \A k \in 1..Len(channel') :
            /\ channel[k + 1] = notified[Len(notified) - Len(channel) + (k + 1)]
            /\ Len(notified) - Len(channel) + (k + 1) = Len(notified) - Len(channel') + k
      BY <1>0, <2>1, <2>3 DEF HintsInv, OldestHintsDropped
    <3> QED BY <1>0, <2>1, <2>2, <3>1 DEF HintsInv, OldestHintsDropped
  <2>10. \A g \in Handler : HandlerOK(g)'
    <3> SUFFICES ASSUME NEW g \in Handler, handler'[g] # NoMessage
                 PROVE  handler'[g] \in published /\ \A k \in 1..Len(channel') : channel'[k] # handler'[g]
      BY <2>2 DEF HandlerOK, InChannel
    <3>1. CASE g = h
      BY <1>0, <2>1, <2>3, <2>4, <2>5, <3>1 DEF HintsInv, HandlerOK, InChannel
    <3>2. CASE g # h
      BY <2>1, <2>3, <2>5, <3>2 DEF HintsInv, HandlerOK, InChannel
    <3> QED BY <3>1, <3>2
  <2>11. \A g \in locked' : handler'[g] \in taken'
    <3>1. \A g \in locked : g # h
      BY <1>0, <2>1 DEF HintsInv, TypeInv, PublishingTypeOK
    <3> QED BY <1>0, <2>2, <2>5, <3>1 DEF HintsInv
  <2> QED BY <2>2, <2>7, <2>8, <2>9, <2>10, <2>11 DEF HintsInv
<1>4. ASSUME NEW h \in Handler, HandlerStep(h) \/ LockHintedFails(h) PROVE HintsInv'
  <2>1. CASE HandlerEnds(h)
    <3>1. /\ UNCHANGED <<channel, notified, published>> /\ taken \subseteq taken'
          /\ handler[h] # NoMessage
      BY <1>0, <1>4 DEF HandlerStep, LockHinted, FinishHinted, LockHintedFails, Waiting,
                        HintsInv, TypeInv, PublishingTypeOK, caller, history
    <3> QED BY <2>1, <3>1, LettingGo
  <2>2. CASE ~HandlerEnds(h)
    <3>1. /\ locked' = locked \cup {h} /\ taken' = taken \cup {handler[h]}
          /\ UNCHANGED <<channel, notified, published, handler, hotInFlight>>
      BY <1>4, <2>2 DEF HandlerStep, LockHinted, FinishHinted, LockHintedFails, caller
    <3> QED BY <3>1 DEF HintsInv, OldestHintsDropped, HandlerOK, InChannel, InFlightExact
  <2> QED BY <2>1, <2>2
<1>5. CASE Crash
  <2>1. /\ channel' = <<>> /\ notified' = <<>> /\ locked' = {} /\ hotInFlight' = {}
        /\ \A h \in Handler : handler'[h] = NoMessage
    BY <1>5 DEF Crash
  <2> QED BY <2>1 DEF HintsInv, OldestHintsDropped, HandlerOK, InChannel, InFlightExact
<1>6. CASE UNCHANGED vars
  BY <1>1, <1>6 DEF vars, hot, history, caller, HotKept
<1> QED BY <1>1, <1>2, <1>3, <1>4, <1>5, <1>6, QuietSteps, TakenGrows, PublishedGrows

\* A handler that gives up a hint nobody used: it was lost, or will never matter.
LEMMA GivingUp ==
  ASSUME PublishingInv, NEW h \in Handler, HandlerStep(h) \/ LockHintedFails(h),
         NEW m \in Message, handler[h] = m, m \notin lost' \cup taken'
  PROVE  tx[TxOf[m]] = "rolledBack"
<1>1. CASE LockHinted(h)
  <2>1. /\ insertedIn[m] = TxOf[m] /\ IsInserted(m) /\ ~LockableById(row[m])
        /\ tx[TxOf[m]] \notin {"none", "open"}
    <3>1. m \in published /\ ~Blocked(m) /\ ~LockableById(row[m])
      BY <1>1, PublishingAssumption DEF LockHinted, PublishingInv, HintsInv, HandlerOK
    <3>2. insertedIn[m] = TxOf[m] /\ IsInserted(m)
      BY <3>1, PublishingAssumption DEF PublishingInv, ScopeInv, IsInserted
    <3> QED BY <3>1, <3>2 DEF Blocked, PublishingInv, TxInv
  <2>2. tx[TxOf[m]] \in {"none", "open", "committed", "rolledBack"}
    BY PublishingAssumption DEF PublishingInv, TypeInv, PublishingTypeOK
  <2>3. m \notin taken
    BY <1>1 DEF LockHinted
  <2>4. row[m].status = "Absent"
    BY <2>1, <2>3, NewRowFields DEF PublishingInv, RowsInv
  <2> QED BY <2>1, <2>2, <2>4 DEF PublishingInv, TxInv
<1>2. CASE FinishHinted(h)
  BY <1>2 DEF FinishHinted, PublishingInv, HintsInv, history
<1>3. CASE LockHintedFails(h)
  BY <1>3 DEF LockHintedFails
<1> QED BY <1>1, <1>2, <1>3 DEF HandlerStep

LEMMA CoverInvStep ==
  ASSUME PublishingInv, [Next]_vars
  PROVE  CoverInv'
<1>0. /\ channel \in Seq(Message) /\ notified \in Seq(Message) /\ NoMessage \notin Message
      /\ handler \in [Handler -> Message \cup {NoMessage}] /\ TypeInv
      /\ Len(channel) \in Nat /\ Len(notified) \in Nat
  BY PublishingAssumption DEF PublishingInv, TypeInv, PublishingTypeOK
<1> SUFFICES ASSUME NEW m \in Message, Hinted(m)', m \notin lost' \cup taken'
             PROVE  Covered(m)'
  BY DEF CoverInv
<1>1. Next => (tx[TxOf[m]] = "rolledBack" => tx'[TxOf[m]] = "rolledBack") /\ m \notin taken
  BY <1>0, TxMoves, TakenGrows, PublishingAssumption
<1>2. Hinted(m) /\ m \notin lost \cup taken => Covered(m)
  BY DEF PublishingInv, CoverInv
<1>3. CASE HotKept /\ Next
  BY <1>1, <1>2, <1>3 DEF HotKept, Hinted, Covered, InChannel
<1>4. ASSUME NEW n \in Message, Publish(n), Next PROVE Covered(m)'
  <2>1. Notify(n) /\ UNCHANGED <<handler, taken, tx>>
    BY <1>4, PublishedNow DEF PublishingInv
  <2>2. /\ channel' \in Seq(Message) /\ Len(channel') \in Nat
        /\ Len(notified') = Len(notified) + 1
        /\ \A k \in 1..Len(notified) : notified'[k] = notified[k]
        /\ notified'[Len(notified')] = n
        /\ channel'[Len(channel')] = n
    BY <1>0, <2>1, NotifyChannel
  <2>3. Len(channel') # 0
    BY <1>0, <2>1, NotifyChannel
  <2>4. CASE m = n
    BY <2>2, <2>3, <2>4 DEF Covered, InChannel
  <2>5. CASE m # n
    <3>1. PICK k \in 1..Len(notified') : notified'[k] = m
      BY DEF Hinted
    <3>2. k \in 1..Len(notified) /\ notified[k] = m
      BY <1>0, <2>2, <2>5, <3>1
    <3>3. m \notin lost \cup taken
      BY <1>0, <2>1, NotifyChannel
    <3>4. Covered(m)
      BY <1>2, <3>2, <3>3 DEF Hinted
    <3>5. CASE InChannel(m)
      <4>1. PICK j \in 1..Len(channel) : channel[j] = m
        BY <3>5 DEF InChannel
      <4>2. CASE Len(channel') = Len(channel) + 1 /\ \A i \in 1..Len(channel) : channel'[i] = channel[i]
        <5>1. j \in 1..Len(channel') /\ channel'[j] = m
          BY <1>0, <4>1, <4>2
        <5> QED BY <5>1 DEF Covered, InChannel
      <4>3. CASE /\ Len(channel') = Len(channel)
                 /\ \A i \in 1..(Len(channel) - 1) : channel'[i] = channel[i + 1]
                 /\ lost' = lost \cup {channel[1]}
        <5>1. j # 1
          BY <4>1, <4>3
        <5>2. j - 1 \in 1..(Len(channel) - 1) /\ (j - 1) + 1 = j
          BY <1>0, <4>1, <5>1
        <5>3. channel'[j - 1] = m /\ j - 1 \in 1..Len(channel')
          BY <1>0, <4>1, <4>3, <5>2
        <5> QED BY <5>3 DEF Covered, InChannel
      <4> QED BY <1>0, <2>1, <4>2, <4>3, NotifyChannel
    <3>6. CASE ~InChannel(m)
      BY <2>1, <3>4, <3>6 DEF Covered
    <3> QED BY <3>5, <3>6
  <2> QED BY <2>4, <2>5
<1>5. ASSUME NEW h \in Handler, TakeHint(h), Next PROVE Covered(m)'
  <2>1. /\ handler[h] = NoMessage /\ handler' = [handler EXCEPT ![h] = channel[1]]
        /\ channel' \in Seq(Message) /\ Len(channel') = Len(channel) - 1
        /\ \A k \in 1..Len(channel') : channel'[k] = channel[k + 1]
    BY <1>0, <1>5, TakeChannel
  <2>2. UNCHANGED <<notified, lost, taken, tx>>
    BY <1>5 DEF TakeHint, caller, history
  <2>3. Covered(m)
    BY <1>1, <1>2, <1>5, <2>2 DEF Hinted
  <2>4. CASE InChannel(m)
    <3>1. PICK j \in 1..Len(channel) : channel[j] = m
      BY <2>4 DEF InChannel
    <3>2. CASE j = 1
      BY <1>0, <2>1, <3>1, <3>2 DEF Covered
    <3>3. CASE j # 1
      <4>1. j - 1 \in 1..Len(channel') /\ (j - 1) + 1 = j
        BY <1>0, <2>1, <3>1, <3>3
      <4>2. channel'[j - 1] = m
        BY <2>1, <3>1, <4>1
      <4> QED BY <4>1, <4>2 DEF Covered, InChannel
    <3> QED BY <3>2, <3>3
  <2>5. CASE ~InChannel(m)
    BY <1>0, <2>1, <2>2, <2>3, <2>5 DEF Covered
  <2> QED BY <2>4, <2>5
<1>6. ASSUME NEW h \in Handler, HandlerStep(h) \/ LockHintedFails(h), Next PROVE Covered(m)'
  <2>1. /\ UNCHANGED <<channel, notified, tx>> /\ lost \subseteq lost'
        /\ \A g \in Handler : g # h => handler'[g] = handler[g]
    BY <1>0, <1>6 DEF HandlerStep, LockHinted, FinishHinted, LockHintedFails, HandlerEnds,
                      caller, history
  <2>2. Covered(m)
    BY <1>1, <1>2, <1>6, <2>1 DEF Hinted
  <2>3. handler[h] = m => tx[TxOf[m]] = "rolledBack"
    BY <1>6, GivingUp
  <2> QED BY <2>1, <2>2, <2>3 DEF Covered, InChannel
<1>7. CASE Crash
  BY <1>7 DEF Crash, Hinted
<1>8. CASE UNCHANGED vars
  BY <1>2, <1>8 DEF vars, hot, history, caller, Hinted, Covered, InChannel
<1> QED BY <1>3, <1>4, <1>5, <1>6, <1>7, <1>8, QuietSteps

LEMMA PublishingInvInit == Init => PublishingInv
<1> SUFFICES ASSUME Init PROVE PublishingInv
  OBVIOUS
<1>1. \A m \in Message : row[m] = AbsentRow
  BY DEF Init, StoreInit, AbsentRow
<1>2. StoreInv
  BY <1>1, NewRowFields DEF Init, StoreInit, StoreInv, StoreTypeOK
<1>3. channel = <<>> /\ notified = <<>> /\ channel \in Seq(Message) /\ notified \in Seq(Message)
      /\ Len(channel) = 0 /\ Len(notified) = 0
  BY DEF Init
<1>4. TypeInv
  BY <1>2, <1>3, PublishingAssumption DEF Init, TypeInv, PublishingTypeOK, StoreInv
<1>5. RowsInv /\ TxInv /\ ScopeInv
  BY <1>1, <1>2, NewRowFields DEF Init, RowsInv, TxInv, ScopeInv, IsInserted
<1>6. HintsInv
  BY <1>3 DEF Init, HintsInv, OldestHintsDropped, HandlerOK, InFlightExact
<1>7. CoverInv
  BY <1>3 DEF CoverInv, Hinted
<1> QED BY <1>4, <1>5, <1>6, <1>7 DEF PublishingInv

LEMMA PublishingInvStep == PublishingInv /\ [Next]_vars => PublishingInv'
<1> SUFFICES ASSUME PublishingInv, [Next]_vars PROVE PublishingInv'
  OBVIOUS
<1>1. TypeInv /\ RowsInv /\ TxInv /\ ScopeInv /\ HintsInv
  BY DEF PublishingInv
<1>2. RowsInv' /\ TxInv' /\ ScopeInv' /\ HintsInv' /\ CoverInv'
  BY <1>1, RowsInvStep, TxInvStep, ScopeInvStep, HintsInvStep, CoverInvStep
<1>3. TypeInv'
  BY <1>1, <1>2, LoopsStep DEF LoopsOK, RowsInv, StoreInv, TypeInv, PublishingTypeOK
<1> QED BY <1>2, <1>3 DEF PublishingInv

LEMMA PublishingInvariant == Spec => []PublishingInv
BY PublishingInvInit, PublishingInvStep, PTL DEF Spec

\* Rows, loops and channel keep their types, and the channel its capacity.
THEOREM PublishingTypeCorrect == Spec => []PublishingTypeOK
<1>1. PublishingInv => PublishingTypeOK
  BY DEF PublishingInv, TypeInv
<1> QED BY <1>1, PublishingInvariant, PTL

\* Overflow drops the oldest hints (BoundedChannelFullMode.DropOldest).
THEOREM OverflowDropsOldest == Spec => []OldestHintsDropped
<1>1. PublishingInv => OldestHintsDropped
  BY DEF PublishingInv, HintsInv
<1> QED BY <1>1, PublishingInvariant, PTL

\* _hotInFlight is the set of the messages the handlers have.
THEOREM InFlightIsExact == Spec => []InFlightExact
<1>1. PublishingInv => InFlightExact
  BY DEF PublishingInv, HintsInv
<1> QED BY <1>1, PublishingInvariant, PTL

\* PublishAsync and the caller's transaction: a message whose call returned is in
\* the table if and only if the transaction of the call has committed, one whose call
\* threw only with a later call of its scope; a locked message is in the table.
THEOREM BothOrNeitherHolds == Spec => []BothOrNeither
<1>1. PublishingInv => BothOrNeither
  <2> SUFFICES ASSUME PublishingInv PROVE BothOrNeither
    OBVIOUS
  <2>0. published \subseteq Message /\ taken \subseteq Message
    BY DEF PublishingInv, TypeInv, PublishingTypeOK
  <2>1. ASSUME NEW m \in published PROVE Present(m) <=> tx[TxOf[m]] = "committed"
    <3>1. insertedIn[m] = TxOf[m] /\ IsInserted(m)
      BY <2>0, PublishingAssumption DEF PublishingInv, ScopeInv, IsInserted
    <3> QED BY <2>0, <3>1 DEF PublishingInv, TxInv, Present
  <2>2. ASSUME NEW m \in Message \ published, Present(m)
        PROVE  tracking /\ \E n \in published : SameScope(TxOf[n], TxOf[m]) /\ tx[TxOf[n]] = "committed"
    <3>1. IsInserted(m) /\ tx[insertedIn[m]] = "committed"
      BY <2>2 DEF PublishingInv, TxInv, Present
    <3> QED BY <3>1 DEF PublishingInv, ScopeInv
  <2>3. \A h \in locked : Present(handler[h])
    BY <2>0 DEF PublishingInv, HintsInv, RowsInv, Present
  <2> QED BY <2>1, <2>2, <2>3 DEF BothOrNeither
<1> QED BY <1>1, PublishingInvariant, PTL

\* A hint written before the commit is not used up in vain (TryLockByIdAsync waits
\* for the transaction of the publisher).
THEOREM HintsCoverCommits == Spec => []HintCoversCommit
<1>1. PublishingInv => HintCoversCommit
  <2> SUFFICES ASSUME PublishingInv, NEW m \in Message, Hinted(m), row[m] = NewRow,
                      m \notin lost \cup taken
               PROVE  InChannel(m) \/ \E h \in Handler : handler[h] = m
    BY DEF HintCoversCommit, InChannel
  <2>1. tx[TxOf[m]] = "committed"
    <3>1. m \in published
      BY DEF Hinted, PublishingInv, HintsInv
    <3>2. insertedIn[m] = TxOf[m]
      BY <3>1 DEF PublishingInv, ScopeInv
    <3> QED BY <3>2, NewRowFields DEF PublishingInv, TxInv
  <2> QED BY <2>1 DEF PublishingInv, CoverInv, Covered
<1> QED BY <1>1, PublishingInvariant, PTL
=============================================================================
