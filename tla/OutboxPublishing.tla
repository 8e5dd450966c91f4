-------------------------- MODULE OutboxPublishing --------------------------
(***************************************************************************)
(* From PublishAsync to the lock: the caller's transaction, the in-process *)
(* channel and the two loops of OutboxProcessorService that drain it and   *)
(* the table.  What the pipeline does with a message it has locked is      *)
(* OutboxPipeline's; here a locked message is settled, sent back for a     *)
(* retry, or left to the expiry of its lock.                               *)
(*                                                                         *)
(* All messages are published in process Self; the other instances only    *)
(* poll.  An INSERT is invisible, and its row locked against other         *)
(* statements, until its transaction ends.  A DI scope has one OutboxDb-   *)
(* Context for all its transactions, which follow one another; a scope     *)
(* ends when it begins no other.                                           *)
(***************************************************************************)
EXTENDS OutboxStore, Sequences

CONSTANTS
  Self,         \* the Instance whose callers publish
  Transaction,  \* transactions of its callers
  Scope,        \* DI scopes of its callers
  ScopeOf,      \* Transaction -> the scope it belongs to
  TxOf,         \* Message -> the transaction PublishAsync is called in
  NoTransaction,
  Handler,      \* handlers of RunHotPathAsync's ForEachAsync in Self
  NoMessage,
  Capacity,     \* of the channel (10 000)
  MaxRetries,   \* RetryPolicyOptions.MaxRetries
  MaxFaults     \* bound

ASSUME PublishingAssumption ==
  /\ Self \in Instance
  /\ ScopeOf \in [Transaction -> Scope]
  /\ TxOf \in [Message -> Transaction]
  /\ NoTransaction \notin Transaction
  /\ NoMessage \notin Message
  /\ Capacity \in Nat \ {0}
  /\ MaxRetries \in Nat
  /\ MaxFaults \in Nat

VARIABLES
  tracking,   \* TRUE: EF Core publisher; FALSE: direct SQL publisher; never changes
  tx,         \* Transaction -> "none", "open", "committed" or "rolledBack"
  insertedIn, \* Message -> the transaction that INSERTed it, or NoTransaction
  tracked,    \* messages Added to the OutboxDbContext of their scope, not saved yet
  published,  \* history: messages whose PublishAsync has returned
  channel,    \* ids in the channel, oldest first
  handler,    \* Handler -> the message it is at work on, or NoMessage
  locked,     \* handlers whose TryLockByIdAsync has returned the message
  hotInFlight,\* _hotInFlight
  cold,       \* Instance -> progress of RunColdPathAsync
  skip,       \* Instance -> the skipIds snapshot
  batch,      \* Instance -> messages of its batch still at work
  faults,
  notified,   \* history: the ids written to this process's channel, in order
  lost,       \* history: messages whose hint was lost to overflow or a failure
  taken       \* history: messages that some instance has locked

caller == <<tracking, tx, insertedIn, tracked, published>>
hot == <<channel, handler, locked, hotInFlight>>
coldPath == <<cold, skip, batch>>
history == <<notified, lost, taken>>
vars == <<row, caller, hot, coldPath, faults, history>>

Init ==
  /\ tracking \in BOOLEAN
  /\ StoreInit
  /\ tx = [t \in Transaction |-> "none"]
  /\ insertedIn = [m \in Message |-> NoTransaction]
  /\ tracked = {} /\ published = {}
  /\ channel = <<>>
  /\ handler = [h \in Handler |-> NoMessage]
  /\ locked = {}
  /\ hotInFlight = {}
  /\ cold = [i \in Instance |-> "idle"]
  /\ skip = [i \in Instance |-> {}]
  /\ batch = [i \in Instance |-> {}]
  /\ faults = 0
  /\ notified = <<>> /\ lost = {} /\ taken = {}

Fault == faults < MaxFaults /\ faults' = faults + 1

SameScope(t, u) == ScopeOf[t] = ScopeOf[u]

-----------------------------------------------------------------------------
(* The channel *)

\* Mutant: BoundedChannelFullMode.DropNewest.
NotifyDroppingNewest(m) ==
  /\ channel' = IF Len(channel) < Capacity THEN Append(channel, m)
                ELSE [channel EXCEPT ![Len(channel)] = m]
  /\ lost' = IF Len(channel) < Capacity THEN lost ELSE lost \cup {channel[Len(channel)]}
  /\ notified' = Append(notified, m)

\* TryWrite under DropOldest: never blocks, drops the head of a full channel.
Notify(m) ==
  /\ channel' = Append(IF Len(channel) < Capacity THEN channel ELSE Tail(channel), m)
  /\ lost' = IF Len(channel) < Capacity THEN lost ELSE lost \cup {Head(channel)}
  /\ notified' = Append(notified, m)

(* IOutboxPublisher.PublishAsync and the caller's transaction *)

IsInserted(m) == insertedIn[m] # NoTransaction

NotPublished(m) == m \notin tracked /\ ~IsInserted(m) /\ tx[TxOf[m]] = "open"

Begin(t) ==
  /\ tx[t] = "none"
  /\ \A u \in Transaction : SameScope(u, t) => tx[u] # "open"
  /\ tx' = [tx EXCEPT ![t] = "open"]
  /\ UNCHANGED <<tracking, row, insertedIn, tracked, published, hot, coldPath, faults, history>>

\* Mutant: UseTransactionAsync is missing, the INSERT commits by itself.
EfCorePublishAlone(m) ==
  /\ tracking /\ NotPublished(m)
  /\ insertedIn' = [insertedIn EXCEPT ![m] = TxOf[m]]
  /\ row' = [row EXCEPT ![m] = NewRow]
  /\ published' = published \cup {m}
  /\ Notify(m)
  /\ UNCHANGED <<tracking, tx, tracked, handler, locked, hotInFlight, coldPath, faults, taken>>

\* What the OutboxDbContext of t's scope still tracks of calls that failed.
Leftover(t) == {m \in tracked : SameScope(TxOf[m], t)}

\* SaveChangesAsync inserts every tracked entity, also those that an earlier call
\* of the scope added and failed to save, perhaps in a transaction that is over by
\* now; only its own message is notified.
EfCorePublish(m) ==
  /\ tracking /\ NotPublished(m)
  /\ insertedIn' = [n \in Message |-> IF n \in Leftover(TxOf[m]) \cup {m} THEN TxOf[m]
                                     ELSE insertedIn[n]]
  /\ tracked' = tracked \ Leftover(TxOf[m])
  /\ published' = published \cup {m}
  /\ Notify(m)
  /\ UNCHANGED <<tracking, row, tx, handler, locked, hotInFlight, coldPath, faults, taken>>

DirectSqlPublish(m) ==
  /\ ~tracking /\ NotPublished(m)
  /\ insertedIn' = [insertedIn EXCEPT ![m] = TxOf[m]]
  /\ published' = published \cup {m}
  /\ Notify(m)
  /\ UNCHANGED <<tracking, row, tx, tracked, handler, locked, hotInFlight, coldPath, faults, taken>>

\* The INSERT throws, to a caller that may go on with its transaction, or roll it
\* back and go on with another one of its scope.
PublishFails(m) ==
  /\ Fault /\ NotPublished(m)
  /\ tracked' = IF tracking THEN tracked \cup {m} ELSE tracked
  /\ UNCHANGED <<tracking, row, tx, insertedIn, published, hot, coldPath, history>>

\* The change tracker of the scope outlives its transactions.
Commit(t) ==
  /\ tx[t] = "open"
  /\ tx' = [tx EXCEPT ![t] = "committed"]
  /\ row' = [m \in Message |-> IF insertedIn[m] = t THEN NewRow ELSE row[m]]
  /\ UNCHANGED <<tracking, insertedIn, tracked, published, hot, coldPath, faults, history>>

Rollback(t) ==
  /\ tx[t] = "open"
  /\ tx' = [tx EXCEPT ![t] = "rolledBack"]
  /\ UNCHANGED <<tracking, row, insertedIn, tracked, published, hot, coldPath, faults, history>>

-----------------------------------------------------------------------------
(* RunHotPathAsync *)

\* Mutant: the finally block is missing.
HandlerKeepsEntry(h) ==
  /\ handler' = [handler EXCEPT ![h] = NoMessage]
  /\ locked' = locked \ {h}
  /\ UNCHANGED hotInFlight

\* TryProcessByIdAsync returns or throws; the finally block runs.
HandlerEnds(h) ==
  /\ handler' = [handler EXCEPT ![h] = NoMessage]
  /\ locked' = locked \ {h}
  /\ hotInFlight' = hotInFlight \ {handler[h]}

TakeHint(h) ==
  /\ handler[h] = NoMessage /\ channel # <<>>
  /\ handler' = [handler EXCEPT ![h] = Head(channel)]
  /\ hotInFlight' = hotInFlight \cup {Head(channel)}
  /\ channel' = Tail(channel)
  /\ UNCHANGED <<row, caller, locked, coldPath, faults, history>>

Waiting(h) == handler[h] # NoMessage /\ h \notin locked

\* Mutant: the statement does not wait for the publisher's transaction.
NeverBlocked(m) == FALSE

\* The row of an uncommitted INSERT is locked by the publisher's transaction.
Blocked(m) == IsInserted(m) /\ tx[insertedIn[m]] = "open"

\* TryLockByIdAsync: a PK seek that waits for the publisher's transaction.
LockHinted(h) ==
  /\ Waiting(h) /\ ~Blocked(handler[h])
  /\ TryLockById(Self, handler[h])
  /\ IF LockableById(row[handler[h]])
     THEN /\ locked' = locked \cup {h}
          /\ taken' = taken \cup {handler[h]}
          /\ UNCHANGED <<handler, hotInFlight>>
     ELSE HandlerEnds(h) /\ UNCHANGED taken
  /\ UNCHANGED <<caller, channel, coldPath, faults, notified, lost>>

\* The wait outlives the command timeout, or the statement fails.
LockHintedFails(h) ==
  /\ Fault /\ Waiting(h)
  /\ HandlerEnds(h)
  /\ lost' = lost \cup {handler[h]}
  /\ UNCHANGED <<row, caller, channel, coldPath, notified, taken>>

\* What the pipeline may have done with m when instance i is through with it.
Ended(i, m) ==
  \/ MarkAsProcessed(i, m) /\ UNCHANGED faults
  \/ MarkAsDeadLettered(i, m) /\ UNCHANGED faults
  \/ row[m].retryCount < MaxRetries /\ IncrementRetry(i, m) /\ UNCHANGED faults
  \/ Fault /\ UNCHANGED row

FinishHinted(h) ==
  /\ h \in locked
  /\ Ended(Self, handler[h])
  /\ HandlerEnds(h)
  /\ UNCHANGED <<caller, channel, coldPath, history>>

-----------------------------------------------------------------------------
(* RunColdPathAsync *)

Snapshot(i) ==
  /\ cold[i] = "idle"
  /\ cold' = [cold EXCEPT ![i] = "lock"]
  /\ skip' = [skip EXCEPT ![i] = IF i = Self THEN hotInFlight ELSE {}]
  /\ \/ ReleaseExpiredLocks
     \/ UNCHANGED row
  /\ UNCHANGED <<caller, hot, batch, faults, history>>

\* Mutant: without READPAST the statement waits for the rows of open transactions.
LockBatchWaiting(i) ==
  /\ cold[i] = "lock" /\ \A m \in Message : ~Blocked(m)
  /\ \E ms \in SUBSET Message :
       /\ LockNextBatch(i, skip[i], ms)
       /\ batch' = [batch EXCEPT ![i] = ms]
       /\ taken' = taken \cup ms
       /\ cold' = [cold EXCEPT ![i] = IF ms = {} THEN "idle" ELSE "work"]
  /\ skip' = [skip EXCEPT ![i] = {}]
  /\ UNCHANGED <<caller, hot, faults, notified, lost>>

\* READPAST: rows of open transactions are not seen.
LockBatch(i) ==
  /\ cold[i] = "lock"
  /\ \E ms \in SUBSET Message :
       /\ LockNextBatch(i, skip[i], ms)
       /\ batch' = [batch EXCEPT ![i] = ms]
       /\ taken' = taken \cup ms
       /\ cold' = [cold EXCEPT ![i] = IF ms = {} THEN "idle" ELSE "work"]
  /\ skip' = [skip EXCEPT ![i] = {}]
  /\ UNCHANGED <<caller, hot, faults, notified, lost>>

FinishOfBatch(i, m) ==
  /\ m \in batch[i]
  /\ Ended(i, m)
  /\ batch' = [batch EXCEPT ![i] = @ \ {m}]
  /\ cold' = [cold EXCEPT ![i] = IF batch[i] = {m} THEN "idle" ELSE "work"]
  /\ UNCHANGED <<caller, hot, skip, history>>

(* Process Self stops and starts again *)

Crash ==
  /\ Fault
  /\ tx' = [t \in Transaction |-> IF tx[t] = "open" THEN "rolledBack" ELSE tx[t]]
  /\ tracked' = {}
  /\ channel' = <<>>
  /\ handler' = [h \in Handler |-> NoMessage]
  /\ locked' = {} /\ hotInFlight' = {}
  /\ cold' = [cold EXCEPT ![Self] = "idle"]
  /\ skip' = [skip EXCEPT ![Self] = {}]
  /\ batch' = [batch EXCEPT ![Self] = {}]
  /\ notified' = <<>>
  /\ UNCHANGED <<tracking, row, insertedIn, published, lost, taken>>

Clock(m) ==
  /\ LeaseExpires(m) \/ RetryDue(m)
  /\ UNCHANGED <<caller, hot, coldPath, faults, history>>

-----------------------------------------------------------------------------
Publish(m) == EfCorePublish(m) \/ DirectSqlPublish(m)

HandlerStep(h) == LockHinted(h) \/ FinishHinted(h)

ColdStep(i) == Snapshot(i) \/ LockBatch(i) \/ \E m \in Message : FinishOfBatch(i, m)

Next ==
  \/ \E m \in Message : Publish(m) \/ PublishFails(m) \/ Clock(m)
  \/ \E t \in Transaction : Begin(t) \/ Commit(t) \/ Rollback(t)
  \/ \E h \in Handler : TakeHint(h) \/ HandlerStep(h) \/ LockHintedFails(h)
  \/ \E i \in Instance : ColdStep(i)
  \/ Crash

Spec == Init /\ [][Next]_vars

\* The loops run and the clock passes.  Callers owe nothing: a transaction may
\* stay open for ever, and a handler wait for it.
Fairness ==
  /\ \A h \in Handler : WF_vars(HandlerStep(h))
  /\ \A i \in Instance : WF_vars(ColdStep(i))
  /\ \A m \in Message : WF_vars(Clock(m))

FairSpec == Spec /\ Fairness

-----------------------------------------------------------------------------
(* Properties *)

\* Rows, loops and channel hold values of their types.
PublishingTypeOK ==
  /\ tracking \in BOOLEAN
  /\ StoreTypeOK
  /\ tx \in [Transaction -> {"none", "open", "committed", "rolledBack"}]
  /\ insertedIn \in [Message -> Transaction \cup {NoTransaction}]
  /\ tracked \subseteq Message /\ published \subseteq Message
  /\ channel \in Seq(Message) /\ Len(channel) <= Capacity
  /\ handler \in [Handler -> Message \cup {NoMessage}]
  /\ locked \subseteq Handler
  /\ hotInFlight \subseteq Message
  /\ cold \in [Instance -> {"idle", "lock", "work"}]
  /\ skip \in [Instance -> SUBSET Message]
  /\ batch \in [Instance -> SUBSET Message]
  /\ faults \in 0..MaxFaults
  /\ notified \in Seq(Message) /\ lost \subseteq Message /\ taken \subseteq Message

\* Overflow costs the oldest hints and keeps the order of the others: the channel
\* is always the most recent part of what was notified (ChannelOutboxSignal).
OldestHintsDropped ==
  \A k \in 1..Len(channel) :
    channel[k] = notified[Len(notified) - Len(channel) + k]

\* Although Notify runs before the caller commits, no hint is used up in vain: a
\* notified message that is committed and that nobody has locked yet is still in
\* the channel or with a handler, unless its hint was lost to overflow, to a
\* failed statement or to a stop of the process (which starts notified afresh).
Hinted(m) == \E k \in 1..Len(notified) : notified[k] = m

HintCoversCommit ==
  \A m \in Message :
    Hinted(m) /\ row[m] = NewRow /\ m \notin lost \cup taken =>
      \/ \E k \in 1..Len(channel) : channel[k] = m
      \/ \E h \in Handler : handler[h] = m

\* The set the cold path skips is exact between awaits: it holds the messages the
\* handlers have, so a message leaves it when its handler ends in whatever way,
\* and no two handlers share an entry, which the first to end would remove.
InFlightExact ==
  /\ hotInFlight = {handler[h] : h \in Handler} \ {NoMessage}
  /\ \A g, h \in Handler : g # h /\ handler[g] # NoMessage => handler[g] # handler[h]

\* Both happen or neither: a message whose PublishAsync returned is in the table
\* exactly when the transaction of the call has committed.  A message whose
\* PublishAsync threw is there only with a publisher that tracks it, and only
\* through a later call of the same scope that returned and whose transaction
\* committed.  A hot handler never works on a message that is not in the table,
\* although its hint may be there long before.
Present(m) == row[m].status # "Absent"

BothOrNeither ==
  /\ \A m \in published : Present(m) <=> tx[TxOf[m]] = "committed"
  /\ \A m \in Message \ published :
       Present(m) => /\ tracking
                     /\ \E n \in published : /\ SameScope(TxOf[n], TxOf[m])
                                            /\ tx[TxOf[n]] = "committed"
  /\ \A h \in locked : Present(handler[h])

\* No committed message is lost: whatever becomes of its hint - never notified,
\* dropped, stuck behind a handler that waits for another caller's transaction, gone
\* with the process - it reaches a terminal state (README: "No message is ever lost").
CommittedIsSettled ==
  \A m \in Message :
    (IsInserted(m) /\ tx[insertedIn[m]] = "committed") ~> row[m].status \in Terminal

\* docs/architecture.md: "If it rolls back, the message disappears with the order."
RolledBackIsGone ==
  \A m \in Message : tx[TxOf[m]] = "rolledBack" => ~Present(m)

\* README: "After the transaction commits, the publisher calls _signal.Notify".
NotifyFollowsCommit ==
  [][\A m \in Message : notified' = Append(notified, m) => tx[TxOf[m]] = "committed"]_vars
=============================================================================
