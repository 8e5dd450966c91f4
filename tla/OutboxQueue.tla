---------------------------- MODULE OutboxQueue ----------------------------
(***************************************************************************)
(* ProcessingMode.QueueMediated: locked messages are handed, one after the *)
(* other, to an IMessagePublisher (Azure Storage Queue) and then marked as *)
(* processed.  Without a registered publisher ProcessBatchAsync falls back *)
(* to direct delivery, and TryProcessByIdAsync does nothing; Init leaves   *)
(* open whether there is one.                                              *)
(***************************************************************************)
EXTENDS OutboxStore

CONSTANTS
  ColdWorker,    \* RunColdPathAsync loops
  HotWorker,     \* handlers of RunHotPathAsync's ForEachAsync
  Host,          \* worker -> the Instance it runs in
  NoMessage,
  MaxRetries,    \* RetryPolicyOptions.MaxRetries
  MaxFaults,     \* bound: statements that throw, processes that stop
  MaxOverruns    \* bound: locks that expire while a worker has the message

Worker == ColdWorker \cup HotWorker

ASSUME QueueAssumption ==
  /\ Host \in [Worker -> Instance]
  /\ ColdWorker \cap HotWorker = {}
  /\ NoMessage \notin Message
  /\ MaxRetries \in Nat /\ MaxFaults \in Nat /\ MaxOverruns \in Nat

VARIABLES
  hasPublisher, \* an IMessagePublisher is registered; never changes
  queue,      \* Message -> copies in the storage queue (2: or more)
  hint,       \* Message -> instance whose channel holds its id, or NoInstance
  step,       \* Worker -> where it is
  skip,       \* ColdWorker -> the skipIds snapshot
  rest,       \* Worker -> messages it has locked and not begun
  cur,        \* Worker -> the message it is at work on, or NoMessage
  snapshot,   \* Worker -> Message -> RetryCount when the row was locked
  faults, overruns,
  disturbed   \* history: messages that may have been sent without anyone knowing

worker == <<step, rest, cur, snapshot>>
budget == <<faults, overruns>>
vars == <<hasPublisher, row, queue, hint, skip, worker, budget, disturbed>>

Step == {"idle", "lock", "trylock", "next", "publish", "direct", "mark", "failure"}

Init ==
  /\ hasPublisher \in BOOLEAN
  /\ row = [m \in Message |-> NewRow]
  /\ queue = [m \in Message |-> 0]
  /\ hint \in [Message -> Instance \cup {NoInstance}]
  /\ step = [w \in Worker |-> "idle"]
  /\ skip = [w \in ColdWorker |-> {}]
  /\ rest = [w \in Worker |-> {}]
  /\ cur = [w \in Worker |-> NoMessage]
  /\ snapshot = [w \in Worker |-> [m \in Message |-> 0]]
  /\ faults = 0 /\ overruns = 0
  /\ disturbed = {}

Fault == faults < MaxFaults /\ faults' = faults + 1

Goto(w, s) == step' = [step EXCEPT ![w] = s]

\* A worker has m: locked and not begun, or at work on it.
Has(w, m) == m \in rest[w] \/ (cur[w] = m /\ step[w] # "trylock")

-----------------------------------------------------------------------------
(* ProcessBatchAsync and TryProcessByIdAsync *)

\* _hotInFlight of process i.
InFlight(i) ==
  {m \in Message : \E w \in HotWorker : Host[w] = i /\ (cur[w] = m \/ m \in rest[w])}

ReleaseLocks(w) ==
  /\ w \in ColdWorker /\ step[w] = "idle"
  /\ Goto(w, "lock")
  /\ skip' = [skip EXCEPT ![w] = InFlight(Host[w])]
  /\ ReleaseExpiredLocks \/ UNCHANGED row
  /\ UNCHANGED <<hasPublisher, queue, hint, rest, cur, snapshot, budget, disturbed>>

LockBatch(w) ==
  /\ step[w] = "lock"
  /\ \E ms \in SUBSET Message :
       /\ LockNextBatch(Host[w], skip[w], ms)
       /\ rest' = [rest EXCEPT ![w] = ms]
       /\ Goto(w, IF ms = {} THEN "idle" ELSE "next")
       /\ snapshot' = [snapshot EXCEPT ![w] =
                         [m \in Message |-> IF m \in ms THEN row[m].retryCount ELSE 0]]
  /\ skip' = [skip EXCEPT ![w] = {}]
  /\ UNCHANGED <<hasPublisher, queue, hint, cur, budget, disturbed>>

TakeHint(w, m) ==
  /\ w \in HotWorker /\ step[w] = "idle"
  /\ hint[m] = Host[w]
  /\ hint' = [hint EXCEPT ![m] = NoInstance]
  /\ cur' = [cur EXCEPT ![w] = m]
  /\ Goto(w, "trylock")
  /\ UNCHANGED <<hasPublisher, row, queue, skip, rest, snapshot, budget, disturbed>>

\* With a null publisher the method returns true and leaves the row locked.
LockHinted(w) ==
  LET m == cur[w]
      mine == hasPublisher /\ LockableById(row[m]) IN
  /\ step[w] = "trylock"
  /\ TryLockById(Host[w], m)
  /\ cur' = [cur EXCEPT ![w] = NoMessage]
  /\ rest' = [rest EXCEPT ![w] = IF mine THEN {m} ELSE {}]
  /\ snapshot' = [snapshot EXCEPT ![w][m] = IF mine THEN row[m].retryCount ELSE 0]
  /\ Goto(w, IF mine THEN "next" ELSE "idle")
  /\ UNCHANGED <<hasPublisher, queue, hint, skip, budget, disturbed>>

(* ProcessQueueMediatedAsync: foreach over the messages, in the order returned *)

NextMessage(w) ==
  /\ step[w] = "next"
  /\ \E m \in rest[w] :
       /\ cur' = [cur EXCEPT ![w] = m]
       /\ rest' = [rest EXCEPT ![w] = @ \ {m}]
  /\ Goto(w, IF hasPublisher THEN "publish" ELSE "direct")
  /\ UNCHANGED <<hasPublisher, row, queue, hint, skip, snapshot, budget, disturbed>>

Sent(m) == queue' = [queue EXCEPT ![m] = IF @ = 0 THEN 1 ELSE 2]

Publish(w) ==
  /\ step[w] = "publish"
  /\ Sent(cur[w])
  /\ Goto(w, "mark")
  /\ UNCHANGED <<hasPublisher, row, hint, skip, rest, cur, snapshot, budget, disturbed>>

\* Mutant: an exception of the publisher is logged and otherwise ignored.
PublishThrowsUnheard(w) ==
  /\ step[w] = "publish"
  /\ Goto(w, "mark")
  /\ UNCHANGED <<hasPublisher, row, queue, hint, skip, rest, cur, snapshot, budget, disturbed>>

\* SendMessageAsync throws; after a timeout the queue may have the message.
PublishThrows(w) ==
  /\ step[w] = "publish"
  /\ Goto(w, "failure")
  /\ \/ UNCHANGED <<queue, disturbed>>
     \/ Sent(cur[w]) /\ disturbed' = disturbed \cup {cur[w]}
  /\ UNCHANGED <<hasPublisher, row, hint, skip, rest, cur, snapshot, budget>>

\* Direct delivery of a batch without publisher: the message is through or has
\* failed.  OutboxPipeline has the details.
DeliverDirectly(w) ==
  /\ step[w] = "direct"
  /\ Goto(w, "mark") \/ Goto(w, "failure")
  /\ UNCHANGED <<hasPublisher, row, queue, hint, skip, rest, cur, snapshot, budget, disturbed>>

\* Mutant: a message that is done with ends the loop over the batch.
DoneWithBatch(w) ==
  /\ cur' = [cur EXCEPT ![w] = NoMessage]
  /\ snapshot' = [snapshot EXCEPT ![w][cur[w]] = 0]
  /\ rest' = [rest EXCEPT ![w] = {}]
  /\ Goto(w, "idle")

Done(w) ==
  /\ cur' = [cur EXCEPT ![w] = NoMessage]
  /\ snapshot' = [snapshot EXCEPT ![w][cur[w]] = 0]
  /\ rest' = rest
  /\ Goto(w, IF rest[w] = {} THEN "idle" ELSE "next")

Mark(w) ==
  /\ step[w] = "mark"
  /\ MarkAsProcessed(Host[w], cur[w])
  /\ Done(w)
  /\ UNCHANGED <<hasPublisher, queue, hint, skip, budget, disturbed>>

\* The message is in the queue, and the catch block schedules another sending, in
\* vain if the server had committed the mark and only its answer was lost.
MarkThrows(w) ==
  /\ Fault /\ hasPublisher /\ step[w] = "mark"
  /\ \/ UNCHANGED row /\ disturbed' = disturbed \cup {cur[w]}
     \/ MarkAsProcessed(Host[w], cur[w]) /\ UNCHANGED disturbed
  /\ Goto(w, "failure")
  /\ UNCHANGED <<hasPublisher, queue, hint, skip, rest, cur, snapshot, overruns>>

WriteFailure(w) ==
  IF snapshot[w][cur[w]] < MaxRetries
  THEN IncrementRetry(Host[w], cur[w])
  ELSE MarkAsDeadLettered(Host[w], cur[w])

HandleMessageFailure(w) ==
  /\ step[w] = "failure"
  /\ WriteFailure(w)
  /\ Done(w)
  /\ UNCHANGED <<hasPublisher, queue, hint, skip, budget, disturbed>>

-----------------------------------------------------------------------------
(* Faults and the clock *)

\* Messages of the workers in ws that have been sent and are not marked.  One whose
\* worker is at "failure" was not sent, or is disturbed already.
InDoubt(ws) == {cur[w] : w \in {v \in ws : step[v] = "mark"}}

Stop(ws) ==
  /\ step' = [w \in Worker |-> IF w \in ws THEN "idle" ELSE step[w]]
  /\ rest' = [w \in Worker |-> IF w \in ws THEN {} ELSE rest[w]]
  /\ cur' = [w \in Worker |-> IF w \in ws THEN NoMessage ELSE cur[w]]
  /\ snapshot' = [w \in Worker |-> IF w \in ws THEN [m \in Message |-> 0] ELSE snapshot[w]]
  /\ skip' = [w \in ColdWorker |-> IF w \in ws THEN {} ELSE skip[w]]
  /\ disturbed' = disturbed \cup InDoubt(ws)

\* A lock statement throws, or a status write of the catch block, whether or not the
\* server has committed it: the rest of the batch is abandoned with its locks.
StatementFails(w) ==
  /\ Fault
  /\ \/ step[w] \in {"lock", "trylock", "failure"} /\ UNCHANGED row
     \/ step[w] = "lock" /\ \E ms \in SUBSET Message : LockNextBatch(Host[w], skip[w], ms)
     \/ step[w] = "trylock" /\ TryLockById(Host[w], cur[w])
     \/ step[w] = "failure" /\ WriteFailure(w)
  /\ Stop({w})
  /\ UNCHANGED <<hasPublisher, queue, hint, overruns>>

Crash(i) ==
  /\ Fault
  /\ Stop({w \in Worker : Host[w] = i})
  /\ hint' = [m \in Message |-> IF hint[m] = i THEN NoInstance ELSE hint[m]]
  /\ UNCHANGED <<hasPublisher, row, queue, overruns>>

AtWork(m) == \E w \in Worker : Has(w, m)

Expire(m) ==
  /\ LeaseExpires(m)
  /\ AtWork(m) => overruns < MaxOverruns
  /\ overruns' = IF AtWork(m) THEN overruns + 1 ELSE overruns
  /\ disturbed' = IF AtWork(m) THEN disturbed \cup {m} ELSE disturbed
  /\ UNCHANGED <<hasPublisher, queue, hint, skip, worker, faults>>

BecomeDue(m) ==
  /\ RetryDue(m)
  /\ UNCHANGED <<hasPublisher, queue, hint, skip, worker, budget, disturbed>>

-----------------------------------------------------------------------------
WorkerStep(w) ==
  \/ ReleaseLocks(w) \/ LockBatch(w) \/ LockHinted(w) \/ NextMessage(w)
  \/ Publish(w) \/ PublishThrows(w) \/ DeliverDirectly(w)
  \/ Mark(w) \/ HandleMessageFailure(w)

Next ==
  \/ \E w \in Worker : WorkerStep(w) \/ MarkThrows(w) \/ StatementFails(w)
  \/ \E w \in Worker, m \in Message : TakeHint(w, m)
  \/ \E i \in Instance : Crash(i)
  \/ \E m \in Message : Expire(m) \/ BecomeDue(m)

Spec == Init /\ [][Next]_vars

\* Workers keep running, and the clock keeps passing.
Fairness ==
  /\ \A w \in Worker : WF_vars(WorkerStep(w))
  /\ \A m \in Message : WF_vars(Expire(m)) /\ WF_vars(BecomeDue(m))

FairSpec == Spec /\ Fairness

-----------------------------------------------------------------------------
(* Properties *)

\* Rows and workers hold values of their types.
QueueTypeOK ==
  /\ hasPublisher \in BOOLEAN
  /\ StoreTypeOK
  /\ queue \in [Message -> 0..2]
  /\ hint \in [Message -> Instance \cup {NoInstance}]
  /\ step \in [Worker -> Step]
  /\ skip \in [ColdWorker -> SUBSET Message]
  /\ rest \in [Worker -> SUBSET Message]
  /\ cur \in [Worker -> Message \cup {NoMessage}]
  /\ snapshot \in [Worker -> [Message -> Nat]]
  /\ faults \in 0..MaxFaults /\ overruns \in 0..MaxOverruns
  /\ disturbed \subseteq Message

\* A message is sent twice only if a lock expired under its worker, a send or a
\* mark failed after the queue had the message, or a process stopped between the
\* two.  Sends that failed cleanly, abandoned batches and stale skip lists do not
\* duplicate.
DuplicateOnlyIfInDoubt == \A m \in Message : queue[m] = 2 => m \in disturbed

\* A dead letter was not sent: an operator may replay it without a duplicate, the
\* cases in doubt excepted.
DeadLetterNotSent ==
  \A m \in Message :
    row[m].status = "DeadLettered" /\ m \notin disturbed => queue[m] = 0

\* IOutboxProcessor.TryProcessByIdAsync: "Returns true if this instance
\* successfully locked the message and started delivery": a held lock means that
\* a worker has the message.  Without a publisher the hot path breaks this.
LocksStartDelivery ==
  \A m \in Message : LockHeld(row[m]) => \E w \in Worker : Has(w, m)

\* With a publisher, and unless a statement failed or a process stopped, no lock
\* is left to its expiry: the loop over a batch survives the failures of single
\* messages (ProcessQueueMediatedAsync).
LockedIsWorkedOn == faults = 0 /\ hasPublisher => LocksStartDelivery

Outcome(r) ==
  CASE r.status = "Delivered" -> "delivered"
    [] r.status = "DeadLettered" -> "dead"
    [] OTHER -> "open"

\* The queue takes the place of the endpoints: it is the only subscriber, wanted
\* when there is a publisher, and to have the message is to acknowledge it.
Promise == INSTANCE OutboxPromise WITH
  Subscription <- {"queue"},
  outcome <- [m \in Message |-> Outcome(row[m])],
  acked   <- [m \in Message |-> IF queue[m] = 0 THEN {} ELSE {"queue"}],
  wanted  <- IF hasPublisher THEN {"queue"} ELSE {}

\* Queue-mediated processing keeps the same promise as direct delivery: every
\* message is settled once, and marked Delivered only when the queue has it.
QueueKeepsPromise == Promise!PromiseSpec
=============================================================================
