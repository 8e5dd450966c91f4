--------------------------- MODULE OutboxPipeline ---------------------------
(***************************************************************************)
(* Direct delivery: OutboxProcessingPipeline driven by OutboxProcessorService *)
(* (a cold polling loop and several hot-path handlers per process) or by the  *)
(* Functions timer, on the tables OutboxMessages and DeliveryAttempts.        *)
(*                                                                            *)
(* A worker is one flow of control that calls the pipeline: a cold loop, a    *)
(* timer invocation or one hot-path handler.  job[w][m] is w's execution of   *)
(* ProcessSingleMessageAsync for m; the jobs of one batch run in parallel.    *)
(* Every await of a database statement or of an HTTP exchange is a step.      *)
(* Infrastructure faults (a statement or a deliverer throws, the answer of a  *)
(* committed statement is lost, a process stops) are bounded by MaxFaults;    *)
(* MaxOverruns bounds how often a lock outlives its VisibilityTimeout while   *)
(* its job is still at work.                                                  *)
(***************************************************************************)
EXTENDS OutboxStore

CONSTANTS
  Subscription,
  ColdWorker,     \* RunColdPathAsync loops
  TimerWorker,    \* OutboxTimerFunction invocations: no skipIds
  HotWorker,      \* handlers of RunHotPathAsync's ForEachAsync
  Host,           \* worker -> the Instance it runs in
  MaxRetries,     \* RetryPolicyOptions.MaxRetries
  SubMaxRetries,  \* Subscription -> WebhookSubscription.MaxRetries
  Deactivatable,  \* subscriptions an administrator may deactivate
  ReaderMayTimeOut,  \* the ISubscriptionReader may throw OperationCanceledException
  MaxFaults,      \* bound
  MaxOverruns     \* bound

Worker == ColdWorker \cup TimerWorker \cup HotWorker
BatchWorker == ColdWorker \cup TimerWorker

ASSUME PipelineAssumption ==
  /\ IsFiniteSet(Subscription)
  /\ Host \in [Worker -> Instance]
  /\ HotWorker \cap BatchWorker = {}
  /\ MaxRetries \in Nat
  /\ SubMaxRetries \in [Subscription -> Nat]
  /\ Deactivatable \subseteq Subscription
  /\ ReaderMayTimeOut \in BOOLEAN
  /\ MaxFaults \in Nat
  /\ MaxOverruns \in Nat

VARIABLES
  attempts,   \* the DeliveryAttempts table: Message -> set of Attempt
  active,     \* subscriptions with IsActive = 1
  hint,       \* Message -> instance whose channel holds its id, or NoInstance
  pc,         \* progress of each batch worker towards its next batch
  skip,       \* the skipIds snapshot each batch worker passes on
  stopped,    \* workers whose loop has returned: until the process restarts
  job,        \* Worker -> Message -> Job
  cancelled,  \* workers whose ForEachAsync is cancelling the other jobs
  faults, overruns,   \* events used up, of MaxFaults and MaxOverruns
  acks,       \* history: 2xx answers per message and subscription (2: or more)
  disturbed   \* history: messages for which a delivery result may have been lost

work == <<job, cancelled>>
poll == <<pc, skip, stopped>>
tables == <<row, attempts, active>>
history == <<acks, disturbed>>
budget == <<faults, overruns>>
vars == <<tables, hint, poll, work, budget, history>>

\* A DeliveryAttempts row.  Its primary key is the hash of (message, sub, number).
Attempt == [sub : Subscription, number : Nat, success : BOOLEAN]

Phase == {"idle", "trylock", "subs", "states", "deliver", "save",
          "processed", "failure", "dead"}

Job == [phase      : Phase,
        retryCount : Nat,                   \* RetryCount when the row was locked
        subs       : SUBSET Subscription,   \* subscriptions read
        done       : SUBSET Subscription,   \* states: HasSuccess
        count      : [Subscription -> Nat], \* states: AttemptCount
        new        : SUBSET Attempt,        \* newAttempts
        current    : BOOLEAN]               \* history: the row's last lock is this job's

NoJob == [phase |-> "idle", retryCount |-> 0, subs |-> {}, done |-> {},
          count |-> [s \in Subscription |-> 0], new |-> {}, current |-> FALSE]

NewJob(m) == [NoJob EXCEPT !.phase = "subs", !.retryCount = row[m].retryCount,
                           !.current = TRUE]

Busy(w, m) == job[w][m].phase # "idle"
Idle(w) == \A m \in Message : ~Busy(w, m)

\* _hotInFlight of process i.
HotInFlight(i) ==
  {m \in Message : \E w \in HotWorker : Host[w] = i /\ Busy(w, m)}

\* A hint in a channel that no handler reads is as good as none.
Init ==
  /\ row = [m \in Message |-> NewRow]
  /\ attempts = [m \in Message |-> {}]
  /\ active = Subscription
  /\ hint \in [Message -> {Host[w] : w \in HotWorker} \cup {NoInstance}]
  /\ pc = [w \in BatchWorker |-> "idle"]
  /\ skip = [w \in BatchWorker |-> {}]
  /\ stopped = {}
  /\ job = [w \in Worker |-> [m \in Message |-> NoJob]]
  /\ cancelled = {}
  /\ faults = 0 /\ overruns = 0
  /\ acks = [m \in Message |-> [s \in Subscription |-> 0]]
  /\ disturbed = {}

-----------------------------------------------------------------------------
(* Jobs *)

\* The jobs on the messages of ms are no longer the holders of the latest lock.
Superseded(ms) ==
  [w \in Worker |-> [m \in Message |->
     IF m \in ms THEN [job[w][m] EXCEPT !.current = FALSE] ELSE job[w][m]]]

SetJob(w, m, j) == job' = [job EXCEPT ![w][m] = j]
EndJob(w, m) == SetJob(w, m, NoJob)

Subs(new) == {a.sub : a \in new}
Succeeded(j) == j.done \cup Subs({a \in j.new : a.success})
Failed(j) == Subs({a \in j.new : ~a.success})
\* Mutant: one attempt too few.
ExhaustedAtLimit(j) == {s \in j.subs \ j.done : j.count[s] >= SubMaxRetries[s]}

Exhausted(j) == {s \in j.subs \ j.done : j.count[s] > SubMaxRetries[s]}
ToDeliver(j) == j.subs \ (j.done \cup Exhausted(j) \cup Subs(j.new))

\* Mutant: an attempt that failed does not count.
DecisionIgnoringFailures(j) == IF Exhausted(j) # {} THEN "dead" ELSE "processed"

\* The decision phase: what the counters of the delivery outcome lead to.
Decision(j) ==
  IF Failed(j) # {} THEN "failure"
  ELSE IF Exhausted(j) # {} THEN "dead" ELSE "processed"

\* Parallel.ForEachAsync over the subscriptions ends when none is left.
Delivered(j) ==
  [j EXCEPT !.phase = IF ToDeliver(j) # {} THEN "deliver"
                      ELSE IF j.new # {} THEN "save" ELSE Decision(j)]

\* Unhandled exceptions of a cold job leave ProcessSingleMessageAsync and cancel
\* the siblings; the hot path logs them, the decision phase swallows them.
MayEscape(w, j) == w \in BatchWorker /\ j.new = {} /\
  (j.phase = "failure" \/ (j.phase = "processed" /\ j.subs = {}))

\* A job that stops while delivering or saving forgets what it delivered.
LosesResults(ws) ==
  {m \in Message : \E w \in ws : job[w][m].phase \in {"deliver", "save"}}

-----------------------------------------------------------------------------
(* ProcessBatchAsync *)

\* RunColdPathAsync snapshots the in-flight set; the Functions timer passes none.
StartBatch(w) ==
  /\ pc[w] = "idle" /\ Idle(w) /\ w \notin stopped
  /\ pc' = [pc EXCEPT ![w] = "release"]
  /\ skip' = [skip EXCEPT ![w] = IF w \in ColdWorker THEN HotInFlight(Host[w]) ELSE {}]
  /\ cancelled' = cancelled \ {w}
  /\ UNCHANGED <<tables, hint, stopped, job, budget, history>>

\* At most every 30 s per process: whether it is time is left open.
ReleaseLocks(w) ==
  /\ pc[w] = "release"
  /\ pc' = [pc EXCEPT ![w] = "lock"]
  /\ \/ ReleaseExpiredLocks /\ job' = Superseded(ExpiredLocks)
     \/ UNCHANGED <<row, job>>
  /\ UNCHANGED <<attempts, active, hint, skip, stopped, cancelled, budget, history>>

Fault == faults < MaxFaults /\ faults' = faults + 1

\* The answer of a committed statement arrives, or the caller sees it fail.
Answered == UNCHANGED faults
AnswerLost == Fault

\* A lost answer leaves the batch locked with nobody at work on it.
LockBatch(w) ==
  /\ pc[w] = "lock"
  /\ pc' = [pc EXCEPT ![w] = "idle"]
  /\ \E batch \in SUBSET Message :
       /\ LockNextBatch(Host[w], skip[w], batch)
       /\ \/ /\ Answered
             /\ job' = [Superseded(batch) EXCEPT ![w] =
                          [m \in Message |-> IF m \in batch THEN NewJob(m) ELSE @[m]]]
          \/ AnswerLost /\ job' = Superseded(batch)
  /\ skip' = [skip EXCEPT ![w] = {}]
  /\ UNCHANGED <<attempts, active, hint, stopped, cancelled, overruns, history>>

(* TryProcessByIdAsync *)

\* RunHotPathAsync: a free handler reads an id from its process's channel.
TakeHint(w, m) ==
  /\ w \in HotWorker /\ Idle(w) /\ w \notin stopped
  /\ hint[m] = Host[w]
  /\ hint' = [hint EXCEPT ![m] = NoInstance]
  /\ SetJob(w, m, [NoJob EXCEPT !.phase = "trylock"])
  /\ UNCHANGED <<tables, poll, cancelled, budget, history>>

LockHinted(w, m) ==
  /\ job[w][m].phase = "trylock"
  /\ TryLockById(Host[w], m)
  /\ \/ Answered /\ IF LockableById(row[m])
                      THEN job' = [Superseded({m}) EXCEPT ![w][m] = NewJob(m)]
                      ELSE EndJob(w, m)
     \/ /\ AnswerLost /\ LockableById(row[m])
        /\ job' = [Superseded({m}) EXCEPT ![w][m] = NoJob]
  /\ UNCHANGED <<attempts, active, hint, poll, cancelled, overruns, history>>

(* Subscriptions: one read for all messages of a batch with the same route. *)

ReadSubscriptions(w) ==
  /\ \E m \in Message : job[w][m].phase = "subs"
  /\ job' = [job EXCEPT ![w] = [m \in Message |->
       IF @[m].phase # "subs" THEN @[m]
       ELSE [@[m] EXCEPT !.subs = active,
                         !.phase = IF active = {} THEN "processed" ELSE "states"]]]
  /\ UNCHANGED <<tables, hint, poll, cancelled, budget, history>>

-----------------------------------------------------------------------------
(* ProcessSingleMessageAsync *)

AttemptsOf(m, s) == {a \in attempts[m] : a.sub = s}

\* Mutant: HasSuccess is not read back.
ReadStatesWithoutSuccess(w, m) ==
  LET j == job[w][m] IN
  /\ j.phase = "states"
  /\ SetJob(w, m, Delivered([j EXCEPT
       !.count = [s \in Subscription |->
                    IF s \in j.subs THEN Cardinality(AttemptsOf(m, s)) ELSE 0]]))
  /\ UNCHANGED <<tables, hint, poll, cancelled, budget, history>>

ReadStates(w, m) ==
  LET j == job[w][m] IN
  /\ j.phase = "states"
  /\ SetJob(w, m, Delivered([j EXCEPT
       !.done  = {s \in j.subs : \E a \in AttemptsOf(m, s) : a.success},
       !.count = [s \in Subscription |->
                    IF s \in j.subs THEN Cardinality(AttemptsOf(m, s)) ELSE 0]]))
  /\ UNCHANGED <<tables, hint, poll, cancelled, budget, history>>

\* DeliverAsync returns a result for every answer, timeout or exception.  A 2xx of
\* the endpoint counts as failed when its answer, or the end of its body, is not
\* received within the subscription's timeout.
Deliver(w, m, s) ==
  LET j == job[w][m] IN
  /\ j.phase = "deliver"
  /\ s \in ToDeliver(j)
  /\ \E ok, received \in BOOLEAN :
       /\ SetJob(w, m, Delivered([j EXCEPT !.new = @ \cup
            {[sub |-> s, number |-> j.count[s] + 1, success |-> ok /\ received]}]))
       /\ acks' = IF ok THEN [acks EXCEPT ![m][s] = IF @ = 0 THEN 1 ELSE 2] ELSE acks
       /\ disturbed' = IF ok /\ ~received THEN disturbed \cup {m} ELSE disturbed
  /\ UNCHANGED <<tables, hint, poll, cancelled, budget>>

\* Mutant: DeliveryAttempts without its primary key.
KeyNeverCollides(m, new) == FALSE

\* Two attempts with one (sub, number) have the same primary key.
KeyCollision(m, new) ==
  \E a \in new, b \in attempts[m] : a.sub = b.sub /\ a.number = b.number

\* FK_DeliveryAttempts_OutboxMessages: the message of an attempt exists.
InsertRejected(m, new) == KeyCollision(m, new) \/ row[m].status \in {"Absent", "Purged"}

\* saved = false: a job with a success leaves its row locked to expire.
NotSaved(w, m) ==
  LET j == job[w][m] IN
  SetJob(w, m, IF Succeeded(j) # {} THEN NoJob ELSE [j EXCEPT !.phase = Decision(j)])

\* TrySaveAttemptsAsync: one INSERT for all attempts, all or none.
SaveAttempts(w, m) ==
  LET j == job[w][m] IN
  /\ j.phase = "save"
  /\ IF InsertRejected(m, j.new)
     THEN NotSaved(w, m) /\ UNCHANGED <<attempts, faults>>
     ELSE /\ attempts' = [attempts EXCEPT ![m] = @ \cup j.new]
          /\ \/ Answered /\ SetJob(w, m, [j EXCEPT !.phase = Decision(j)])
             \/ AnswerLost /\ NotSaved(w, m)
  /\ UNCHANGED <<row, active, hint, poll, cancelled, overruns, history>>

\* The exception of a status write that failed, or seems to have.
Escape(w, m) ==
  cancelled' = IF MayEscape(w, job[w][m]) THEN cancelled \cup {w} ELSE cancelled

\* A status write ends the job; if it affected the row, the lock is given up.
StatusWrite(w, m) ==
  /\ job' = [(IF Owns(Host[w], m) THEN Superseded({m}) ELSE job) EXCEPT ![w][m] = NoJob]
  /\ \/ Answered /\ UNCHANGED cancelled
     \/ AnswerLost /\ Escape(w, m)
  /\ UNCHANGED <<attempts, active, hint, poll, overruns, history>>

Processed(w, m) ==
  /\ job[w][m].phase = "processed"
  /\ MarkAsProcessed(Host[w], m)
  /\ StatusWrite(w, m)

\* Mutant: one retry too many.
HandleMessageFailureOnceMore(w, m) ==
  /\ job[w][m].phase = "failure"
  /\ IF job[w][m].retryCount <= MaxRetries
     THEN IncrementRetry(Host[w], m)
     ELSE MarkAsDeadLettered(Host[w], m)
  /\ StatusWrite(w, m)

\* HandleMessageFailureAsync; GetNextDelay is null from MaxRetries retries on.
HandleMessageFailure(w, m) ==
  /\ job[w][m].phase = "failure"
  /\ IF job[w][m].retryCount < MaxRetries
     THEN IncrementRetry(Host[w], m)
     ELSE MarkAsDeadLettered(Host[w], m)
  /\ StatusWrite(w, m)

DeadLetter(w, m) ==
  /\ job[w][m].phase = "dead"
  /\ MarkAsDeadLettered(Host[w], m)
  /\ StatusWrite(w, m)

-----------------------------------------------------------------------------
(* Faults *)

\* ReleaseExpiredLocksAsync or LockNextBatchAsync throws.
BatchFails(w) ==
  /\ Fault
  /\ pc[w] # "idle"
  /\ pc' = [pc EXCEPT ![w] = "idle"]
  /\ skip' = [skip EXCEPT ![w] = {}]
  /\ UNCHANGED <<tables, hint, stopped, work, overruns, history>>

\* No job of the batch has started: all its rows stay locked.
ReadSubscriptionsFails(w) ==
  /\ Fault
  /\ \E m \in Message : job[w][m].phase = "subs"
  /\ job' = [job EXCEPT ![w] = [m \in Message |->
                IF @[m].phase = "subs" THEN NoJob ELSE @[m]]]
  /\ UNCHANGED <<tables, hint, poll, cancelled, overruns, history>>

\* ForEachAsync over the channel ends with its first exception.
HandlersOf(w) == {v \in HotWorker : Host[v] = Host[w]}

\* An OperationCanceledException of the reader (or of the secret retriever it
\* calls) that is not a shutdown: the cold loop breaks; the hot path takes it for
\* one, returns, and its other handlers are cancelled; a timer invocation fails.
ReaderTimesOut(w) ==
  /\ Fault /\ ReaderMayTimeOut
  /\ \E m \in Message : job[w][m].phase = "subs"
  /\ job' = [job EXCEPT ![w] = [m \in Message |->
                IF @[m].phase = "subs" THEN NoJob ELSE @[m]]]
  /\ LET ended == IF w \in HotWorker THEN HandlersOf(w) ELSE {w} \cap ColdWorker IN
       /\ stopped' = stopped \cup ended
       /\ cancelled' = cancelled \cup (ended \ {w})
  /\ UNCHANGED <<tables, hint, pc, skip, overruns, history>>

ReadStatesFails(w, m) ==
  /\ Fault
  /\ job[w][m].phase = "states"
  /\ SetJob(w, m, [job[w][m] EXCEPT !.phase = "failure"])
  /\ UNCHANGED <<tables, hint, poll, cancelled, overruns, history>>

\* The attempts made before the exception are lost with the outcome.
DelivererThrows(w, m) ==
  /\ Fault
  /\ job[w][m].phase = "deliver"
  /\ SetJob(w, m, [job[w][m] EXCEPT !.phase = "failure", !.new = {}])
  /\ disturbed' = disturbed \cup {m}
  /\ UNCHANGED <<tables, hint, poll, cancelled, overruns, acks>>

SaveAttemptsFails(w, m) ==
  /\ Fault
  /\ job[w][m].phase = "save"
  /\ NotSaved(w, m)
  /\ UNCHANGED attempts
  /\ disturbed' = disturbed \cup {m}
  /\ UNCHANGED <<row, active, hint, poll, cancelled, overruns, acks>>

\* TryLockByIdAsync or a status write throws: the job ends, a lock stays.
StatementFails(w, m) ==
  /\ Fault
  /\ job[w][m].phase \in {"trylock", "processed", "failure", "dead"}
  /\ EndJob(w, m)
  /\ Escape(w, m)
  /\ UNCHANGED <<tables, hint, poll, overruns, history>>

\* A sibling of a job that threw: not started, or stopped at an await.
Cancel(w, m) ==
  /\ w \in cancelled /\ Busy(w, m)
  /\ EndJob(w, m)
  /\ disturbed' = IF m \in LosesResults({w}) THEN disturbed \cup {m} ELSE disturbed
  /\ UNCHANGED <<tables, hint, poll, cancelled, budget, acks>>

\* Process i stops and starts again: flows of control and channel are lost.
Crash(i) ==
  LET ws == {w \in Worker : Host[w] = i} IN
  /\ Fault
  /\ job' = [w \in Worker |-> IF w \in ws THEN [m \in Message |-> NoJob] ELSE job[w]]
  /\ pc' = [w \in BatchWorker |-> IF w \in ws THEN "idle" ELSE pc[w]]
  /\ skip' = [w \in BatchWorker |-> IF w \in ws THEN {} ELSE skip[w]]
  /\ stopped' = stopped \ ws
  /\ cancelled' = cancelled \ ws
  /\ hint' = [m \in Message |-> IF hint[m] = i THEN NoInstance ELSE hint[m]]
  /\ disturbed' = disturbed \cup LosesResults(ws)
  /\ UNCHANGED <<tables, overruns, acks>>

(* Clock and administration *)

\* The holder of the lock is still at work.
AtWork(m) == \E w \in Worker : job[w][m].current

Expire(m) ==
  /\ LeaseExpires(m)
  /\ AtWork(m) => overruns < MaxOverruns
  /\ overruns' = IF AtWork(m) THEN overruns + 1 ELSE overruns
  /\ disturbed' = IF AtWork(m) THEN disturbed \cup {m} ELSE disturbed
  /\ UNCHANGED <<attempts, active, hint, poll, work, faults, acks>>

BecomeDue(m) ==
  /\ RetryDue(m)
  /\ UNCHANGED <<attempts, active, hint, poll, work, budget, history>>

Deactivate(s) ==
  /\ s \in active \cap Deactivatable
  /\ active' = active \ {s}
  /\ UNCHANGED <<row, attempts, hint, poll, work, budget, history>>

-----------------------------------------------------------------------------
BatchStep(w) == StartBatch(w) \/ ReleaseLocks(w) \/ LockBatch(w)

JobStep(w, m) ==
  \/ LockHinted(w, m)
  \/ ReadStates(w, m)
  \/ \E s \in Subscription : Deliver(w, m, s)
  \/ SaveAttempts(w, m)
  \/ Processed(w, m)
  \/ HandleMessageFailure(w, m)
  \/ DeadLetter(w, m)

FaultStep ==
  \/ \E w \in BatchWorker : BatchFails(w)
  \/ \E w \in Worker : ReadSubscriptionsFails(w) \/ ReaderTimesOut(w)
  \/ \E w \in Worker, m \in Message :
       \/ ReadStatesFails(w, m)
       \/ DelivererThrows(w, m)
       \/ SaveAttemptsFails(w, m)
       \/ StatementFails(w, m)
  \/ \E i \in Instance : Crash(i)

Next ==
  \/ \E w \in BatchWorker : BatchStep(w)
  \/ \E w \in Worker : ReadSubscriptions(w)
  \/ \E w \in Worker, m \in Message :
       TakeHint(w, m) \/ JobStep(w, m) \/ Cancel(w, m)
  \/ \E m \in Message : Expire(m) \/ BecomeDue(m)
  \/ \E s \in Subscription : Deactivate(s)
  \/ FaultStep

Spec == Init /\ [][Next]_vars

\* Loops and jobs keep running, and the clock keeps passing.
Fairness ==
  /\ \A w \in BatchWorker : WF_vars(BatchStep(w))
  /\ \A w \in Worker : WF_vars(ReadSubscriptions(w))
  /\ \A w \in Worker, m \in Message : WF_vars(JobStep(w, m))
  /\ \A m \in Message : WF_vars(Expire(m)) /\ WF_vars(BecomeDue(m))

FairSpec == Spec /\ Fairness

-----------------------------------------------------------------------------
(* Properties *)

\* The tables and the jobs hold values of the types of their columns and fields.
TypeOK ==
  /\ StoreTypeOK
  /\ attempts \in [Message -> SUBSET Attempt]
  /\ active \subseteq Subscription
  /\ hint \in [Message -> Instance \cup {NoInstance}]
  /\ pc \in [BatchWorker -> {"idle", "release", "lock"}]
  /\ skip \in [BatchWorker -> SUBSET Message]
  /\ stopped \subseteq Worker
  /\ job \in [Worker -> [Message -> Job]]
  /\ cancelled \subseteq Worker
  /\ faults \in 0..MaxFaults /\ overruns \in 0..MaxOverruns
  /\ acks \in [Message -> [Subscription -> 0..2]]
  /\ disturbed \subseteq Message

\* At-least-once: a message is marked Delivered only when every subscription
\* that is still active has answered 2xx for it, whatever faults, overlapping
\* jobs and deactivations came before (ProcessSingleMessageAsync's decision).
DeliveredMeansAcknowledged ==
  \A m \in Message, s \in active :
    row[m].status = "Delivered" => acks[m][s] # 0

\* Exactly-once when nothing goes wrong: a second 2xx for one subscription takes
\* an overrun lock, a job that lost its results before saving them, or a 2xx that
\* came too late.
\* Retries of the other subscriptions, read faults, failed status writes and
\* deactivations never repeat an acknowledged delivery.
DuplicateOnlyIfDisturbed ==
  \A m \in Message, s \in Subscription : acks[m][s] = 2 => m \in disturbed

\* The DeliveryAttempts of a subscription are numbered 1..n without gaps, at
\* most MaxRetries + 1 of them, and only the last can be a success: concurrent
\* jobs that read the same AttemptCount derive the same key, and one INSERT of
\* the two fails as a whole.
AttemptLedger ==
  \A m \in Message, s \in Subscription :
    LET as == AttemptsOf(m, s) IN
    /\ {a.number : a \in as} = 1..Cardinality(as)
    /\ Cardinality(as) <= SubMaxRetries[s] + 1
    /\ \A a \in as : a.success => a.number = Cardinality(as)

\* The job that holds the lock dead-letters for exhaustion only while some
\* subscription it read has used all its attempts and has no recorded success.
ExhaustionIsReal ==
  \A w \in Worker, m \in Message :
    job[w][m].phase = "dead" /\ job[w][m].current =>
      \E s \in job[w][m].subs :
        /\ Cardinality(AttemptsOf(m, s)) > SubMaxRetries[s]
        /\ \A a \in AttemptsOf(m, s) : ~a.success

\* The policy is asked about a snapshot of RetryCount and the increment is done on
\* the table, tested against LockedBy only.  RetryCount stays within
\* RetryPolicyOptions.MaxRetries where every worker has an InstanceId of its own.
\* Where workers share one (hot and cold path of a process, overlapping timer
\* invocations), stale jobs spend retries too, but each lock that outlived its
\* timeout costs at most one retry beyond the budget.
OneWorkerPerInstance == \A v, w \in Worker : Host[v] = Host[w] => v = w

RetryBudget ==
  \A m \in Message :
    row[m].retryCount <= MaxRetries + (IF OneWorkerPerInstance THEN 0 ELSE overruns)

StatusPhase == {"processed", "failure", "dead"}

\* A status write takes effect only for the job whose lock it gives up
\* (IOutboxStore.MarkAsProcessedAsync: "Only succeeds if lockedBy still owns the lock").
OnlyHolderWrites ==
  [][\A w \in Worker, m \in Message :
       /\ job[w][m].phase \in StatusPhase
       /\ job'[w][m] = NoJob
       /\ row'[m] # row[m]
       => job[w][m].current]_vars

\* The database lock gate: as long as no lock outlives its timeout, a job past
\* its lock statement holds an unexpired lock and is the only one at work on its
\* message - across processes, hot and cold path, crashes and failed statements
\* (EfCoreOutboxStore.cs: "already makes dual delivery impossible").
Working(w, m) == job[w][m].phase \notin {"idle", "trylock"}

LockGate ==
  overruns = 0 =>
    \A w \in Worker, m \in Message : Working(w, m) =>
      /\ IsLockHeld(Host[w], m)
      /\ \A v \in Worker \ {w} : ~Working(v, m)

\* Ordered processing: the locks of one partition exclude each other
\* (OutboxOptions.EnableOrderedProcessing).  LockNextBatchAsync keeps this among
\* batches; the rows of one batch and the hot path do not obey it.
PartitionExclusion ==
  \A m, n \in Message :
    m # n /\ Partition[m] = Partition[n] /\ Partition[m] # NoPartition =>
      ~(LockHeld(row[m]) /\ LockHeld(row[n]))

Outcome(r) ==
  CASE r.status = "Delivered" -> "delivered"
    [] r.status = "DeadLettered" -> "dead"
    [] OTHER -> "open"

Promise == INSTANCE OutboxPromise WITH
  outcome <- [m \in Message |-> Outcome(row[m])],
  acked   <- [m \in Message |-> {s \in Subscription : acks[m][s] # 0}],
  wanted  <- active

\* The pipeline implements the promise of the outbox step by step: an outcome is
\* final whatever stale job writes later, and Delivered is only ever written
\* when the acknowledgements of all active subscriptions are in.
PromiseOutcomes == Promise!PromiseSafety

\* The whole promise, under FairSpec: besides, every message is settled.  It is
\* recovered after crashes, lost hints, expired locks and failed writes, and it
\* is not retried for ever.
KeepsPromise == Promise!PromiseSpec
=============================================================================
