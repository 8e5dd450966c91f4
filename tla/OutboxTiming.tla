----------------------------- MODULE OutboxTiming -----------------------------
(***************************************************************************)
(* The instants the other modules abstract from: LockedUntil, NextRetryAt, *)
(* the timeouts of deliveries and the throttle of ReleaseExpiredLocksAsync, *)
(* on one discrete clock.  One process runs batches in several invocations *)
(* at a time (Azure Functions); its clock is off the server's by skew.     *)
(*                                                                         *)
(* Between two ticks everything that can run has run: statements take no   *)
(* time and a worker of Parallel.ForEachAsync that is free takes the next. *)
(* Only an invocation on its way to LockNextBatchAsync may be slow.        *)
(***************************************************************************)
EXTENDS Integers, FiniteSets

CONSTANTS
  Message,
  Subscriptions,   \* number of subscriptions of a message
  Invocation,      \* concurrent calls of ProcessBatchAsync
  Second,          \* clock ticks per second
  VisibilityTimeout, Timeout, ReleaseInterval, BaseDelay, MaxDelay,  \* in ticks
  JitterPercent,   \* 100 * RetryPolicyOptions.JitterFactor
  MaxRetries, BatchSize, MaxConcurrentDeliveries, MaxConcurrentSubscriptionDeliveries,
  MaxSkew,         \* bound on the difference of the clocks
  MaxStops,        \* bound on the restarts of the process
  Horizon          \* bound on the clock

ASSUME TimingAssumption ==
  /\ IsFiniteSet(Message)
  /\ {Second, Timeout, BatchSize, MaxConcurrentDeliveries,
      MaxConcurrentSubscriptionDeliveries} \subseteq Nat \ {0}
  /\ {Subscriptions, VisibilityTimeout, ReleaseInterval, BaseDelay, MaxDelay, JitterPercent,
      MaxRetries, MaxSkew, MaxStops, Horizon} \subseteq Nat

VARIABLES
  now,       \* SYSDATETIMEOFFSET(): the server's clock
  skew,      \* the process's clock is now + skew; never changes
  table,     \* Message -> Row
  last,      \* _lastLockReleaseTicks
  call,      \* Invocation -> Call
  job,       \* Invocation -> Message -> Job
  stops,     \* restarts used up, of MaxStops
  failed     \* history: Message -> Failure, the one that it waits after

vars == <<now, skew, table, last, call, job, stops, failed>>

Null == -1000       \* no instant
Never == -1000      \* DateTimeOffset.MinValue

Instant == {Null} \cup (-MaxSkew)..(Horizon + VisibilityTimeout + 3 * MaxDelay + MaxSkew)

Row == [status      : {"Pending", "Processing", "Delivered", "DeadLettered"},
        lockedUntil : Instant,
        nextRetryAt : Instant,
        retryCount  : Nat]

Call == [phase : {"idle", "read", "cas", "release", "lock", "work"},
         nowTicks : Instant, lastTicks : Instant]

NoCall == [phase |-> "idle", nowTicks |-> Null, lastTicks |-> Null]

\* The workers of the inner Parallel.ForEachAsync.
Worker == 1..MaxConcurrentSubscriptionDeliveries
Free == -1

\* The execution of ProcessSingleMessageAsync.
Job == [phase      : {"none", "queued", "running"},
        retryCount : Nat,                           \* RetryCount when the row was locked
        left       : 0..Subscriptions,              \* deliveries not begun
        flight     : [Worker -> {Free} \cup 0..Timeout]]  \* since when its delivery is out

NoJob == [phase |-> "none", retryCount |-> 0, left |-> 0, flight |-> [s \in Worker |-> Free]]

\* When it was written, and the RetryCount its delay was drawn for: the snapshot in
\* the job, which lags behind the row's after an overrun.
Failure == [at : {Null} \cup 0..Horizon, retryCount : Nat]
NoFailure == [at |-> Null, retryCount |-> 0]

Init ==
  /\ now = 0 /\ skew \in -MaxSkew..MaxSkew
  /\ table = [m \in Message |-> [status |-> "Pending", lockedUntil |-> Null,
                                 nextRetryAt |-> Null, retryCount |-> 0]]
  /\ last = Never
  /\ call = [w \in Invocation |-> NoCall]
  /\ job = [w \in Invocation |-> [m \in Message |-> NoJob]]
  /\ stops = 0
  /\ failed = [m \in Message |-> NoFailure]

AppNow == now + skew
Phase(w) == call[w].phase

-----------------------------------------------------------------------------
(* The throttle of ReleaseExpiredLocksAsync *)

ReadClock(w) ==
  /\ Phase(w) = "idle"
  /\ call' = [call EXCEPT ![w] = [NoCall EXCEPT !.phase = "read", !.nowTicks = AppNow]]
  /\ UNCHANGED <<now, skew, table, last, job, stops, failed>>

\* Interlocked.Read and the comparison with what it returned.
ReadLast(w) ==
  /\ Phase(w) = "read"
  /\ call' = [call EXCEPT ![w] =
       IF @.nowTicks - last >= ReleaseInterval
       THEN [@ EXCEPT !.phase = "cas", !.lastTicks = last]
       ELSE [NoCall EXCEPT !.phase = "lock"]]
  /\ UNCHANGED <<now, skew, table, last, job, stops, failed>>

Goto(w, p) == call' = [call EXCEPT ![w] = [NoCall EXCEPT !.phase = p]]

\* Mutant: a plain write instead of CompareExchange.
WriteLast(w) ==
  /\ Phase(w) = "cas"
  /\ last' = call[w].nowTicks
  /\ Goto(w, "release")
  /\ UNCHANGED <<now, skew, table, job, stops, failed>>

CompareExchange(w) ==
  /\ Phase(w) = "cas"
  /\ IF last = call[w].lastTicks
     THEN last' = call[w].nowTicks /\ Goto(w, "release")
     ELSE UNCHANGED last /\ Goto(w, "lock")
  /\ UNCHANGED <<now, skew, table, job, stops, failed>>

\* Mutant: a lock that expires at this instant.
LocksExpiringNow == {m \in Message : table[m].status = "Processing" /\ table[m].lockedUntil <= now}

ExpiredLocks == {m \in Message : table[m].status = "Processing" /\ table[m].lockedUntil < now}

ReleaseExpiredLocks(w) ==
  /\ Phase(w) = "release"
  /\ table' = [m \in Message |->
       IF m \in ExpiredLocks
       THEN [table[m] EXCEPT !.lockedUntil = Null, !.status = "Pending"] ELSE table[m]]
  /\ Goto(w, "lock")
  /\ UNCHANGED <<now, skew, last, job, stops, failed>>

(* LockNextBatchAsync and the two levels of Parallel.ForEachAsync *)

\* (int)visibilityTimeout.TotalSeconds
WholeSeconds(d) == (d \div Second) * Second

Lockable(r) ==
  /\ r.status \in {"Pending", "Processing"}
  /\ r.lockedUntil = Null \/ r.lockedUntil < now
  /\ r.nextRetryAt = Null \/ r.nextRetryAt <= now

Eligible == {m \in Message : Lockable(table[m])}

\* Which rows are the oldest is left open.
LockBatch(w) ==
  /\ Phase(w) = "lock"
  /\ \E batch \in SUBSET Eligible :
       /\ Cardinality(batch) <= BatchSize
       /\ batch # Eligible => Cardinality(batch) = BatchSize
       /\ table' = [m \in Message |->
            IF m \in batch
            THEN [table[m] EXCEPT !.status = "Processing",
                                  !.lockedUntil = now + WholeSeconds(VisibilityTimeout)]
            ELSE table[m]]
       /\ job' = [job EXCEPT ![w] = [m \in Message |->
            IF m \in batch
            THEN [NoJob EXCEPT !.phase = "queued", !.retryCount = table[m].retryCount,
                               !.left = Subscriptions]
            ELSE NoJob]]
       /\ call' = [call EXCEPT ![w] =
            IF batch = {} THEN NoCall ELSE [NoCall EXCEPT !.phase = "work"]]
       /\ failed' = [m \in Message |-> IF m \in batch THEN NoFailure ELSE failed[m]]
  /\ UNCHANGED <<now, skew, last, stops>>

InPhase(w, p) == {m \in Message : job[w][m].phase = p}

\* Each worker takes a subscription, as far as they go.
Launch(j) ==
  [j EXCEPT !.phase = "running",
            !.left = IF @ < MaxConcurrentSubscriptionDeliveries THEN 0
                     ELSE @ - MaxConcurrentSubscriptionDeliveries,
            !.flight = [s \in Worker |-> IF s <= j.left THEN 0 ELSE Free]]

\* Worker s takes the next subscription.
TakeNext(j, s) ==
  IF j.left = 0 THEN [j EXCEPT !.flight[s] = Free]
  ELSE [j EXCEPT !.flight[s] = 0, !.left = @ - 1]

\* Mutant: the messages of a batch one after the other.
MayStartAlone(w, m) == m \in InPhase(w, "queued") /\ InPhase(w, "running") = {}

MayStart(w, m) ==
  /\ m \in InPhase(w, "queued")
  /\ Cardinality(InPhase(w, "running")) < MaxConcurrentDeliveries

StartJob(w, m) ==
  /\ MayStart(w, m)
  /\ job' = [job EXCEPT ![w][m] = Launch(@)]
  /\ UNCHANGED <<now, skew, table, last, call, stops, failed>>

\* An answer, or the CancelAfter(subscription.Timeout).
EndDelivery(w, m, s) ==
  /\ job[w][m].flight[s] # Free
  /\ job' = [job EXCEPT ![w][m] = TakeNext(@, s)]
  /\ UNCHANGED <<now, skew, table, last, call, stops, failed>>

AllOver(w, m) ==
  m \in InPhase(w, "running") /\ \A s \in Worker : job[w][m].flight[s] = Free

(* ExponentialBackoffRetryPolicy.GetNextDelay, HandleMessageFailureAsync *)

\* Mutant: no cap.
Uncapped(n) == BaseDelay * 2^n

Capped(n) == IF BaseDelay * 2^n < MaxDelay THEN BaseDelay * 2^n ELSE MaxDelay

\* Mutant: the delay is drawn anew between zero and the capped delay.
NextDelaysFromZero(n) == 0..Capped(n)

\* Jitter is added to the capped delay: the result may exceed MaxDelay.
NextDelays(n) ==
  {d \in 0..(3 * MaxDelay) : /\ 100 * d >= Capped(n) * (100 - JitterPercent)
                             /\ 100 * d <= Capped(n) * (100 + JitterPercent)}

Write(m, r) == table' = IF table[m].status = "Processing" THEN [table EXCEPT ![m] = r] ELSE table

\* The write at the end of a job: LockedBy is all it tests.
FinishJob(w, m) ==
  /\ AllOver(w, m)
  /\ LET n == job[w][m].retryCount
         gone == [table[m] EXCEPT !.lockedUntil = Null] IN
     \/ /\ Write(m, [gone EXCEPT !.status = "Delivered"])
        /\ UNCHANGED failed
     \/ /\ n < MaxRetries
        /\ \E d \in NextDelays(n) :
             Write(m, [gone EXCEPT !.status = "Pending", !.retryCount = @ + 1,
                                   !.nextRetryAt = AppNow + d])
        /\ failed' = IF table[m].status = "Processing"
                     THEN [failed EXCEPT ![m] = [at |-> now, retryCount |-> n]] ELSE failed
     \/ /\ n >= MaxRetries
        /\ Write(m, [gone EXCEPT !.status = "DeadLettered"])
        /\ UNCHANGED failed
  /\ job' = [job EXCEPT ![w][m] = NoJob]
  /\ call' = IF InPhase(w, "queued") \cup InPhase(w, "running") = {m}
             THEN [call EXCEPT ![w] = NoCall] ELSE call
  /\ UNCHANGED <<now, skew, last, stops>>

-----------------------------------------------------------------------------
Urgent(w, m) ==
  MayStart(w, m) \/ AllOver(w, m) \/ \E s \in Worker : job[w][m].flight[s] = Timeout

Tick ==
  /\ now < Horizon
  /\ \A w \in Invocation, m \in Message : ~Urgent(w, m)
  /\ now' = now + 1
  /\ job' = [w \in Invocation |-> [m \in Message |-> [job[w][m] EXCEPT
       !.flight = [s \in Worker |-> IF @[s] = Free THEN Free ELSE @[s] + 1]]]]
  /\ UNCHANGED <<skew, table, last, call, stops, failed>>

\* The process stops and starts again; its locks stay.
Stop ==
  /\ stops < MaxStops
  /\ stops' = stops + 1
  /\ last' = Never
  /\ call' = [w \in Invocation |-> NoCall]
  /\ job' = [w \in Invocation |-> [m \in Message |-> NoJob]]
  /\ UNCHANGED <<now, skew, table, failed>>

CallStep(w) ==
  ReadClock(w) \/ ReadLast(w) \/ CompareExchange(w) \/ ReleaseExpiredLocks(w) \/ LockBatch(w)

JobStep(w, m) ==
  \/ StartJob(w, m) \/ FinishJob(w, m)
  \/ \E s \in Worker : EndDelivery(w, m, s)

Next ==
  \/ \E w \in Invocation : CallStep(w) \/ \E m \in Message : JobStep(w, m)
  \/ Tick \/ Stop

Spec == Init /\ [][Next]_vars

-----------------------------------------------------------------------------
(* Properties *)

TimingTypeOK ==
  /\ now \in 0..Horizon /\ skew \in -MaxSkew..MaxSkew
  /\ table \in [Message -> Row]
  /\ last \in Instant
  /\ call \in [Invocation -> Call]
  /\ job \in [Invocation -> [Message -> Job]]
  /\ failed \in [Message -> Failure]

Rounds(items, slots) == (items + slots - 1) \div slots

\* The longest a batch can take.
WorstCase ==
  Rounds(BatchSize, MaxConcurrentDeliveries)
    * Rounds(Subscriptions, MaxConcurrentSubscriptionDeliveries) * Timeout

Held(m) == table[m].status = "Processing" /\ table[m].lockedUntil >= now

AtWork(w, m) == job[w][m].phase # "none"

\* The premise of OutboxPipeline's lock gate (no overruns): when VisibilityTimeout,
\* cut to whole seconds, is at least the worst case of a batch, no lock expires
\* under its job, queued jobs included, and no message has two jobs.
LockOutlivesJob ==
  WholeSeconds(VisibilityTimeout) >= WorstCase =>
    \A w \in Invocation, m \in Message : AtWork(w, m) =>
      Held(m) /\ \A v \in Invocation \ {w} : ~AtWork(v, m)

\* Concurrent invocations do not both fire a release: by the clock they read,
\* the releases of a process are ReleaseInterval apart, however slow the calls are
\* between reading and writing (OutboxProcessingPipeline: "so concurrent Azure
\* Functions invocations don't both fire it").
ReleasesSpaced ==
  [][last' \notin {last, Never} => last' - last >= ReleaseInterval]_vars

\* A retry never starts before its delay has passed since the failure, less what
\* the jitter may take off: on the server's clock, since the instant at which the
\* process's clock saw the failure.  This holds for stale jobs too, whose failure
\* ends the lock of a later one and whose delay is that of an earlier round.
RetryWaits ==
  [][\A m \in Message :
       /\ table[m].status = "Pending" /\ table'[m].status = "Processing"
       /\ failed[m] # NoFailure
       => 100 * (now - (failed[m].at + skew))
            >= Capped(failed[m].retryCount) * (100 - JitterPercent)]_vars

\* Nor does a message wait for its retry longer than MaxDelay and the jitter on top
\* of it (GetNextDelay adds the jitter after the cap), whatever round it is in and
\* whichever job's snapshot the delay was drawn for: from then on a batch may lock it.
RetryIsDue ==
  \A m \in Message :
    /\ table[m].status = "Pending" /\ failed[m] # NoFailure
    /\ 100 * (now - (failed[m].at + skew)) >= MaxDelay * (100 + JitterPercent)
    => Lockable(table[m])

\* OutboxStore's "held" and "expired", "due" and not, are these instants read
\* against the server's clock.
Column(m) ==
  [status     |-> table[m].status,
   lockedBy   |-> IF table[m].status = "Processing" THEN "process" ELSE "nobody",
   lease      |-> IF table[m].lockedUntil = Null THEN "none" ELSE
                  IF table[m].lockedUntil < now THEN "expired" ELSE "held",
   due        |-> table[m].nextRetryAt = Null \/ table[m].nextRetryAt <= now,
   retryCount |-> table[m].retryCount]

Store == INSTANCE OutboxStore WITH
  row <- [m \in Message |-> Column(m)],
  Instance <- {"process"}, NoInstance <- "nobody", NoPartition <- "none",
  Partition <- [m \in Message |-> "none"], CreatedAt <- [m \in Message |-> 0],
  Serves <- [i \in {"process"} |-> Message]

\* A tick may be the end of several locks and delays.
InstantsPass ==
  \A m \in Message :
    Column(m)' \in {Column(m), [Column(m) EXCEPT !.lease = "expired"],
                    [Column(m) EXCEPT !.due = TRUE],
                    [Column(m) EXCEPT !.lease = "expired", !.due = TRUE]}

\* A delay of zero, or a clock that is behind: the retry is due at once.
RetryDueAtOnce(m) ==
  /\ table[m].status = "Processing"
  /\ \A n \in Message : Column(n)' =
       IF n = m THEN [Store!Unlocked(Column(m), "Pending") EXCEPT !.retryCount = @ + 1, !.due = TRUE]
                ELSE Column(n)

\* OutboxStore's view of time is sound: whatever the timestamps, each statement is
\* the statement of OutboxStore (a retry that is due at once is followed by its
\* RetryDue), and the clock only expires locks and lets retries fall due.
TimestampsImplementStore ==
  [][Store!StoreStep \/ InstantsPass \/ \E m \in Message : RetryDueAtOnce(m)]_<<table, now>>

\* OutboxOptions.DefaultVisibilityTimeout: "Must be longer than worst-case batch
\* processing time: ceil(BatchSize / MaxConcurrentDeliveries) * MaxConcurrent-
\* SubscriptionDeliveries * subscription.Timeout".  Refuted: with more subscriptions
\* than slots squared, a message takes longer.
DocumentedTimeoutSuffices ==
  WholeSeconds(VisibilityTimeout) >
      Rounds(BatchSize, MaxConcurrentDeliveries) * MaxConcurrentSubscriptionDeliveries * Timeout =>
    \A w \in Invocation, m \in Message : AtWork(w, m) => Held(m)
=============================================================================
