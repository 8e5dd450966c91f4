------------------------ MODULE OutboxPipelineProofs ------------------------
(***************************************************************************)
(* Proofs about direct delivery (Spec of OutboxPipeline), for any number   *)
(* of processes, workers, messages, subscriptions, faults and overruns.    *)
(*                                                                         *)
(*   1. The pipeline uses the store only through the store's operations,   *)
(*      so what OutboxStoreProofs shows carries over.                      *)
(*   2. Type correctness.                                                  *)
(*   3. The steps, as one message sees them: every step locks it, releases *)
(*      it, works on its records, writes its status, or lets it rest.      *)
(*   4. The lock gate: no two jobs at work on one message.                 *)
(*   5. Whose lock it is: status writes and the retry budget.              *)
(*   6. The attempt ledger, and what jobs know of it.                      *)
(*   7. Exactly once when nothing goes wrong.                              *)
(*   8. Delivered means acknowledged.                                      *)
(*   9. From it, the refinement of the safety part of OutboxPromise.       *)
(***************************************************************************)
EXTENDS OutboxPipeline, OutboxStoreProofs, FiniteSetTheorems

-----------------------------------------------------------------------------
(* 1. The pipeline as a caller of the store *)

LEMMA HostIsInstance == \A w \in Worker : Host[w] \in Instance
BY PipelineAssumption

LEMMA BatchWorkerIsWorker == BatchWorker \subseteq Worker
BY DEF Worker, BatchWorker

\* A status write is an owner's step or a retry.
LEMMA StatusWriteIsStoreStep ==
  ASSUME NEW w \in Worker, NEW m \in Message,
         Processed(w, m) \/ HandleMessageFailure(w, m) \/ DeadLetter(w, m)
  PROVE  StoreStep
<1>1. \/ MarkAsProcessed(Host[w], m)
      \/ MarkAsDeadLettered(Host[w], m)
      \/ IncrementRetry(Host[w], m)
  BY DEF Processed, HandleMessageFailure, DeadLetter
<1> QED BY <1>1, HostIsInstance DEF StoreStep, OwnerStep, RetryStep

\* Every step of the pipeline is a step of the store or leaves the table alone.
LEMMA NextIsStoreStep == ASSUME TypeOK, Next PROVE [StoreStep]_row
<1> USE DEF tables
<1>1. ASSUME NEW w \in BatchWorker, BatchStep(w) PROVE [StoreStep]_row
  <2>1. CASE StartBatch(w)
    BY <2>1 DEF StartBatch
  <2>2. CASE ReleaseLocks(w)
    BY <2>2 DEF ReleaseLocks, StoreStep, MaintenanceStep
  <2>3. CASE LockBatch(w)
    <3>1. PICK batch \in SUBSET Message : LockNextBatch(Host[w], skip[w], batch)
      BY <2>3 DEF LockBatch
    <3>2. skip[w] \in SUBSET Message /\ Host[w] \in Instance
      BY BatchWorkerIsWorker, HostIsInstance DEF TypeOK
    <3> QED BY <3>1, <3>2 DEF StoreStep, LockStep
  <2> QED BY <1>1, <2>1, <2>2, <2>3 DEF BatchStep
<1>2. ASSUME NEW w \in Worker, ReadSubscriptions(w) PROVE [StoreStep]_row
  BY <1>2 DEF ReadSubscriptions
<1>3. ASSUME NEW w \in Worker, NEW m \in Message,
             TakeHint(w, m) \/ JobStep(w, m) \/ Cancel(w, m)
      PROVE  [StoreStep]_row
  <2>1. CASE LockHinted(w, m)
    BY <2>1, HostIsInstance DEF LockHinted, StoreStep, LockStep
  <2>2. CASE Processed(w, m) \/ HandleMessageFailure(w, m) \/ DeadLetter(w, m)
    BY <2>2, StatusWriteIsStoreStep
  <2>3. CASE TakeHint(w, m) \/ Cancel(w, m) \/ ReadStates(w, m) \/ SaveAttempts(w, m)
    BY <2>3 DEF TakeHint, Cancel, ReadStates, SaveAttempts
  <2>4. CASE \E s \in Subscription : Deliver(w, m, s)
    BY <2>4 DEF Deliver
  <2> QED BY <1>3, <2>1, <2>2, <2>3, <2>4 DEF JobStep
<1>4. ASSUME NEW m \in Message, Expire(m) \/ BecomeDue(m) PROVE [StoreStep]_row
  BY <1>4 DEF Expire, BecomeDue, StoreStep, ClockStep
<1>5. ASSUME NEW s \in Subscription, Deactivate(s) PROVE [StoreStep]_row
  BY <1>5 DEF Deactivate
<1>6. CASE FaultStep
  BY <1>6 DEF FaultStep, BatchFails, ReadSubscriptionsFails, ReaderTimesOut,
              ReadStatesFails, DelivererThrows, SaveAttemptsFails, StatementFails, Crash
<1> QED BY <1>1, <1>2, <1>3, <1>4, <1>5, <1>6 DEF Next

-----------------------------------------------------------------------------
(* 2. Types *)

Jobs == [Worker -> [Message -> Job]]

\* Cardinality counts attempts, so the sets of attempts must stay finite.
JobsOK ==
  /\ job \in Jobs
  /\ \A w \in Worker, m \in Message : IsFiniteSet(job[w][m].new)

AttemptsOK ==
  /\ attempts \in [Message -> SUBSET Attempt]
  /\ \A m \in Message : IsFiniteSet(attempts[m])

\* The other variables.
PollOK ==
  /\ active \subseteq Subscription
  /\ hint \in [Message -> Instance \cup {NoInstance}]
  /\ pc \in [BatchWorker -> {"idle", "release", "lock"}]
  /\ skip \in [BatchWorker -> SUBSET Message]
  /\ stopped \subseteq Worker
  /\ cancelled \subseteq Worker

HistoryOK ==
  /\ faults \in 0..MaxFaults /\ overruns \in 0..MaxOverruns
  /\ acks \in [Message -> [Subscription -> 0..2]]
  /\ disturbed \subseteq Message

\* The inductive invariant.
TypeInv == StoreInv /\ JobsOK /\ AttemptsOK /\ PollOK /\ HistoryOK

LEMMA TypeInvIsTypeOK == TypeInv => TypeOK
BY DEF TypeInv, TypeOK, StoreInv, JobsOK, Jobs, AttemptsOK, PollOK, HistoryOK

LEMMA NoJobType == NoJob \in Job /\ IsFiniteSet(NoJob.new)
BY FS_EmptySet DEF NoJob, Job, Phase

LEMMA NewJobType ==
  ASSUME StoreTypeOK, NEW m \in Message
  PROVE  NewJob(m) \in Job /\ IsFiniteSet(NewJob(m).new)
<1>1. row[m].retryCount \in Nat
  BY DEF StoreTypeOK, Row
<1> QED BY <1>1, FS_EmptySet DEF NewJob, NoJob, Job, Phase

LEMMA SupersededType ==
  ASSUME NEW ms, JobsOK
  PROVE  /\ Superseded(ms) \in Jobs
         /\ \A w \in Worker, m \in Message : IsFiniteSet(Superseded(ms)[w][m].new)
<1>1. ASSUME NEW j \in Job
      PROVE  /\ [j EXCEPT !.current = FALSE] \in Job
             /\ [j EXCEPT !.current = FALSE].new = j.new
  BY DEF Job
<1>2. \A w \in Worker, m \in Message : job[w][m] \in Job
  BY DEF JobsOK, Jobs
<1> QED BY <1>1, <1>2 DEF JobsOK, Jobs, Superseded

LEMMA DecisionType == \A j : Decision(j) \in {"failure", "dead", "processed"}
BY DEF Decision

LEMMA DeliveredType ==
  ASSUME NEW j \in Job
  PROVE  Delivered(j) \in Job /\ Delivered(j).new = j.new
BY DecisionType DEF Delivered, Job, Phase

LEMMA SetJobType ==
  ASSUME JobsOK, NEW w \in Worker, NEW m \in Message, NEW j \in Job,
         IsFiniteSet(j.new), SetJob(w, m, j)
  PROVE  JobsOK'
BY DEF JobsOK, Jobs, SetJob

\* Jobs stay well typed while the jobs of worker w change to f.
LEMMA WorkerJobsType ==
  ASSUME NEW jobs \in Jobs,
         \A v \in Worker, m \in Message : IsFiniteSet(jobs[v][m].new),
         NEW w \in Worker, NEW f \in [Message -> Job],
         \A m \in Message : IsFiniteSet(f[m].new),
         job' = [jobs EXCEPT ![w] = f]
  PROVE  JobsOK'
BY DEF JobsOK, Jobs

LEMMA NotSavedType ==
  ASSUME JobsOK, NEW w \in Worker, NEW m \in Message, NotSaved(w, m)
  PROVE  JobsOK'
<1> DEFINE j == job[w][m]
<1>1. j \in Job /\ IsFiniteSet(j.new)
  BY DEF JobsOK, Jobs
<1>2. /\ [j EXCEPT !.phase = Decision(j)] \in Job
      /\ [j EXCEPT !.phase = Decision(j)].new = j.new
  BY <1>1, DecisionType DEF Job, Phase
<1> QED BY <1>1, <1>2, NoJobType, SetJobType DEF NotSaved

LEMMA StatusWriteType ==
  ASSUME JobsOK, NEW w \in Worker, NEW m \in Message, StatusWrite(w, m)
  PROVE  JobsOK'
<1> DEFINE jobs == IF Owns(Host[w], m) THEN Superseded({m}) ELSE job
<1>1. jobs \in Jobs /\ \A v \in Worker, n \in Message : IsFiniteSet(jobs[v][n].new)
  BY SupersededType DEF JobsOK
<1>2. job' = [jobs EXCEPT ![w] = [jobs[w] EXCEPT ![m] = NoJob]]
  BY DEF StatusWrite
<1> HIDE DEF jobs
<1>3. [jobs[w] EXCEPT ![m] = NoJob] \in [Message -> Job]
  BY <1>1, NoJobType DEF Jobs
<1>4. \A n \in Message : IsFiniteSet([jobs[w] EXCEPT ![m] = NoJob][n].new)
  BY <1>1, NoJobType DEF Jobs
<1> QED BY <1>1, <1>2, <1>3, <1>4, WorkerJobsType

\* What ReadStates reads: HasSuccess and AttemptCount of the subscriptions of j.
DoneOf(m, j) == {s \in j.subs : \E a \in AttemptsOf(m, s) : a.success}
CountOf(m, j) ==
  [s \in Subscription |-> IF s \in j.subs THEN Cardinality(AttemptsOf(m, s)) ELSE 0]

\* The job after the delivery states are read, before it goes on.
LEMMA StatesRead ==
  ASSUME TypeInv, NEW w \in Worker, NEW m \in Message, ReadStates(w, m)
  PROVE  \E k \in Job :
           /\ SetJob(w, m, Delivered(k))
           /\ k.done = DoneOf(m, job[w][m]) /\ k.count = CountOf(m, job[w][m])
           /\ k.subs = job[w][m].subs /\ k.new = job[w][m].new
           /\ k.current = job[w][m].current /\ k.retryCount = job[w][m].retryCount
<1> DEFINE j == job[w][m]
           k == [j EXCEPT !.done = DoneOf(m, j), !.count = CountOf(m, j)]
<1>1. j \in Job /\ AttemptsOK
  BY DEF TypeInv, JobsOK, Jobs
<1>2. \A s \in Subscription : Cardinality(AttemptsOf(m, s)) \in Nat
  <2>1. \A s : AttemptsOf(m, s) \in SUBSET attempts[m]
    BY DEF AttemptsOf
  <2> QED BY <1>1, <2>1, FS_Subset, FS_CardinalityType DEF AttemptsOK
<1>3. /\ k \in Job
      /\ k.done = DoneOf(m, j) /\ k.count = CountOf(m, j)
      /\ k.subs = j.subs /\ k.new = j.new
      /\ k.current = j.current /\ k.retryCount = j.retryCount
  <2>1. DoneOf(m, j) \subseteq Subscription
    BY <1>1 DEF DoneOf, Job
  <2>2. CountOf(m, j) \in [Subscription -> Nat]
    BY <1>2 DEF CountOf
  <2> QED BY <1>1, <2>1, <2>2 DEF Job
<1>4. SetJob(w, m, Delivered(k))
  BY DEF ReadStates, DoneOf, CountOf
<1> HIDE DEF k
<1> QED BY <1>3, <1>4

\* The job after a delivery, before it goes on.
LEMMA AttemptMade ==
  ASSUME TypeInv, NEW w \in Worker, NEW m \in Message,
         NEW s \in Subscription, Deliver(w, m, s)
  PROVE  \E k \in Job, ok, answered \in BOOLEAN :
           LET a == [sub |-> s, number |-> job[w][m].count[s] + 1, success |-> ok] IN
           /\ ok => answered
           /\ SetJob(w, m, Delivered(k))
           /\ k.new = job[w][m].new \cup {a}
           /\ k.subs = job[w][m].subs /\ k.done = job[w][m].done
           /\ k.count = job[w][m].count
           /\ k.current = job[w][m].current /\ k.retryCount = job[w][m].retryCount
           /\ acks' = IF answered THEN [acks EXCEPT ![m][s] = IF @ = 0 THEN 1 ELSE 2] ELSE acks
           /\ answered /\ ~ok => m \in disturbed'
<1> DEFINE j == job[w][m]
<1>1. j \in Job
  BY DEF TypeInv, JobsOK, Jobs
<1>2. PICK answered, received \in BOOLEAN :
        /\ SetJob(w, m, Delivered([j EXCEPT !.new = @ \cup
             {[sub |-> s, number |-> j.count[s] + 1, success |-> answered /\ received]}]))
        /\ acks' = IF answered THEN [acks EXCEPT ![m][s] = IF @ = 0 THEN 1 ELSE 2] ELSE acks
        /\ answered /\ ~received => m \in disturbed'
  BY DEF Deliver
<1> DEFINE ok == answered /\ received
<1> DEFINE a == [sub |-> s, number |-> j.count[s] + 1, success |-> ok]
           k == [j EXCEPT !.new = j.new \cup {a}]
<1>3. a \in Attempt
  BY <1>1 DEF Job, Attempt
<1>4. /\ k \in Job /\ k.new = j.new \cup {a}
      /\ k.subs = j.subs /\ k.done = j.done /\ k.count = j.count
      /\ k.current = j.current /\ k.retryCount = j.retryCount
  BY <1>1, <1>3 DEF Job
<1>5. SetJob(w, m, Delivered(k))
  BY <1>2
<1>6. ok \in BOOLEAN /\ (ok => answered) /\ (answered /\ ~ok => ~received)
  OBVIOUS
<1> HIDE DEF k, ok
<1> QED BY <1>2, <1>4, <1>5, <1>6

\* A job step keeps the jobs well typed: one case per action.
LEMMA JobStepType ==
  ASSUME TypeInv, NEW w \in Worker, NEW m \in Message, JobStep(w, m)
  PROVE  JobsOK'
<1> DEFINE j == job[w][m]
<1>0. StoreTypeOK /\ JobsOK /\ AttemptsOK /\ j \in Job /\ IsFiniteSet(j.new)
  BY DEF TypeInv, StoreInv, JobsOK, Jobs
<1>1. CASE LockHinted(w, m)
  <2>1. ASSUME NEW k \in Job, IsFiniteSet(k.new),
               job' = [Superseded({m}) EXCEPT ![w] = [Superseded({m})[w] EXCEPT ![m] = k]]
        PROVE  JobsOK'
    <3>1. [Superseded({m})[w] EXCEPT ![m] = k] \in [Message -> Job]
      BY <1>0, <2>1, SupersededType DEF Jobs
    <3>2. \A n \in Message : IsFiniteSet([Superseded({m})[w] EXCEPT ![m] = k][n].new)
      BY <1>0, <2>1, SupersededType DEF Jobs
    <3> QED BY <1>0, <2>1, <3>1, <3>2, SupersededType, WorkerJobsType
  <2>2. \/ job' = [Superseded({m}) EXCEPT ![w] = [Superseded({m})[w] EXCEPT ![m] = NewJob(m)]]
        \/ job' = [Superseded({m}) EXCEPT ![w] = [Superseded({m})[w] EXCEPT ![m] = NoJob]]
        \/ EndJob(w, m)
    BY <1>1 DEF LockHinted
  <2>3. CASE EndJob(w, m)
    BY <1>0, <2>3, NoJobType, SetJobType DEF EndJob
  <2> QED BY <1>0, <2>1, <2>2, <2>3, NewJobType, NoJobType
<1>2. CASE ReadStates(w, m)
  <2>1. PICK k \in Job : SetJob(w, m, Delivered(k)) /\ k.new = j.new
    BY <1>2, StatesRead
  <2> QED BY <1>0, <2>1, DeliveredType, SetJobType
<1>3. ASSUME NEW s \in Subscription, Deliver(w, m, s) PROVE JobsOK'
  <2> DEFINE a(ok) == [sub |-> s, number |-> j.count[s] + 1, success |-> ok]
  <2>1. PICK k \in Job, ok \in BOOLEAN :
               SetJob(w, m, Delivered(k)) /\ k.new = j.new \cup {a(ok)}
    BY <1>3, AttemptMade
  <2>2. IsFiniteSet(k.new)
    BY <1>0, <2>1, FS_AddElement
  <2> QED BY <1>0, <2>1, <2>2, DeliveredType, SetJobType
<1>4. CASE SaveAttempts(w, m)
  <2>1. CASE NotSaved(w, m)
    BY <1>0, <2>1, NotSavedType
  <2>2. CASE SetJob(w, m, [j EXCEPT !.phase = Decision(j)])
    <3>1. /\ [j EXCEPT !.phase = Decision(j)] \in Job
          /\ [j EXCEPT !.phase = Decision(j)].new = j.new
      BY <1>0, DecisionType DEF Job, Phase
    <3> QED BY <1>0, <2>2, <3>1, SetJobType
  <2> QED BY <1>4, <2>1, <2>2 DEF SaveAttempts
<1>5. CASE Processed(w, m) \/ HandleMessageFailure(w, m) \/ DeadLetter(w, m)
  BY <1>0, <1>5, StatusWriteType DEF Processed, HandleMessageFailure, DeadLetter
<1> QED BY <1>1, <1>2, <1>3, <1>4, <1>5 DEF JobStep

\* The steps of a worker that are not steps of one job.
LEMMA WorkerStepType ==
  ASSUME TypeInv, NEW w \in Worker,
         \/ w \in BatchWorker /\ BatchStep(w)
         \/ ReadSubscriptions(w)
         \/ ReadSubscriptionsFails(w) \/ ReaderTimesOut(w)
  PROVE  JobsOK'
<1>0. StoreTypeOK /\ JobsOK /\ active \subseteq Subscription
  BY DEF TypeInv, StoreInv, PollOK
<1>1. CASE w \in BatchWorker /\ BatchStep(w)
  <2>1. CASE StartBatch(w)
    BY <1>0, <2>1 DEF StartBatch, JobsOK
  <2>2. CASE ReleaseLocks(w)
    BY <1>0, <2>2, SupersededType DEF ReleaseLocks, JobsOK
  <2>3. CASE LockBatch(w)
    <3>1. PICK batch \in SUBSET Message :
             \/ job' = [Superseded(batch) EXCEPT ![w] =
                  [m \in Message |-> IF m \in batch THEN NewJob(m) ELSE @[m]]]
             \/ job' = Superseded(batch)
      BY <2>3 DEF LockBatch
    <3> DEFINE f == [m \in Message |-> IF m \in batch THEN NewJob(m)
                                       ELSE Superseded(batch)[w][m]]
    <3>2. /\ Superseded(batch) \in Jobs
          /\ \A v \in Worker, m \in Message : IsFiniteSet(Superseded(batch)[v][m].new)
      BY <1>0, SupersededType
    <3>3. f \in [Message -> Job] /\ \A m \in Message : IsFiniteSet(f[m].new)
      BY <1>0, <3>2, NewJobType DEF Jobs
    <3>4. job' = [Superseded(batch) EXCEPT ![w] = f] \/ job' = Superseded(batch)
      BY <3>1
    <3> HIDE DEF f
    <3>5. CASE job' = Superseded(batch)
      BY <3>2, <3>5 DEF JobsOK
    <3> QED BY <3>2, <3>3, <3>4, <3>5, WorkerJobsType
  <2> QED BY <1>1, <2>1, <2>2, <2>3 DEF BatchStep
<1>2. CASE ReadSubscriptions(w)
  <2> DEFINE f == [m \in Message |->
        IF job[w][m].phase # "subs" THEN job[w][m]
        ELSE [job[w][m] EXCEPT !.subs = active,
                               !.phase = IF active = {} THEN "processed" ELSE "states"]]
  <2>1. ASSUME NEW j \in Job, NEW p \in Phase
        PROVE  /\ [j EXCEPT !.subs = active, !.phase = p] \in Job
               /\ [j EXCEPT !.subs = active, !.phase = p].new = j.new
    BY <1>0 DEF Job
  <2>2. \A m \in Message : job[w][m] \in Job /\ IsFiniteSet(job[w][m].new)
    BY <1>0 DEF JobsOK, Jobs
  <2>3. (IF active = {} THEN "processed" ELSE "states") \in Phase
    BY DEF Phase
  <2>4. f \in [Message -> Job] /\ \A m \in Message : IsFiniteSet(f[m].new)
    BY <2>1, <2>2, <2>3
  <2>5. job' = [job EXCEPT ![w] = f]
    BY <1>2 DEF ReadSubscriptions
  <2> HIDE DEF f
  <2> QED BY <1>0, <2>4, <2>5, WorkerJobsType DEF JobsOK
<1>3. CASE ReadSubscriptionsFails(w) \/ ReaderTimesOut(w)
  <2> DEFINE f == [m \in Message |-> IF job[w][m].phase = "subs" THEN NoJob ELSE job[w][m]]
  <2>1. f \in [Message -> Job] /\ \A m \in Message : IsFiniteSet(f[m].new)
    BY <1>0, NoJobType DEF JobsOK, Jobs
  <2>2. job' = [job EXCEPT ![w] = f]
    BY <1>3 DEF ReadSubscriptionsFails, ReaderTimesOut
  <2> HIDE DEF f
  <2> QED BY <1>0, <2>1, <2>2, WorkerJobsType DEF JobsOK
<1> QED BY <1>1, <1>2, <1>3

\* A fault keeps the jobs well typed.
LEMMA FaultType ==
  ASSUME TypeInv, FaultStep
  PROVE  JobsOK'
<1>0. JobsOK /\ \A w \in Worker, m \in Message : job[w][m] \in Job /\ IsFiniteSet(job[w][m].new)
  BY DEF TypeInv, JobsOK, Jobs
<1>1. ASSUME NEW w \in BatchWorker, BatchFails(w) PROVE JobsOK'
  BY <1>0, <1>1 DEF BatchFails, work, JobsOK
<1>2. ASSUME NEW w \in Worker, ReadSubscriptionsFails(w) \/ ReaderTimesOut(w) PROVE JobsOK'
  BY <1>2, WorkerStepType
<1>3. ASSUME NEW w \in Worker, NEW m \in Message,
             \/ ReadStatesFails(w, m) \/ DelivererThrows(w, m)
             \/ SaveAttemptsFails(w, m) \/ StatementFails(w, m)
      PROVE  JobsOK'
  <2>1. CASE ReadStatesFails(w, m)
    <3>1. /\ [job[w][m] EXCEPT !.phase = "failure"] \in Job
          /\ [job[w][m] EXCEPT !.phase = "failure"].new = job[w][m].new
      BY <1>0 DEF Job, Phase
    <3> QED BY <1>0, <2>1, <3>1, SetJobType DEF ReadStatesFails
  <2>2. CASE DelivererThrows(w, m)
    <3>1. /\ [job[w][m] EXCEPT !.phase = "failure", !.new = {}] \in Job
          /\ [job[w][m] EXCEPT !.phase = "failure", !.new = {}].new = {}
      BY <1>0 DEF Job, Phase
    <3> QED BY <1>0, <2>2, <3>1, FS_EmptySet, SetJobType DEF DelivererThrows
  <2>3. CASE SaveAttemptsFails(w, m)
    BY <1>0, <2>3, NotSavedType DEF SaveAttemptsFails
  <2>4. CASE StatementFails(w, m)
    BY <1>0, <2>4, NoJobType, SetJobType DEF StatementFails, EndJob
  <2> QED BY <1>3, <2>1, <2>2, <2>3, <2>4
<1>4. ASSUME NEW i \in Instance, Crash(i) PROVE JobsOK'
  <2>1. \A w \in Worker : job'[w] \in {job[w], [m \in Message |-> NoJob]}
    BY <1>4 DEF Crash
  <2>2. job' = [w \in Worker |-> job'[w]]
    BY <1>4 DEF Crash
  <2> QED BY <1>0, <2>1, <2>2, NoJobType DEF JobsOK, Jobs
<1> QED BY <1>1, <1>2, <1>3, <1>4 DEF FaultStep

LEMMA JobsKept == ASSUME TypeInv, Next PROVE JobsOK'
<1>0. JobsOK
  BY DEF TypeInv
<1>1. ASSUME NEW w \in Worker, NEW m \in Message, TakeHint(w, m) \/ Cancel(w, m)
      PROVE  JobsOK'
  <2>1. [NoJob EXCEPT !.phase = "trylock"] \in Job /\ [NoJob EXCEPT !.phase = "trylock"].new = {}
    BY NoJobType DEF NoJob, Job, Phase
  <2> QED BY <1>0, <1>1, <2>1, NoJobType, FS_EmptySet, SetJobType DEF TakeHint, Cancel, EndJob
<1>2. ASSUME \/ \E m \in Message : Expire(m) \/ BecomeDue(m)
             \/ \E s \in Subscription : Deactivate(s)
      PROVE  JobsOK'
  BY <1>0, <1>2 DEF Expire, BecomeDue, Deactivate, work, JobsOK
<1> QED BY <1>1, <1>2, JobStepType, WorkerStepType, FaultType, BatchWorkerIsWorker DEF Next

\* Attempts are only added, those of one job at a time.
LEMMA AttemptsGrow ==
  ASSUME Next
  PROVE  \/ UNCHANGED attempts
         \/ \E w \in Worker, m \in Message :
              attempts' = [attempts EXCEPT ![m] = @ \cup job[w][m].new]
<1> USE DEF tables
<1>1. ASSUME NEW w \in Worker, NEW m \in Message, JobStep(w, m)
      PROVE  \/ UNCHANGED attempts
             \/ attempts' = [attempts EXCEPT ![m] = @ \cup job[w][m].new]
  BY <1>1 DEF JobStep, LockHinted, ReadStates, Deliver, SaveAttempts, Processed,
              HandleMessageFailure, DeadLetter, StatusWrite
<1>2. ASSUME NEW w \in BatchWorker, BatchStep(w) PROVE UNCHANGED attempts
  BY <1>2 DEF BatchStep, StartBatch, ReleaseLocks, LockBatch
<1>3. CASE FaultStep
  BY <1>3 DEF FaultStep, BatchFails, ReadSubscriptionsFails, ReaderTimesOut,
              ReadStatesFails, DelivererThrows, SaveAttemptsFails, StatementFails, Crash
<1>4. ASSUME NEW w \in Worker, ReadSubscriptions(w) PROVE UNCHANGED attempts
  BY <1>4 DEF ReadSubscriptions
<1>5. ASSUME NEW w \in Worker, NEW m \in Message, TakeHint(w, m) \/ Cancel(w, m)
      PROVE  UNCHANGED attempts
  BY <1>5 DEF TakeHint, Cancel
<1>6. ASSUME \/ \E m \in Message : Expire(m) \/ BecomeDue(m)
             \/ \E s \in Subscription : Deactivate(s)
      PROVE  UNCHANGED attempts
  BY <1>6 DEF Expire, BecomeDue, Deactivate
<1> QED BY <1>1, <1>2, <1>3, <1>4, <1>5, <1>6 DEF Next

LEMMA AttemptsKept == ASSUME TypeInv, Next PROVE AttemptsOK'
<1>1. CASE UNCHANGED attempts
  BY <1>1 DEF TypeInv, AttemptsOK
<1>2. ASSUME NEW w \in Worker, NEW m \in Message,
             attempts' = [attempts EXCEPT ![m] = @ \cup job[w][m].new]
      PROVE  AttemptsOK'
  <2>1. job[w][m].new \in SUBSET Attempt /\ IsFiniteSet(job[w][m].new)
    BY DEF TypeInv, JobsOK, Jobs, Job
  <2>2. IsFiniteSet(attempts[m] \cup job[w][m].new)
    BY <2>1, FS_Union DEF TypeInv, AttemptsOK
  <2> QED BY <1>2, <2>1, <2>2 DEF TypeInv, AttemptsOK
<1> QED BY <1>1, <1>2, AttemptsGrow

LEMMA PollKept == ASSUME TypeInv, Next PROVE PollOK'
<1> USE DEF TypeInv, PollOK, tables, poll, work
<1>1. ASSUME NEW w \in BatchWorker, BatchStep(w) PROVE PollOK'
  <2>1. \A i : HotInFlight(i) \subseteq Message
    BY DEF HotInFlight
  <2> QED BY <1>1, <2>1 DEF BatchStep, StartBatch, ReleaseLocks, LockBatch
<1>2. ASSUME NEW w \in Worker, ReadSubscriptions(w) PROVE PollOK'
  BY <1>2 DEF ReadSubscriptions
<1>3. ASSUME NEW w \in Worker, NEW m \in Message, JobStep(w, m) PROVE PollOK'
  BY <1>3 DEF JobStep, LockHinted, ReadStates, Deliver, SaveAttempts, Processed,
              HandleMessageFailure, DeadLetter, StatusWrite, Escape
<1>4. ASSUME NEW w \in Worker, NEW m \in Message, TakeHint(w, m) \/ Cancel(w, m)
      PROVE  PollOK'
  BY <1>4 DEF TakeHint, Cancel
<1>5. ASSUME \/ \E m \in Message : Expire(m) \/ BecomeDue(m)
             \/ \E s \in Subscription : Deactivate(s)
      PROVE  PollOK'
  BY <1>5 DEF Expire, BecomeDue, Deactivate
<1>6. ASSUME NEW i \in Instance, Crash(i) PROVE PollOK'
  BY <1>6 DEF Crash
<1>7. ASSUME NEW w \in BatchWorker, BatchFails(w) PROVE PollOK'
  BY <1>7 DEF BatchFails
<1>8. ASSUME NEW w \in Worker, ReadSubscriptionsFails(w) PROVE PollOK'
  BY <1>8 DEF ReadSubscriptionsFails
<1>9. ASSUME NEW w \in Worker, NEW m \in Message,
             \/ ReadStatesFails(w, m) \/ DelivererThrows(w, m)
             \/ SaveAttemptsFails(w, m) \/ StatementFails(w, m)
      PROVE  PollOK'
  BY <1>9 DEF ReadStatesFails, DelivererThrows, SaveAttemptsFails, StatementFails, Escape
<1>10. ASSUME NEW w \in Worker, ReaderTimesOut(w) PROVE PollOK'
  <2>1. HandlersOf(w) \subseteq Worker /\ ColdWorker \subseteq Worker
    BY DEF HandlersOf, Worker
  <2> QED BY <1>10, <2>1 DEF ReaderTimesOut
<1> QED BY <1>1, <1>2, <1>3, <1>4, <1>5, <1>6, <1>7, <1>8, <1>9, <1>10 DEF Next, FaultStep

LEMMA HistoryKept == ASSUME TypeInv, Next PROVE HistoryOK'
<1> USE PipelineAssumption DEF TypeInv, HistoryOK, budget, history
<1>1. ASSUME NEW w \in BatchWorker, BatchStep(w) PROVE HistoryOK'
  BY <1>1 DEF BatchStep, StartBatch, ReleaseLocks, LockBatch, Answered, AnswerLost, Fault
<1>2. ASSUME NEW w \in Worker, ReadSubscriptions(w) PROVE HistoryOK'
  BY <1>2 DEF ReadSubscriptions
<1>3. ASSUME NEW w \in Worker, NEW m \in Message, JobStep(w, m) PROVE HistoryOK'
  <2>1. ASSUME NEW s \in Subscription, Deliver(w, m, s) PROVE HistoryOK'
    BY <2>1 DEF Deliver
  <2> QED BY <1>3, <2>1 DEF JobStep, LockHinted, ReadStates, SaveAttempts, Processed,
                            HandleMessageFailure, DeadLetter, StatusWrite,
                            Answered, AnswerLost, Fault
<1>4. ASSUME NEW w \in Worker, NEW m \in Message, TakeHint(w, m) \/ Cancel(w, m)
      PROVE  HistoryOK'
  BY <1>4 DEF TakeHint, Cancel
<1>5. ASSUME \/ \E m \in Message : Expire(m) \/ BecomeDue(m)
             \/ \E s \in Subscription : Deactivate(s)
      PROVE  HistoryOK'
  BY <1>5 DEF Expire, BecomeDue, Deactivate
<1>6. ASSUME NEW i \in Instance, Crash(i) PROVE HistoryOK'
  BY <1>6 DEF Crash, Fault, LosesResults
<1>7. ASSUME NEW w \in BatchWorker, BatchFails(w) PROVE HistoryOK'
  BY <1>7 DEF BatchFails, Fault
<1>8. ASSUME NEW w \in Worker, ReadSubscriptionsFails(w) \/ ReaderTimesOut(w)
      PROVE  HistoryOK'
  BY <1>8 DEF ReadSubscriptionsFails, ReaderTimesOut, Fault
<1>9. ASSUME NEW w \in Worker, NEW m \in Message,
             \/ ReadStatesFails(w, m) \/ DelivererThrows(w, m)
             \/ SaveAttemptsFails(w, m) \/ StatementFails(w, m)
      PROVE  HistoryOK'
  BY <1>9 DEF ReadStatesFails, DelivererThrows, SaveAttemptsFails, StatementFails, Fault
<1> QED BY <1>1, <1>2, <1>3, <1>4, <1>5, <1>6, <1>7, <1>8, <1>9 DEF Next, FaultStep

LEMMA TypeInvInit == Init => TypeInv
<1> SUFFICES ASSUME Init PROVE TypeInv
  OBVIOUS
<1> USE DEF Init
<1>1. StoreInv
  BY NewRowInv DEF StoreInv, StoreTypeOK, RowInv
<1>2. JobsOK
  BY NoJobType DEF JobsOK, Jobs
<1>3. AttemptsOK
  BY FS_EmptySet DEF AttemptsOK
<1>4. PollOK
  <2>1. {Host[w] : w \in HotWorker} \subseteq Instance
    BY PipelineAssumption DEF Worker
  <2> QED BY <2>1 DEF PollOK
<1>5. HistoryOK
  BY PipelineAssumption DEF HistoryOK
<1> QED BY <1>1, <1>2, <1>3, <1>4, <1>5 DEF TypeInv

LEMMA TypeInvKept == TypeInv /\ [Next]_vars => TypeInv'
<1> SUFFICES ASSUME TypeInv, [Next]_vars PROVE TypeInv'
  OBVIOUS
<1>1. CASE Next
  <2>1. StoreInv'
    BY <1>1, TypeInvIsTypeOK, NextIsStoreStep, StoreInvKept DEF TypeInv
  <2> QED BY <1>1, <2>1, JobsKept, AttemptsKept, PollKept, HistoryKept DEF TypeInv
<1>2. CASE UNCHANGED vars
  <2>1. UNCHANGED <<row, attempts, active, hint, pc, skip, stopped, job, cancelled,
                    faults, overruns, acks, disturbed>>
    BY <1>2 DEF vars, tables, poll, work, budget, history
  <2>2. StoreInv'
    BY <2>1 DEF TypeInv, StoreInv, StoreTypeOK
  <2> QED BY <2>1, <2>2 DEF TypeInv, JobsOK, AttemptsOK, PollOK, HistoryOK
<1> QED BY <1>1, <1>2

LEMMA TypeInvariant == Spec => []TypeInv
BY TypeInvInit, TypeInvKept, PTL DEF Spec

\* Type correctness of tables and jobs.
THEOREM TypeCorrect == Spec => []TypeOK
BY TypeInvariant, TypeInvIsTypeOK, PTL

\* The pipeline reaches the table through the operations of the store alone,
\* so all that holds of the store under arbitrary callers holds here.
THEOREM PipelineUsesStore == Spec => [][StoreStep]_row
<1>1. TypeInv /\ [Next]_vars => [StoreStep]_row
  <2>1. TypeInv /\ UNCHANGED vars => [StoreStep]_row
    BY DEF vars, tables
  <2> QED BY <2>1, TypeInvIsTypeOK, NextIsStoreStep
<1> QED BY <1>1, TypeInvariant, PTL DEF Spec

-----------------------------------------------------------------------------
(* 3. The steps, as one message sees them *)

IsStatusWrite(w, m) == Processed(w, m) \/ HandleMessageFailure(w, m) \/ DeadLetter(w, m)

\* The steps that read or add to what is recorded about m.
AttemptStep(w, m) ==
  ReadStates(w, m) \/ SaveAttempts(w, m) \/ \E s \in Subscription : Deliver(w, m, s)

Demoted(j) == [j EXCEPT !.current = FALSE]

\* w takes the lock of m, which nobody held; its answer may be lost.
LockTaken(w, m) ==
  /\ row[m].lease # "held"
  /\ row'[m] = Locked(row[m], Host[w])
  /\ ~Working(w, m)
  /\ job'[w][m] \in {NewJob(m), NoJob, Demoted(job[w][m])}
  /\ \A v \in Worker \ {w} : job'[v][m] = Demoted(job[v][m])

LockReleased(m) ==
  /\ row[m].lease # "held"
  /\ row'[m] = Unlocked(row[m], "Pending")
  /\ \A v \in Worker : job'[v][m] = Demoted(job[v][m])

\* What becomes of job j in a step that is not about the lock or the records of
\* its message.  lost: the step puts the message among the disturbed ones.
Rests(j, k, lost) ==
  \/ k = j
  \/ k = NoJob /\ (j.phase \in {"deliver", "save"} => lost)
  \/ j.phase = "idle" /\ k = [NoJob EXCEPT !.phase = "trylock"]
  \/ /\ j.phase = "subs"
     /\ \E p \in {"processed", "states"} : k = [j EXCEPT !.subs = active, !.phase = p]
  \/ j.phase = "states" /\ k = [j EXCEPT !.phase = "failure"]
  \/ j.phase = "deliver" /\ lost /\ k = [j EXCEPT !.phase = "failure", !.new = {}]
  \/ j.phase = "save" /\ lost /\ k = [j EXCEPT !.phase = Decision(j)]

AllRest(m) == \A v \in Worker : Rests(job[v][m], job'[v][m], m \in disturbed')

\* Every step is one of these for every message (MessageSteps).
MessageStep(m) ==
  \/ \E w \in Worker : LockTaken(w, m) \/ AttemptStep(w, m) \/ IsStatusWrite(w, m)
  \/ LockReleased(m)
  \/ Expire(m) \/ BecomeDue(m)
  \/ row'[m] = row[m] /\ AllRest(m)

\* A worker that polls has no job: it locks its next batch when it is idle.
IdleInv == \A w \in BatchWorker : pc[w] # "idle" => Idle(w)

LEMMA SupersededFields ==
  ASSUME NEW ms, JobsOK, NEW w \in Worker, NEW m \in Message
  PROVE  Superseded(ms)[w][m] = IF m \in ms THEN Demoted(job[w][m]) ELSE job[w][m]
BY DEF Superseded, Demoted

\* The fields of a job that lost its lock to another.
LEMMA DemotedFields ==
  ASSUME NEW j \in Job
  PROVE  /\ Demoted(j) \in Job /\ Demoted(j).current = FALSE /\ ~Demoted(j).current
         /\ Demoted(j).phase = j.phase /\ Demoted(j).retryCount = j.retryCount
         /\ Demoted(j).subs = j.subs /\ Demoted(j).done = j.done
         /\ Demoted(j).count = j.count /\ Demoted(j).new = j.new
BY DEF Demoted, Job

\* Nothing happens to m.
LEMMA UntouchedRests ==
  ASSUME NEW m \in Message, row'[m] = row[m],
         \A v \in Worker : job'[v][m] = job[v][m]
  PROVE  MessageStep(m)
BY DEF MessageStep, AllRest, Rests

\* Job (w, n) moves to k, all others stay as they are.
LEMMA SetJobFrame ==
  ASSUME JobsOK, NEW w \in Worker, NEW n \in Message, NEW k, SetJob(w, n, k)
  PROVE  \A v \in Worker, m \in Message :
           job'[v][m] = IF v = w /\ m = n THEN k ELSE job[v][m]
BY DEF SetJob, JobsOK, Jobs

\* One job moves in a step that neither locks nor writes a status.
LEMMA OneJobRests ==
  ASSUME JobsOK, UNCHANGED row, NEW w \in Worker, NEW n \in Message, NEW k,
         SetJob(w, n, k), Rests(job[w][n], k, n \in disturbed'),
         NEW m \in Message
  PROVE  MessageStep(m)
<1>1. \A v \in Worker : job'[v][m] = IF v = w /\ m = n THEN k ELSE job[v][m]
  BY SetJobFrame
<1>2. AllRest(m)
  BY <1>1 DEF AllRest, Rests
<1> QED BY <1>2 DEF MessageStep

\* The batch statements.
LEMMA BatchMessageStep ==
  ASSUME TypeInv, IdleInv, NEW w \in BatchWorker, BatchStep(w), NEW m \in Message
  PROVE  MessageStep(m)
<1>0. JobsOK /\ job \in Jobs /\ w \in Worker
  BY BatchWorkerIsWorker DEF TypeInv, JobsOK
<1>1. CASE StartBatch(w)
  BY <1>1, UntouchedRests DEF StartBatch, tables
<1>2. CASE ReleaseLocks(w)
  <2>1. CASE UNCHANGED <<row, job>>
    BY <2>1, UntouchedRests
  <2>2. CASE ReleaseExpiredLocks /\ job' = Superseded(ExpiredLocks)
    <3>1. CASE m \in ExpiredLocks
      <4>1. row[m].lease # "held" /\ row'[m] = Unlocked(row[m], "Pending")
        BY <2>2, <3>1 DEF ReleaseExpiredLocks, ExpiredLocks
      <4>2. \A v \in Worker : job'[v][m] = Demoted(job[v][m])
        BY <1>0, <2>2, <3>1, SupersededFields
      <4> QED BY <4>1, <4>2 DEF MessageStep, LockReleased
    <3>2. CASE m \notin ExpiredLocks
      BY <1>0, <2>2, <3>2, SupersededFields, UntouchedRests DEF ReleaseExpiredLocks
    <3> QED BY <3>1, <3>2
  <2> QED BY <1>2, <2>1, <2>2 DEF ReleaseLocks
<1>3. CASE LockBatch(w)
  <2>1. PICK batch \in SUBSET Message :
           /\ LockNextBatch(Host[w], skip[w], batch)
           /\ \/ job' = [Superseded(batch) EXCEPT ![w] =
                   [n \in Message |-> IF n \in batch THEN NewJob(n) ELSE @[n]]]
              \/ job' = Superseded(batch)
    BY <1>3 DEF LockBatch
  <2>2. Superseded(batch) \in Jobs
    BY <1>0, SupersededType
  <2>3. /\ \A v \in Worker \ {w} : job'[v][m] = Superseded(batch)[v][m]
        /\ job'[w][m] = Superseded(batch)[w][m] \/ (m \in batch /\ job'[w][m] = NewJob(m))
    BY <1>0, <2>1, <2>2 DEF Jobs
  <2>4. \A v \in Worker :
          Superseded(batch)[v][m] = IF m \in batch THEN Demoted(job[v][m]) ELSE job[v][m]
    BY <1>0, SupersededFields
  <2>5. CASE m \in batch
    <3>1. row[m].lease # "held" /\ row'[m] = Locked(row[m], Host[w])
      BY <2>1, <2>5 DEF LockNextBatch, IsOldestOf, Eligible, LockableByScan
    <3>2. ~Working(w, m)
      BY <1>3 DEF LockBatch, IdleInv, Idle, Busy, Working
    <3>3. LockTaken(w, m)
      BY <1>0, <2>3, <2>4, <2>5, <3>1, <3>2 DEF LockTaken
    <3> QED BY <1>0, <3>3 DEF MessageStep
  <2>6. CASE m \notin batch
    <3>1. row'[m] = row[m]
      BY <2>1, <2>6 DEF LockNextBatch
    <3>2. \A v \in Worker : job'[v][m] = job[v][m]
      BY <2>3, <2>4, <2>6
    <3> QED BY <3>1, <3>2, UntouchedRests
  <2> QED BY <2>5, <2>6
<1> QED BY <1>1, <1>2, <1>3 DEF BatchStep

LEMMA LockHintedMessageStep ==
  ASSUME TypeInv, NEW w \in Worker, NEW n \in Message, LockHinted(w, n), NEW m \in Message
  PROVE  MessageStep(m)
<1>0. JobsOK /\ job \in Jobs /\ row \in [Message -> Row]
  BY DEF TypeInv, JobsOK, StoreInv, StoreTypeOK
<1>1. CASE ~LockableById(row[n])
  <2>1. UNCHANGED row /\ SetJob(w, n, NoJob) /\ job[w][n].phase = "trylock"
    BY <1>1 DEF LockHinted, TryLockById, EndJob
  <2>2. Rests(job[w][n], NoJob, n \in disturbed')
    BY <2>1 DEF Rests
  <2> QED BY <1>0, <2>1, <2>2, OneJobRests
<1>2. CASE LockableById(row[n])
  <2>1. PICK k \in {NewJob(n), NoJob} :
           /\ row' = [row EXCEPT ![n] = Locked(row[n], Host[w])]
           /\ job' = [Superseded({n}) EXCEPT ![w][n] = k]
    BY <1>2 DEF LockHinted, TryLockById
  <2>2. Superseded({n}) \in Jobs
    BY <1>0, SupersededType
  <2>3. \A v \in Worker : job'[v][m] = IF v = w /\ m = n THEN k ELSE Superseded({n})[v][m]
    BY <2>1, <2>2 DEF Jobs
  <2>4. \A v \in Worker :
          Superseded({n})[v][m] = IF m \in {n} THEN Demoted(job[v][m]) ELSE job[v][m]
    BY <1>0, SupersededFields
  <2>5. CASE m = n
    <3>1. row[m].lease # "held" /\ row'[m] = Locked(row[m], Host[w])
      BY <1>0, <1>2, <2>1, <2>5 DEF LockableById
    <3>2. ~Working(w, m)
      BY <2>5 DEF LockHinted, Working
    <3>3. LockTaken(w, m)
      BY <2>3, <2>4, <2>5, <3>1, <3>2 DEF LockTaken
    <3> QED BY <3>3 DEF MessageStep
  <2>6. CASE m # n
    <3>1. row'[m] = row[m]
      BY <1>0, <2>1, <2>6
    <3>2. \A v \in Worker : job'[v][m] = job[v][m]
      BY <2>3, <2>4, <2>6
    <3> QED BY <3>1, <3>2, UntouchedRests
  <2> QED BY <2>5, <2>6
<1> QED BY <1>1, <1>2

\* The awaits of one job, apart from those that lock, record or write a status.
LEMMA JobMessageStep ==
  ASSUME TypeInv, NEW w \in Worker, NEW n \in Message,
         \/ TakeHint(w, n) \/ Cancel(w, n) \/ ReadStatesFails(w, n)
         \/ DelivererThrows(w, n) \/ SaveAttemptsFails(w, n) \/ StatementFails(w, n),
         NEW m \in Message
  PROVE  MessageStep(m)
<1> DEFINE j == job[w][n]
<1>0. JobsOK
  BY DEF TypeInv
<1>1. UNCHANGED row
  BY DEF TakeHint, Cancel, ReadStatesFails, DelivererThrows, SaveAttemptsFails,
         StatementFails, tables
<1>2. \E k : SetJob(w, n, k) /\ Rests(j, k, n \in disturbed')
  <2>1. CASE TakeHint(w, n)
    BY <2>1 DEF TakeHint, Idle, Busy, Rests
  <2>2. CASE Cancel(w, n)
    <3>1. j.phase \in {"deliver", "save"} => n \in disturbed'
      BY <2>2 DEF Cancel, LosesResults
    <3> QED BY <2>2, <3>1 DEF Cancel, EndJob, Rests
  <2>3. CASE ReadStatesFails(w, n)
    BY <2>3 DEF ReadStatesFails, Rests
  <2>4. CASE DelivererThrows(w, n)
    BY <2>4 DEF DelivererThrows, Rests
  <2>5. CASE SaveAttemptsFails(w, n)
    BY <2>5 DEF SaveAttemptsFails, NotSaved, Rests
  <2>6. CASE StatementFails(w, n)
    BY <2>6 DEF StatementFails, EndJob, Rests
  <2> QED BY <2>1, <2>2, <2>3, <2>4, <2>5, <2>6
<1> QED BY <1>0, <1>1, <1>2, OneJobRests

\* A step on the records of n leaves the other messages alone.
LEMMA AttemptMessageStep ==
  ASSUME TypeInv, NEW w \in Worker, NEW n \in Message, AttemptStep(w, n), NEW m \in Message
  PROVE  MessageStep(m)
<1>1. CASE m = n
  BY <1>1 DEF MessageStep
<1>2. CASE m # n
  <2>1. UNCHANGED row /\ \E k : SetJob(w, n, k)
    BY DEF AttemptStep, ReadStates, SaveAttempts, Deliver, NotSaved, tables
  <2> QED BY <1>2, <2>1, SetJobFrame, UntouchedRests DEF TypeInv
<1> QED BY <1>1, <1>2

\* A status write of w for n: its effect on the jobs and on the other rows.
LEMMA StatusWriteFrame ==
  ASSUME TypeInv, NEW w \in Worker, NEW n \in Message, IsStatusWrite(w, n)
  PROVE  /\ \A m \in Message \ {n} : row'[m] = row[m]
         /\ ~Owns(Host[w], n) => UNCHANGED row
         /\ \A v \in Worker, m \in Message :
              job'[v][m] = IF m # n THEN job[v][m]
                           ELSE IF v = w THEN NoJob
                           ELSE IF Owns(Host[w], n) THEN Demoted(job[v][m]) ELSE job[v][m]
<1>0. JobsOK /\ job \in Jobs /\ row \in [Message -> Row]
  BY DEF TypeInv, JobsOK, StoreInv, StoreTypeOK
<1>1. \E r : row' = IF Owns(Host[w], n) THEN [row EXCEPT ![n] = r] ELSE row
  BY DEF IsStatusWrite, Processed, HandleMessageFailure, DeadLetter, MarkAsProcessed,
         MarkAsDeadLettered, IncrementRetry, GiveUp
<1>2. job' = [(IF Owns(Host[w], n) THEN Superseded({n}) ELSE job) EXCEPT ![w][n] = NoJob]
  BY DEF IsStatusWrite, Processed, HandleMessageFailure, DeadLetter, StatusWrite
<1>3. \A v \in Worker, m \in Message :
        Superseded({n})[v][m] = IF m \in {n} THEN Demoted(job[v][m]) ELSE job[v][m]
  BY <1>0, SupersededFields
<1>4. Superseded({n}) \in Jobs
  BY <1>0, SupersededType
<1>5. CASE Owns(Host[w], n)
  <2>1. \A v \in Worker, m \in Message :
          job'[v][m] = IF v = w /\ m = n THEN NoJob ELSE Superseded({n})[v][m]
    BY <1>2, <1>4, <1>5 DEF Jobs
  <2>2. \A v \in Worker, m \in Message :
          Superseded({n})[v][m] = IF m = n THEN Demoted(job[v][m]) ELSE job[v][m]
    BY <1>3
  <2>3. \A m \in Message \ {n} : row'[m] = row[m]
    BY <1>0, <1>1, <1>5
  <2> QED BY <1>5, <2>1, <2>2, <2>3
<1>6. CASE ~Owns(Host[w], n)
  <2>1. \A v \in Worker, m \in Message :
          job'[v][m] = IF v = w /\ m = n THEN NoJob ELSE job[v][m]
    BY <1>0, <1>2, <1>6 DEF Jobs
  <2> QED BY <1>0, <1>1, <1>6, <2>1
<1> QED BY <1>5, <1>6

\* The steps of a worker that concern all its jobs in phase "subs".
LEMMA SubscriptionsMessageStep ==
  ASSUME TypeInv, NEW w \in Worker,
         ReadSubscriptions(w) \/ ReadSubscriptionsFails(w) \/ ReaderTimesOut(w),
         NEW m \in Message
  PROVE  MessageStep(m)
<1> DEFINE j == job[w][m]
<1>0. job \in Jobs
  BY DEF TypeInv, JobsOK
<1>1. row'[m] = row[m]
  BY DEF ReadSubscriptions, ReadSubscriptionsFails, ReaderTimesOut, tables
<1>2. CASE ReadSubscriptions(w)
  <2>1. \A v \in Worker \ {w} : job'[v][m] = job[v][m]
    BY <1>0, <1>2 DEF ReadSubscriptions, Jobs
  <2>2. job'[w][m] = IF j.phase # "subs" THEN j
          ELSE [j EXCEPT !.subs = active,
                         !.phase = IF active = {} THEN "processed" ELSE "states"]
    BY <1>0, <1>2 DEF ReadSubscriptions, Jobs
  <2>3. Rests(j, job'[w][m], m \in disturbed')
    BY <2>2 DEF Rests
  <2> QED BY <1>1, <2>1, <2>3 DEF MessageStep, AllRest, Rests
<1>3. CASE ReadSubscriptionsFails(w) \/ ReaderTimesOut(w)
  <2>1. /\ \A v \in Worker \ {w} : job'[v][m] = job[v][m]
        /\ job'[w][m] = IF j.phase = "subs" THEN NoJob ELSE j
    BY <1>0, <1>3 DEF ReadSubscriptionsFails, ReaderTimesOut, Jobs
  <2> QED BY <1>1, <2>1 DEF MessageStep, AllRest, Rests
<1> QED BY <1>2, <1>3

\* Every step of the pipeline, as any message sees it.
LEMMA MessageSteps ==
  ASSUME TypeInv, IdleInv, Next, NEW m \in Message
  PROVE  MessageStep(m)
<1>0. row \in [Message -> Row]
  BY DEF TypeInv, StoreInv, StoreTypeOK
<1>1. ASSUME NEW w \in Worker, NEW n \in Message, IsStatusWrite(w, n) PROVE MessageStep(m)
  <2>1. CASE m = n
    BY <1>1, <2>1 DEF MessageStep
  <2>2. CASE m # n
    BY <1>1, <2>2, StatusWriteFrame, UntouchedRests
  <2> QED BY <2>1, <2>2
<1>2. ASSUME NEW w \in Worker, NEW n \in Message, JobStep(w, n) PROVE MessageStep(m)
  BY <1>1, <1>2, LockHintedMessageStep, AttemptMessageStep
     DEF JobStep, AttemptStep, IsStatusWrite
<1>3. ASSUME NEW n \in Message, Expire(n) PROVE MessageStep(m)
  <2>1. CASE m = n
    BY <1>3, <2>1 DEF MessageStep
  <2>2. CASE m # n
    <3>1. row'[m] = row[m] /\ UNCHANGED job
      BY <1>0, <1>3, <2>2 DEF Expire, LeaseExpires, work
    <3> QED BY <3>1, UntouchedRests
  <2> QED BY <2>1, <2>2
<1>4. ASSUME NEW n \in Message, BecomeDue(n) PROVE MessageStep(m)
  <2>1. CASE m = n
    BY <1>4, <2>1 DEF MessageStep
  <2>2. CASE m # n
    <3>1. row'[m] = row[m] /\ UNCHANGED job
      BY <1>0, <1>4, <2>2 DEF BecomeDue, RetryDue, work
    <3> QED BY <3>1, UntouchedRests
  <2> QED BY <2>1, <2>2
<1>5. ASSUME \/ \E s \in Subscription : Deactivate(s)
             \/ \E w \in BatchWorker : BatchFails(w)
      PROVE  MessageStep(m)
  BY <1>5, UntouchedRests DEF Deactivate, BatchFails, work, tables
<1>6. ASSUME NEW i \in Instance, Crash(i) PROVE MessageStep(m)
  <2> DEFINE ws == {w \in Worker : Host[w] = i}
  <2>1. UNCHANGED row
    BY <1>6 DEF Crash, tables
  <2>2. \A v \in Worker : job'[v][m] = IF v \in ws THEN NoJob ELSE job[v][m]
    BY <1>6 DEF Crash
  <2>3. \A v \in ws : job[v][m].phase \in {"deliver", "save"} => m \in disturbed'
    BY <1>6 DEF Crash, LosesResults
  <2> HIDE DEF ws
  <2>4. AllRest(m)
    BY <2>2, <2>3 DEF AllRest, Rests
  <2> QED BY <2>1, <2>4 DEF MessageStep
<1>7. CASE FaultStep
  BY <1>5, <1>6, <1>7, JobMessageStep, SubscriptionsMessageStep DEF FaultStep
<1> QED BY <1>2, <1>3, <1>4, <1>5, <1>7, BatchMessageStep, JobMessageStep,
           SubscriptionsMessageStep DEF Next

\* What is recorded about m changes in no other step.
LEMMA RecordsStep ==
  ASSUME TypeInv, Next, NEW m \in Message, \A w \in Worker : ~AttemptStep(w, m)
  PROVE  attempts'[m] = attempts[m] /\ acks'[m] = acks[m]
<1> USE DEF tables, history
<1>1. ASSUME NEW w \in Worker, NEW n \in Message, AttemptStep(w, n)
      PROVE  attempts'[m] = attempts[m] /\ acks'[m] = acks[m]
  <2>1. m # n
    BY <1>1
  <2>2. attempts \in [Message -> SUBSET Attempt] /\ acks \in [Message -> [Subscription -> 0..2]]
    BY DEF TypeInv, AttemptsOK, HistoryOK
  <2>3. CASE ReadStates(w, n) \/ SaveAttempts(w, n)
    BY <2>1, <2>2, <2>3 DEF ReadStates, SaveAttempts
  <2>4. ASSUME NEW s \in Subscription, Deliver(w, n, s)
        PROVE  attempts'[m] = attempts[m] /\ acks'[m] = acks[m]
    BY <2>1, <2>2, <2>4 DEF Deliver
  <2> QED BY <1>1, <2>3, <2>4 DEF AttemptStep
<1>2. ASSUME NEW w \in Worker, NEW n \in Message, JobStep(w, n)
      PROVE  attempts'[m] = attempts[m] /\ acks'[m] = acks[m]
  <2>1. CASE AttemptStep(w, n)
    BY <1>1, <2>1
  <2>2. CASE LockHinted(w, n) \/ IsStatusWrite(w, n)
    BY <2>2 DEF LockHinted, IsStatusWrite, Processed, HandleMessageFailure, DeadLetter, StatusWrite
  <2> QED BY <1>2, <2>1, <2>2 DEF JobStep, AttemptStep, IsStatusWrite
<1>3. ASSUME NEW w \in BatchWorker, BatchStep(w) PROVE UNCHANGED <<attempts, acks>>
  BY <1>3 DEF BatchStep, StartBatch, ReleaseLocks, LockBatch
<1>4. ASSUME NEW w \in Worker, NEW n \in Message, TakeHint(w, n) \/ Cancel(w, n)
      PROVE  UNCHANGED <<attempts, acks>>
  BY <1>4 DEF TakeHint, Cancel
<1>5. ASSUME \/ \E w \in Worker : ReadSubscriptions(w)
             \/ \E n \in Message : Expire(n) \/ BecomeDue(n)
             \/ \E s \in Subscription : Deactivate(s)
      PROVE  UNCHANGED <<attempts, acks>>
  BY <1>5 DEF ReadSubscriptions, Expire, BecomeDue, Deactivate
<1>6. CASE FaultStep
  BY <1>6 DEF FaultStep, BatchFails, ReadSubscriptionsFails, ReaderTimesOut,
              ReadStatesFails, DelivererThrows, SaveAttemptsFails, StatementFails, Crash
<1> QED BY <1>2, <1>3, <1>4, <1>5, <1>6 DEF Next

\* No step takes back an overrun.
LEMMA OverrunsGrow ==
  ASSUME TypeInv, Next
  PROVE  overruns <= overruns' /\ (overruns' = 0 => overruns = 0)
<1> DEFINE Grows == UNCHANGED overruns \/ overruns' = overruns + 1
<1> USE DEF budget
<1>1. ASSUME NEW w \in BatchWorker, BatchStep(w) PROVE Grows
  BY <1>1 DEF BatchStep, StartBatch, ReleaseLocks, LockBatch
<1>2. ASSUME NEW w \in Worker, ReadSubscriptions(w) PROVE Grows
  BY <1>2 DEF ReadSubscriptions
<1>3. ASSUME NEW w \in Worker, NEW m \in Message,
             TakeHint(w, m) \/ JobStep(w, m) \/ Cancel(w, m)
      PROVE  Grows
  BY <1>3 DEF TakeHint, JobStep, LockHinted, ReadStates, Deliver, SaveAttempts, Processed,
              HandleMessageFailure, DeadLetter, StatusWrite, Cancel
<1>4. ASSUME \/ \E m \in Message : Expire(m) \/ BecomeDue(m)
             \/ \E s \in Subscription : Deactivate(s)
      PROVE  Grows
  BY <1>4 DEF Expire, BecomeDue, Deactivate
<1>5. ASSUME FaultStep PROVE Grows
  BY <1>5 DEF FaultStep, BatchFails, ReadSubscriptionsFails, ReaderTimesOut,
              ReadStatesFails, DelivererThrows, SaveAttemptsFails, StatementFails, Crash
<1>6. Grows
  BY <1>1, <1>2, <1>3, <1>4, <1>5 DEF Next
<1> QED BY <1>6 DEF TypeInv, HistoryOK

\* No disturbance is forgotten.
LEMMA DisturbedGrows == ASSUME TypeInv, Next PROVE disturbed \subseteq disturbed'
<1> DEFINE Grows == disturbed \subseteq disturbed'
<1> USE DEF history
<1>1. ASSUME NEW w \in BatchWorker, BatchStep(w) PROVE Grows
  BY <1>1 DEF BatchStep, StartBatch, ReleaseLocks, LockBatch
<1>2. ASSUME NEW w \in Worker, ReadSubscriptions(w) PROVE Grows
  BY <1>2 DEF ReadSubscriptions
<1>3. ASSUME NEW w \in Worker, NEW m \in Message,
             TakeHint(w, m) \/ JobStep(w, m) \/ Cancel(w, m)
      PROVE  Grows
  <2>1. ASSUME NEW s \in Subscription, Deliver(w, m, s) PROVE Grows
    BY <2>1 DEF Deliver
  <2> QED BY <1>3, <2>1 DEF TakeHint, JobStep, LockHinted, ReadStates, SaveAttempts, Processed,
                            HandleMessageFailure, DeadLetter, StatusWrite, Cancel
<1>4. ASSUME \/ \E m \in Message : Expire(m) \/ BecomeDue(m)
             \/ \E s \in Subscription : Deactivate(s)
      PROVE  Grows
  BY <1>4 DEF Expire, BecomeDue, Deactivate
<1>5. CASE FaultStep
  BY <1>5 DEF FaultStep, BatchFails, ReadSubscriptionsFails, ReaderTimesOut,
              ReadStatesFails, DelivererThrows, SaveAttemptsFails, StatementFails, Crash
<1> QED BY <1>1, <1>2, <1>3, <1>4, <1>5 DEF Next

\* A job step takes a job at work: the jobs of an idle worker stay as they are,
\* except that another may take its locks.
LEMMA IdleBatchWorkerStays ==
  ASSUME TypeInv, Next, NEW w \in BatchWorker, Idle(w)
  PROVE  Idle(w)' \/ pc'[w] = "idle"
<1>0. JobsOK /\ job \in Jobs /\ w \in Worker /\ pc \in [BatchWorker -> {"idle", "release", "lock"}]
  BY BatchWorkerIsWorker DEF TypeInv, JobsOK, PollOK
<1>1. \A m \in Message : job[w][m].phase = "idle"
  BY DEF Idle, Busy
<1>2. \A ms : \A m \in Message : Superseded(ms)[w][m].phase = "idle"
  <2>1. \A m \in Message : job[w][m] \in Job
    BY <1>0 DEF Jobs
  <2> QED BY <1>0, <1>1, <2>1, DemotedFields DEF Superseded, Demoted
<1>3. ASSUME \A m \in Message : job'[w][m].phase = "idle" PROVE Idle(w)'
  BY <1>3 DEF Idle, Busy
<1>4. ASSUME NEW v \in BatchWorker, BatchStep(v) PROVE Idle(w)' \/ pc'[w] = "idle"
  <2>1. CASE StartBatch(v)
    BY <1>1, <1>3, <2>1 DEF StartBatch
  <2>2. CASE ReleaseLocks(v)
    <3>1. UNCHANGED job \/ \E ms : job' = Superseded(ms)
      BY <2>2 DEF ReleaseLocks
    <3> QED BY <1>1, <1>2, <1>3, <3>1
  <2>3. CASE LockBatch(v) /\ v = w
    BY <1>0, <2>3 DEF LockBatch
  <2>4. CASE LockBatch(v) /\ v # w
    <3>1. PICK batch \in SUBSET Message :
             \/ job' = [Superseded(batch) EXCEPT ![v] =
                  [m \in Message |-> IF m \in batch THEN NewJob(m) ELSE @[m]]]
             \/ job' = Superseded(batch)
      BY <2>4 DEF LockBatch
    <3>2. job'[w] = Superseded(batch)[w]
      BY <1>0, <2>4, <3>1, SupersededType DEF Jobs
    <3> QED BY <1>2, <1>3, <3>2
  <2> QED BY <1>4, <2>1, <2>2, <2>3, <2>4 DEF BatchStep
<1>5. ASSUME NEW v \in Worker, NEW n \in Message, NEW k, SetJob(v, n, k), v # w
      PROVE  Idle(w)'
  BY <1>0, <1>1, <1>3, <1>5, SetJobFrame
<1>6. ASSUME NEW v \in Worker, NEW n \in Message, AttemptStep(v, n) PROVE Idle(w)'
  <2>1. job[v][n].phase # "idle" /\ \E k : SetJob(v, n, k)
    BY <1>6 DEF AttemptStep, ReadStates, SaveAttempts, Deliver, NotSaved
  <2> QED BY <1>1, <1>5, <2>1
<1>7. ASSUME NEW v \in Worker, NEW n \in Message, IsStatusWrite(v, n) PROVE Idle(w)'
  <2>1. v # w
    BY <1>1, <1>7 DEF IsStatusWrite, Processed, HandleMessageFailure, DeadLetter
  <2>2. \A m \in Message : job'[w][m] \in {job[w][m], Demoted(job[w][m])}
    BY <1>0, <1>7, <2>1, StatusWriteFrame
  <2>3. \A m \in Message : job[w][m] \in Job
    BY <1>0 DEF Jobs
  <2>4. ASSUME NEW m \in Message PROVE job'[w][m].phase = "idle"
    <3>1. Demoted(job[w][m]).phase = job[w][m].phase
      BY <2>3, DemotedFields
    <3> QED BY <1>1, <2>2, <3>1
  <2> QED BY <1>3, <2>4
<1>8. ASSUME NEW v \in Worker, NEW n \in Message, LockHinted(v, n) PROVE Idle(w)'
  <2>1. v # w
    BY <1>1, <1>8 DEF LockHinted
  <2>2. \/ \E k : job' = [Superseded({n}) EXCEPT ![v][n] = k]
        \/ SetJob(v, n, NoJob)
    BY <1>8 DEF LockHinted, EndJob
  <2>3. ASSUME NEW k, job' = [Superseded({n}) EXCEPT ![v][n] = k] PROVE Idle(w)'
    <3>1. Superseded({n}) \in Jobs
      BY <1>0, SupersededType
    <3>2. job'[w] = Superseded({n})[w]
      BY <1>0, <2>1, <2>3, <3>1 DEF Jobs
    <3> QED BY <1>2, <1>3, <3>2
  <2> QED BY <1>5, <2>1, <2>2, <2>3
<1>9. ASSUME NEW v \in Worker, NEW n \in Message,
             \/ Cancel(v, n) \/ ReadStatesFails(v, n) \/ DelivererThrows(v, n)
             \/ SaveAttemptsFails(v, n) \/ StatementFails(v, n)
      PROVE  Idle(w)'
  <2>1. job[v][n].phase # "idle" /\ \E k : SetJob(v, n, k)
    BY <1>9 DEF Cancel, ReadStatesFails, DelivererThrows, SaveAttemptsFails, StatementFails,
                NotSaved, EndJob, Busy
  <2> QED BY <1>1, <1>5, <2>1
<1>10. ASSUME NEW v \in Worker, NEW n \in Message, TakeHint(v, n) PROVE Idle(w)'
  <2>1. v # w
    BY <1>10, PipelineAssumption DEF TakeHint
  <2> QED BY <1>5, <1>10, <2>1 DEF TakeHint
<1>11. ASSUME NEW v \in Worker,
              ReadSubscriptions(v) \/ ReadSubscriptionsFails(v) \/ ReaderTimesOut(v)
       PROVE  Idle(w)'
  <2>1. v # w
    BY <1>1, <1>11 DEF ReadSubscriptions, ReadSubscriptionsFails, ReaderTimesOut
  <2>2. job'[w] = job[w]
    BY <1>0, <1>11, <2>1 DEF ReadSubscriptions, ReadSubscriptionsFails, ReaderTimesOut, Jobs
  <2> QED BY <1>1, <1>3, <2>2
<1>12. ASSUME \/ \E m \in Message : Expire(m) \/ BecomeDue(m)
              \/ \E s \in Subscription : Deactivate(s)
              \/ \E v \in BatchWorker : BatchFails(v)
              \/ \E i \in Instance : Crash(i)
       PROVE  Idle(w)'
  <2>1. \A m \in Message : job'[w][m] \in {job[w][m], NoJob}
    BY <1>0, <1>12 DEF Expire, BecomeDue, Deactivate, BatchFails, Crash, work
  <2> QED BY <1>1, <1>3, <2>1 DEF NoJob
<1>13. CASE FaultStep
  BY <1>9, <1>11, <1>12, <1>13 DEF FaultStep
<1>14. ASSUME NEW v \in Worker, NEW n \in Message, JobStep(v, n) PROVE Idle(w)'
  BY <1>6, <1>7, <1>8, <1>14 DEF JobStep, AttemptStep, IsStatusWrite
<1> QED BY <1>4, <1>9, <1>10, <1>11, <1>12, <1>13, <1>14 DEF Next

\* Only an idle worker starts to poll.
LEMMA PollingStartsIdle ==
  ASSUME TypeInv, Next, NEW w \in BatchWorker, pc'[w] # "idle", pc[w] = "idle"
  PROVE  Idle(w)
<1> USE DEF poll
<1>0. pc \in [BatchWorker -> {"idle", "release", "lock"}]
  BY DEF TypeInv, PollOK
<1>1. ASSUME NEW v \in BatchWorker, BatchStep(v) PROVE Idle(w)
  BY <1>0, <1>1 DEF BatchStep, StartBatch, ReleaseLocks, LockBatch
<1>2. ASSUME NEW i \in Instance, Crash(i) PROVE Idle(w)
  BY <1>2 DEF Crash
<1>3. ASSUME NEW v \in BatchWorker, BatchFails(v) PROVE Idle(w)
  BY <1>0, <1>3 DEF BatchFails
<1>4. ASSUME NEW v \in Worker,
             ReadSubscriptions(v) \/ ReadSubscriptionsFails(v) \/ ReaderTimesOut(v)
      PROVE  Idle(w)
  BY <1>4 DEF ReadSubscriptions, ReadSubscriptionsFails, ReaderTimesOut
<1>5. ASSUME NEW v \in Worker, NEW m \in Message,
             \/ TakeHint(v, m) \/ JobStep(v, m) \/ Cancel(v, m)
             \/ ReadStatesFails(v, m) \/ DelivererThrows(v, m)
             \/ SaveAttemptsFails(v, m) \/ StatementFails(v, m)
      PROVE  Idle(w)
  BY <1>5 DEF TakeHint, Cancel, ReadStatesFails, DelivererThrows, SaveAttemptsFails,
              StatementFails, JobStep, LockHinted, ReadStates, Deliver, SaveAttempts,
              Processed, HandleMessageFailure, DeadLetter, StatusWrite
<1>6. ASSUME \/ \E m \in Message : Expire(m) \/ BecomeDue(m)
             \/ \E s \in Subscription : Deactivate(s)
      PROVE  Idle(w)
  BY <1>6 DEF Expire, BecomeDue, Deactivate
<1> QED BY <1>1, <1>2, <1>3, <1>4, <1>5, <1>6 DEF Next, FaultStep

LEMMA IdleInvKept == TypeInv /\ IdleInv /\ [Next]_vars => IdleInv'
<1> SUFFICES ASSUME TypeInv, IdleInv, [Next]_vars, NEW w \in BatchWorker, pc'[w] # "idle"
             PROVE  Idle(w)'
  BY DEF IdleInv
<1>1. CASE UNCHANGED vars
  BY <1>1 DEF vars, poll, work, IdleInv, Idle, Busy
<1>2. CASE Next
  BY <1>2, PollingStartsIdle, IdleBatchWorkerStays DEF IdleInv
<1> QED BY <1>1, <1>2

LEMMA IdleInvariant == Spec => []IdleInv
<1>1. Init => IdleInv
  BY DEF Init, IdleInv
<1> QED BY <1>1, IdleInvKept, TypeInvariant, PTL DEF Spec

-----------------------------------------------------------------------------
(* 4. The lock gate *)

\* LockGate for one message, strengthened: the jobs at work on it are exactly
\* those that hold its latest lock.  LockGate alone is not inductive: a job that
\* no longer holds the lock could be at work when another worker takes it.
Gate(m) ==
  \A w \in Worker :
    /\ Working(w, m) <=> job[w][m].current
    /\ Working(w, m) => IsLockHeld(Host[w], m) /\ \A v \in Worker \ {w} : ~Working(v, m)

\* What opens the gate of a message is an overrun of its own lock.
Guarded(m) == overruns = 0 \/ m \notin disturbed

\* The inductive invariant.
GateInv == \A m \in Message : Guarded(m) => Gate(m)

AtWorkPhase(p) == p \notin {"idle", "trylock"}

\* A job that ends, or goes on as it was.
Stays(j, k) ==
  \/ k = NoJob
  \/ /\ k.current = j.current
     /\ AtWorkPhase(k.phase) <=> AtWorkPhase(j.phase)

LockKept(m) ==
  /\ row'[m].status = row[m].status
  /\ row'[m].lockedBy = row[m].lockedBy
  /\ row'[m].lease = row[m].lease
  /\ row'[m].retryCount = row[m].retryCount

\* What the steps that leave the lock alone have in common.
LEMMA GateStays ==
  ASSUME NEW m \in Message, Gate(m), LockKept(m),
         \A w \in Worker : Stays(job[w][m], job'[w][m])
  PROVE  Gate(m)'
<1>1. \A w \in Worker : IsLockHeld(Host[w], m)' <=> IsLockHeld(Host[w], m)
  BY DEF LockKept, IsLockHeld, Owns, LockHeld
<1>2. \A w \in Worker : Working(w, m)' => Working(w, m)
  BY DEF Stays, Working, AtWorkPhase, NoJob
<1>3. \A w \in Worker : Working(w, m)' <=> job'[w][m].current
  BY DEF Gate, Stays, Working, AtWorkPhase, NoJob
<1> QED BY <1>1, <1>2, <1>3 DEF Gate

LEMMA RestingStays ==
  ASSUME TypeInv, NEW w \in Worker, NEW m \in Message, Gate(m), NEW k, NEW lost,
         Rests(job[w][m], k, lost)
  PROVE  Stays(job[w][m], k)
<1> DEFINE j == job[w][m]
<1>1. j \in Job
  BY DEF TypeInv, JobsOK, Jobs
<1>2. CASE j.phase = "idle" /\ k = [NoJob EXCEPT !.phase = "trylock"]
  <2>1. j.current = FALSE
    BY <1>1, <1>2 DEF Gate, Working, Job
  <2> QED BY <1>2, <2>1 DEF Stays, NoJob, AtWorkPhase
<1>3. CASE k = j \/ k = NoJob
  BY <1>3 DEF Stays
<1>4. ASSUME NEW p \in {"processed", "states"},
             j.phase = "subs", k = [j EXCEPT !.subs = active, !.phase = p]
      PROVE  Stays(j, k)
  BY <1>1, <1>4 DEF Stays, AtWorkPhase, Job
<1>5. CASE \/ j.phase = "states" /\ k = [j EXCEPT !.phase = "failure"]
           \/ j.phase = "deliver" /\ k = [j EXCEPT !.phase = "failure", !.new = {}]
           \/ j.phase = "save" /\ k = [j EXCEPT !.phase = Decision(j)]
  BY <1>1, <1>5, DecisionType DEF Stays, AtWorkPhase, Job
<1> QED BY <1>2, <1>3, <1>4, <1>5 DEF Rests

LaterPhase == {"deliver", "save", "processed", "failure", "dead"}

\* A step on the records of m: what it does to the job and to everything else.
LEMMA AttemptStepFrame ==
  ASSUME TypeInv, NEW w \in Worker, NEW m \in Message, AttemptStep(w, m)
  PROVE  /\ UNCHANGED row
         /\ \A v \in Worker \ {w} : job'[v][m] = job[v][m]
         /\ job[w][m].phase \in {"states", "deliver", "save"}
         /\ \/ job'[w][m] = NoJob
            \/ /\ job'[w][m].phase \in LaterPhase
               /\ job'[w][m].current = job[w][m].current
               /\ job'[w][m].retryCount = job[w][m].retryCount
<1> DEFINE j == job[w][m]
           GoesOn == /\ job'[w][m].phase \in LaterPhase
                     /\ job'[w][m].current = j.current
                     /\ job'[w][m].retryCount = j.retryCount
           Others == \A v \in Worker \ {w} : job'[v][m] = job[v][m]
<1>0. JobsOK /\ j \in Job
  BY DEF TypeInv, JobsOK, Jobs
<1>1. ASSUME NEW k, SetJob(w, m, k) PROVE job'[w][m] = k /\ Others
  BY <1>0, <1>1, SetJobFrame
<1>2. ASSUME NEW k \in Job, NEW p \in LaterPhase, SetJob(w, m, [k EXCEPT !.phase = p]),
             k.current = j.current, k.retryCount = j.retryCount
      PROVE  GoesOn /\ Others
  <2>1. job'[w][m] = [k EXCEPT !.phase = p] /\ Others
    BY <1>1, <1>2
  <2>2. /\ [k EXCEPT !.phase = p].phase = p /\ [k EXCEPT !.phase = p].current = k.current
        /\ [k EXCEPT !.phase = p].retryCount = k.retryCount
    BY DEF Job
  <2> QED BY <1>2, <2>1, <2>2
<1>3. ASSUME NEW k \in Job, SetJob(w, m, Delivered(k)),
             k.current = j.current, k.retryCount = j.retryCount
      PROVE  GoesOn /\ Others
  <2>1. PICK p \in LaterPhase : Delivered(k) = [k EXCEPT !.phase = p]
    BY DecisionType DEF Delivered, LaterPhase
  <2> QED BY <1>2, <1>3, <2>1
<1>4. CASE ReadStates(w, m)
  <2>1. UNCHANGED row /\ j.phase = "states"
    BY <1>4 DEF ReadStates, tables
  <2>2. PICK k \in Job : /\ SetJob(w, m, Delivered(k))
                         /\ k.current = j.current /\ k.retryCount = j.retryCount
    BY <1>4, StatesRead
  <2> QED BY <1>3, <2>1, <2>2
<1>5. ASSUME NEW s \in Subscription, Deliver(w, m, s)
      PROVE  UNCHANGED row /\ j.phase = "deliver" /\ GoesOn /\ Others
  <2>1. UNCHANGED row /\ j.phase = "deliver"
    BY <1>5 DEF Deliver, tables
  <2>2. PICK k \in Job : /\ SetJob(w, m, Delivered(k))
                         /\ k.current = j.current /\ k.retryCount = j.retryCount
    BY <1>5, AttemptMade
  <2> QED BY <1>3, <2>1, <2>2
<1>6. CASE SaveAttempts(w, m)
  <2>1. UNCHANGED row /\ j.phase = "save"
    BY <1>6 DEF SaveAttempts
  <2>2. \E k \in {NoJob, [j EXCEPT !.phase = Decision(j)]} : SetJob(w, m, k)
    BY <1>6 DEF SaveAttempts, NotSaved
  <2>3. Decision(j) \in LaterPhase
    BY DecisionType DEF LaterPhase
  <2>4. CASE SetJob(w, m, NoJob)
    BY <1>1, <2>1, <2>4
  <2>5. CASE SetJob(w, m, [j EXCEPT !.phase = Decision(j)])
    BY <1>0, <1>2, <2>1, <2>3, <2>5
  <2> QED BY <2>2, <2>4, <2>5
<1> QED BY <1>4, <1>5, <1>6 DEF AttemptStep

\* Every step keeps the gate of a message, unless its lock outlives its timeout.
LEMMA GateKept ==
  ASSUME TypeInv, IdleInv, Next, NEW m \in Message, Gate(m), Guarded(m)'
  PROVE  Gate(m)'
<1>0. /\ row \in [Message -> Row] /\ row[m] \in Row /\ overruns \in Nat
      /\ \A w \in Worker : job[w][m] \in Job
      /\ NoInstance \notin Instance
  BY StoreAssumption DEF TypeInv, StoreInv, StoreTypeOK, JobsOK, Jobs, HistoryOK
<1>1. row[m].lease # "held" => \A v \in Worker : ~Working(v, m) /\ ~job[v][m].current
  BY DEF Gate, IsLockHeld, LockHeld
<1>2. ASSUME NEW w \in Worker, LockTaken(w, m) PROVE Gate(m)'
  <2>1. \A v \in Worker \ {w} : ~Working(v, m)' /\ ~job'[v][m].current
    <3>1. \A v \in Worker \ {w} :
             job'[v][m].phase = job[v][m].phase /\ ~job'[v][m].current
      BY <1>0, <1>2, DemotedFields DEF LockTaken
    <3> QED BY <1>1, <1>2, <3>1 DEF LockTaken, Working
  <2>2. CASE job'[w][m] = NewJob(m)
    <3>1. IsLockHeld(Host[w], m)'
      BY <1>0, <1>2 DEF LockTaken, IsLockHeld, Owns, LockHeld, Locked, Row
    <3>2. Working(w, m)' /\ job'[w][m].current
      BY <2>2 DEF Working, NewJob, NoJob
    <3> QED BY <2>1, <3>1, <3>2 DEF Gate
  <2>3. CASE job'[w][m] \in {NoJob, Demoted(job[w][m])}
    <3>1. ~Working(w, m)' /\ ~job'[w][m].current
      <4>1. CASE job'[w][m] = NoJob
        BY <4>1 DEF Working, NoJob
      <4>2. CASE job'[w][m] = Demoted(job[w][m])
        <5>1. job'[w][m].phase = job[w][m].phase /\ ~job'[w][m].current
          BY <1>0, <4>2, DemotedFields
        <5> QED BY <1>2, <5>1 DEF LockTaken, Working
      <4> QED BY <2>3, <4>1, <4>2
    <3> QED BY <2>1, <3>1 DEF Gate
  <2> QED BY <1>2, <2>2, <2>3 DEF LockTaken
<1>3. CASE LockReleased(m)
  <2>1. \A v \in Worker : job'[v][m].phase = job[v][m].phase /\ ~job'[v][m].current
    BY <1>0, <1>3, DemotedFields DEF LockReleased
  <2> QED BY <1>1, <1>3, <2>1 DEF LockReleased, Gate, Working
<1>4. ASSUME NEW w \in Worker, IsStatusWrite(w, m) PROVE Gate(m)'
  <2>1. Working(w, m)
    BY <1>4 DEF IsStatusWrite, Processed, HandleMessageFailure, DeadLetter, Working
  <2>2. Owns(Host[w], m) /\ \A v \in Worker \ {w} : ~Working(v, m)
    BY <2>1 DEF Gate, IsLockHeld
  <2>3. \A v \in Worker : job'[v][m] = IF v = w THEN NoJob ELSE Demoted(job[v][m])
    BY <1>4, <2>2, StatusWriteFrame
  <2>4. ASSUME NEW v \in Worker PROVE ~Working(v, m)' /\ ~job'[v][m].current
    <3>1. CASE v = w
      BY <2>3, <3>1 DEF Working, NoJob
    <3>2. CASE v # w
      <4>1. job'[v][m].phase = job[v][m].phase /\ ~job'[v][m].current
        BY <1>0, <2>3, <3>2, DemotedFields
      <4> QED BY <2>2, <3>2, <4>1 DEF Working
    <3> QED BY <3>1, <3>2
  <2> QED BY <2>4 DEF Gate
<1>5. ASSUME NEW w \in Worker, AttemptStep(w, m) PROVE Gate(m)'
  <2>1. LockKept(m) /\ \A v \in Worker \ {w} : Stays(job[v][m], job'[v][m])
    BY <1>5, AttemptStepFrame DEF LockKept, Stays
  <2>2. Stays(job[w][m], job'[w][m])
    BY <1>5, AttemptStepFrame DEF Stays, AtWorkPhase, LaterPhase
  <2> QED BY <2>1, <2>2, GateStays
<1>6. CASE Expire(m)
  <2>1. ~AtWork(m) /\ UNCHANGED job
    BY <1>0, <1>6 DEF Expire, Guarded, work
  <2>2. \A w \in Worker : ~job'[w][m].current /\ ~Working(w, m)'
    BY <2>1 DEF AtWork, Gate, Working
  <2> QED BY <2>2 DEF Gate
<1>7. CASE row'[m] = row[m] /\ AllRest(m)
  <2>1. \A w \in Worker : Stays(job[w][m], job'[w][m])
    BY <1>7, RestingStays DEF AllRest
  <2> QED BY <1>7, <2>1, GateStays DEF LockKept
<1>8. CASE BecomeDue(m)
  <2>1. LockKept(m)
    BY <1>0, <1>8 DEF BecomeDue, RetryDue, LockKept, Row
  <2>2. \A w \in Worker : Stays(job[w][m], job'[w][m])
    BY <1>8 DEF BecomeDue, work, Stays
  <2> QED BY <2>1, <2>2, GateStays
<1> QED BY <1>2, <1>3, <1>4, <1>5, <1>6, <1>7, <1>8, MessageSteps DEF MessageStep

LEMMA GuardedBefore ==
  ASSUME TypeInv, Next, NEW m \in Message, Guarded(m)'
  PROVE  Guarded(m)
BY OverrunsGrow, DisturbedGrows DEF Guarded

LEMMA GateStarts == Init => GateInv
<1>1. \A w \in Worker, m \in Message : Init => job[w][m] = NoJob
  BY DEF Init
<1> QED BY <1>1 DEF GateInv, Gate, Working, NoJob

LEMMA GateInvKept == TypeInv /\ IdleInv /\ GateInv /\ [Next]_vars => GateInv'
<1>1. TypeInv /\ GateInv /\ UNCHANGED vars => GateInv'
  BY DEF vars, tables, work, budget, history, GateInv, Guarded, Gate, Working, IsLockHeld,
         Owns, LockHeld
<1> QED BY <1>1, GateKept, GuardedBefore DEF GateInv

LEMMA GateInvariant == Spec => []GateInv
BY GateStarts, GateInvKept, TypeInvariant, IdleInvariant, PTL DEF Spec

\* As long as no lock outlives its timeout, a job at work on a message holds its
\* unexpired lock and is alone: no two workers deliver a message at a time,
\* whatever crashes, fails or arrives late (the "DB lock gate").
THEOREM LockGateHolds == Spec => []LockGate
<1>1. GateInv => LockGate
  BY DEF GateInv, Guarded, Gate, LockGate
<1> QED BY <1>1, GateInvariant, PTL

\* The same for one message, whatever happens to the others: while its own lock
\* has not been overrun, nor its results lost, its gate is shut.
THEOREM GateOfEachMessage ==
  ASSUME NEW m \in Message
  PROVE  Spec => [](m \notin disturbed => Gate(m))
<1>1. GateInv => (m \notin disturbed => Gate(m))
  BY DEF GateInv, Guarded
<1> QED BY <1>1, GateInvariant, PTL

-----------------------------------------------------------------------------
(* 5. Whose lock it is: status writes and the retry budget *)

\* The lock columns name the instance, not the worker.  What makes the holder of
\* the lock known to itself is that it shares its instance with no one, or that
\* no lock of the message was overrun.
\* A job at work that passes the ownership test of the status writes has taken
\* the latest lock of the row itself.
Holder(w, m) == Working(w, m) /\ Owns(Host[w], m) => job[w][m].current

HolderInv == OneWorkerPerInstance => \A w \in Worker, m \in Message : Holder(w, m)

\* The snapshot of RetryCount is up to date while the lock is.
SnapshotInv ==
  \A w \in Worker, m \in Message :
    job[w][m].current => job[w][m].retryCount = row[m].retryCount

\* What a status write of an owner does to the row.
LEMMA StatusWriteRow ==
  ASSUME TypeInv, NEW w \in Worker, NEW m \in Message, IsStatusWrite(w, m), Owns(Host[w], m)
  PROVE  /\ row'[m].lockedBy = NoInstance
         /\ \/ row'[m].retryCount = row[m].retryCount
            \/ /\ row'[m].retryCount = row[m].retryCount + 1
               /\ job[w][m].retryCount < MaxRetries
<1>0. row \in [Message -> Row] /\ row[m] \in Row
  BY DEF TypeInv, StoreInv, StoreTypeOK
<1>1. ASSUME NEW s, row' = [row EXCEPT ![m] = Unlocked(row[m], s)]
      PROVE  row'[m].lockedBy = NoInstance /\ row'[m].retryCount = row[m].retryCount
  BY <1>0, <1>1 DEF Unlocked, Row
<1>2. CASE MarkAsProcessed(Host[w], m) \/ MarkAsDeadLettered(Host[w], m)
  BY <1>1, <1>2 DEF MarkAsProcessed, MarkAsDeadLettered, GiveUp
<1>3. CASE IncrementRetry(Host[w], m) /\ job[w][m].retryCount < MaxRetries
  <2>1. row'[m] = [Unlocked(row[m], "Pending") EXCEPT !.retryCount = @ + 1, !.due = FALSE]
    BY <1>0, <1>3 DEF IncrementRetry, GiveUp
  <2> QED BY <1>0, <1>3, <2>1 DEF Unlocked, Row
<1> QED BY <1>2, <1>3 DEF IsStatusWrite, Processed, HandleMessageFailure, DeadLetter

\* A job that rests and is current after the step was so before, with its snapshot.
LEMMA RestingCurrent ==
  ASSUME NEW j \in Job, NEW k, NEW lost, Rests(j, k, lost)
  PROVE  /\ k.current => j.current /\ k.retryCount = j.retryCount
         /\ AtWorkPhase(k.phase) => /\ AtWorkPhase(j.phase) /\ k.current = j.current
                                    /\ k.retryCount = j.retryCount
<1>1. CASE k = j
  BY <1>1
<1>2. CASE k \in {NoJob, [NoJob EXCEPT !.phase = "trylock"]}
  BY <1>2 DEF NoJob, AtWorkPhase
<1>3. ASSUME NEW p \in Phase, NEW ss,
             k = [j EXCEPT !.subs = ss, !.phase = p], AtWorkPhase(j.phase)
      PROVE  /\ k.current = j.current /\ k.retryCount = j.retryCount
  BY <1>3 DEF Job
<1>4. ASSUME NEW p \in Phase, k = [j EXCEPT !.phase = p]
      PROVE  /\ k.current = j.current /\ k.retryCount = j.retryCount
  BY <1>4 DEF Job
<1>5. ASSUME k = [j EXCEPT !.phase = "failure", !.new = {}]
      PROVE  /\ k.current = j.current /\ k.retryCount = j.retryCount
  BY <1>5 DEF Job
<1>6. Decision(j) \in Phase /\ "failure" \in Phase /\ "processed" \in Phase /\ "states" \in Phase
  BY DecisionType DEF Phase
<1>7. CASE j.phase \in {"subs", "states", "deliver", "save"} /\ k # NoJob /\ k # j
  <2>1. AtWorkPhase(j.phase) /\ j.phase # "idle"
    BY <1>7 DEF AtWorkPhase
  <2>2. k.current = j.current /\ k.retryCount = j.retryCount
    BY <1>3, <1>4, <1>5, <1>6, <1>7, <2>1 DEF Rests
  <2> QED BY <2>1, <2>2
<1> QED BY <1>1, <1>2, <1>7 DEF Rests

LEMMA SnapshotKept ==
  ASSUME TypeInv, IdleInv, SnapshotInv, Next
  PROVE  SnapshotInv'
<1> SUFFICES ASSUME NEW w \in Worker, NEW m \in Message, job'[w][m].current
             PROVE  job'[w][m].retryCount = row'[m].retryCount
  BY DEF SnapshotInv
<1>0. /\ row \in [Message -> Row] /\ row[m] \in Row
      /\ \A v \in Worker : job[v][m] \in Job
  BY DEF TypeInv, StoreInv, StoreTypeOK, JobsOK, Jobs
<1>1. \A v \in Worker : ~Demoted(job[v][m]).current
  BY <1>0, DemotedFields
<1>2. ASSUME NEW v \in Worker, LockTaken(v, m) PROVE job'[w][m].retryCount = row'[m].retryCount
  <2>1. job'[w][m] = NewJob(m)
    <3>1. v = w
      BY <1>1, <1>2 DEF LockTaken
    <3> QED BY <1>1, <1>2, <3>1 DEF LockTaken, NoJob
  <2> QED BY <1>0, <1>2, <2>1 DEF LockTaken, NewJob, NoJob, Locked, Row
<1>3. CASE LockReleased(m)
  BY <1>1, <1>3 DEF LockReleased
<1>4. ASSUME NEW v \in Worker, IsStatusWrite(v, m)
      PROVE  job'[w][m].retryCount = row'[m].retryCount
  <2>1. ~Owns(Host[v], m) /\ job'[w][m] = job[w][m]
    BY <1>1, <1>4, StatusWriteFrame DEF NoJob
  <2> QED BY <1>4, <2>1, StatusWriteFrame DEF SnapshotInv
<1>5. ASSUME NEW v \in Worker, AttemptStep(v, m)
      PROVE  job'[w][m].retryCount = row'[m].retryCount
  <2>1. job'[w][m].current = job[w][m].current /\ job'[w][m].retryCount = job[w][m].retryCount
    <3>1. job'[w][m] # NoJob
      BY DEF NoJob
    <3> QED BY <1>5, <3>1, AttemptStepFrame
  <2> QED BY <1>5, <2>1, AttemptStepFrame DEF SnapshotInv
<1>6. CASE Expire(m) \/ BecomeDue(m)
  BY <1>0, <1>6 DEF Expire, LeaseExpires, BecomeDue, RetryDue, work, Row, SnapshotInv
<1>7. CASE row'[m] = row[m] /\ AllRest(m)
  BY <1>0, <1>7, RestingCurrent DEF AllRest, SnapshotInv
<1> QED BY <1>2, <1>3, <1>4, <1>5, <1>6, <1>7, MessageSteps DEF MessageStep

LEMMA HolderKept ==
  ASSUME TypeInv, IdleInv, HolderInv, Next
  PROVE  HolderInv'
<1> SUFFICES ASSUME OneWorkerPerInstance, NEW w \in Worker, NEW m \in Message,
                    Working(w, m)', Owns(Host[w], m)'
             PROVE  job'[w][m].current
  BY DEF HolderInv, Holder
<1>0. /\ row \in [Message -> Row] /\ row[m] \in Row
      /\ \A v \in Worker : job[v][m] \in Job
      /\ Holder(w, m)
  BY DEF TypeInv, StoreInv, StoreTypeOK, JobsOK, Jobs, HolderInv
<1>1. row'[m].lockedBy = Host[w] /\ Host[w] # NoInstance
  BY HostIsInstance, StoreAssumption DEF Owns
<1>2. ASSUME NEW v \in Worker, LockTaken(v, m) PROVE job'[w][m].current
  <2>1. Host[v] = Host[w]
    BY <1>0, <1>1, <1>2 DEF LockTaken, Locked, Row
  <2>2. v = w
    BY <2>1 DEF OneWorkerPerInstance
  <2>3. job'[w][m] # NoJob
    BY DEF Working, NoJob
  <2>4. job'[w][m] # Demoted(job[w][m])
    <3>1. ~Working(w, m)
      BY <1>2, <2>2 DEF LockTaken
    <3>2. Demoted(job[w][m]).phase = job[w][m].phase
      BY <1>0, DemotedFields
    <3> QED BY <3>1, <3>2 DEF Working
  <2>5. job'[w][m] = NewJob(m)
    BY <1>2, <2>2, <2>3, <2>4 DEF LockTaken
  <2> QED BY <2>5 DEF NewJob, NoJob
<1>3. CASE LockReleased(m)
  BY <1>0, <1>1, <1>3 DEF LockReleased, Unlocked, Row
<1>4. ASSUME NEW v \in Worker, IsStatusWrite(v, m) PROVE job'[w][m].current
  <2>1. ~Owns(Host[v], m)
    BY <1>1, <1>4, StatusWriteRow
  <2>2. row'[m] = row[m] /\ job'[w][m] = job[w][m]
    BY <1>4, <2>1, StatusWriteFrame DEF Working, NoJob
  <2> QED BY <1>0, <2>2 DEF Holder, Working, Owns
<1>5. ASSUME NEW v \in Worker, AttemptStep(v, m) PROVE job'[w][m].current
  <2>1. row'[m] = row[m] /\ job'[w][m] # NoJob
    BY <1>5, AttemptStepFrame DEF Working, NoJob
  <2>2. Working(w, m) /\ job'[w][m].current = job[w][m].current
    BY <1>5, <2>1, AttemptStepFrame DEF Working
  <2> QED BY <1>0, <2>1, <2>2 DEF Holder, Owns
<1>6. CASE Expire(m) \/ BecomeDue(m)
  <2>1. row'[m].lockedBy = row[m].lockedBy /\ UNCHANGED job
    BY <1>0, <1>6 DEF Expire, LeaseExpires, BecomeDue, RetryDue, work, Row
  <2> QED BY <1>0, <2>1 DEF Holder, Working, Owns
<1>7. CASE row'[m] = row[m] /\ AllRest(m)
  <2>1. Working(w, m) /\ job'[w][m].current = job[w][m].current
    BY <1>0, <1>7, RestingCurrent DEF AllRest, Working, AtWorkPhase
  <2> QED BY <1>0, <1>7, <2>1 DEF Holder, Owns
<1> QED BY <1>2, <1>3, <1>4, <1>5, <1>6, <1>7, MessageSteps DEF MessageStep

\* Where the lock columns identify the job, the budget of a message is kept.
Identified(m) == Guarded(m) \/ OneWorkerPerInstance

BudgetInv == \A m \in Message : Identified(m) => row[m].retryCount <= MaxRetries

LEMMA IdentifiedHolder ==
  ASSUME GateInv, HolderInv, NEW m \in Message, Identified(m), NEW w \in Worker
  PROVE  Holder(w, m)
BY DEF GateInv, Gate, HolderInv, Holder, Identified

LEMMA BudgetKept ==
  ASSUME TypeInv, IdleInv, GateInv, HolderInv, SnapshotInv, BudgetInv, Next
  PROVE  BudgetInv'
<1> SUFFICES ASSUME NEW m \in Message, Identified(m)'
             PROVE  row'[m].retryCount <= MaxRetries
  BY DEF BudgetInv
<1>0. /\ row \in [Message -> Row] /\ row[m] \in Row /\ row[m].retryCount \in Nat
      /\ MaxRetries \in Nat
  BY PipelineAssumption DEF TypeInv, StoreInv, StoreTypeOK, Row
<1>1. Identified(m) /\ row[m].retryCount <= MaxRetries
  BY GuardedBefore DEF Identified, OneWorkerPerInstance, BudgetInv
<1>2. ASSUME NEW w \in Worker, IsStatusWrite(w, m) PROVE row'[m].retryCount <= MaxRetries
  <2>1. CASE Owns(Host[w], m)
    <3>1. Working(w, m)
      BY <1>2 DEF IsStatusWrite, Processed, HandleMessageFailure, DeadLetter, Working
    <3>2. job[w][m].current
      BY <1>1, <2>1, <3>1, IdentifiedHolder DEF Holder
    <3>3. job[w][m].retryCount = row[m].retryCount
      BY <3>2 DEF SnapshotInv
    <3> QED BY <1>0, <1>1, <1>2, <2>1, <3>3, StatusWriteRow
  <2>2. CASE ~Owns(Host[w], m)
    BY <1>1, <1>2, <2>2, StatusWriteFrame
  <2> QED BY <2>1, <2>2
<1>3. ASSUME \A w \in Worker : ~IsStatusWrite(w, m)
      PROVE  row'[m].retryCount = row[m].retryCount
  <2>1. ASSUME NEW w \in Worker, LockTaken(w, m) PROVE row'[m].retryCount = row[m].retryCount
    BY <1>0, <2>1 DEF LockTaken, Locked, Row
  <2>2. CASE LockReleased(m)
    BY <1>0, <2>2 DEF LockReleased, Unlocked, Row
  <2>3. CASE Expire(m) \/ BecomeDue(m)
    BY <1>0, <2>3 DEF Expire, LeaseExpires, BecomeDue, RetryDue, Row
  <2> QED BY <1>3, <2>1, <2>2, <2>3, MessageSteps, AttemptStepFrame DEF MessageStep
<1> QED BY <1>1, <1>2, <1>3

LEMMA HolderInvariant == Spec => [](HolderInv /\ SnapshotInv /\ BudgetInv)
<1>1. Init => HolderInv /\ SnapshotInv /\ BudgetInv
  <2>1. \A w \in Worker, m \in Message : Init => job[w][m] = NoJob
    BY DEF Init
  <2>2. Init => HolderInv
    BY <2>1 DEF HolderInv, Holder, Working, NoJob
  <2>3. Init => SnapshotInv
    BY <2>1 DEF SnapshotInv, NoJob
  <2>4. Init => BudgetInv
    BY PipelineAssumption DEF Init, BudgetInv, NewRow
  <2> QED BY <2>2, <2>3, <2>4
<1>2. TypeInv /\ IdleInv /\ GateInv /\ HolderInv /\ SnapshotInv /\ BudgetInv /\ [Next]_vars
        => (HolderInv /\ SnapshotInv /\ BudgetInv)'
  <2>1. HolderInv /\ SnapshotInv /\ BudgetInv /\ UNCHANGED vars
          => (HolderInv /\ SnapshotInv /\ BudgetInv)'
    <3>1. UNCHANGED vars => UNCHANGED <<row, job, overruns, disturbed>>
      BY DEF vars, tables, work, budget, history
    <3>2. HolderInv /\ UNCHANGED <<row, job>> => HolderInv'
      BY DEF HolderInv, Holder, Working, Owns
    <3>3. SnapshotInv /\ UNCHANGED <<row, job>> => SnapshotInv'
      BY DEF SnapshotInv
    <3>4. BudgetInv /\ UNCHANGED <<row, overruns, disturbed>> => BudgetInv'
      BY DEF BudgetInv, Identified, Guarded
    <3> QED BY <3>1, <3>2, <3>3, <3>4
  <2> QED BY <2>1, HolderKept, SnapshotKept, BudgetKept
<1> QED BY <1>1, <1>2, TypeInvariant, IdleInvariant, GateInvariant, PTL DEF Spec

\* Where workers share an instance, a job that lost its lock may still write.
\* Stale: the jobs at work on m that do not hold its unexpired lock.
WorkersOn(m) == {w \in Worker : Working(w, m)}
Holds(w, m) == job[w][m].current /\ row[m].lease = "held"
Stale(m) == {w \in WorkersOn(m) : ~Holds(w, m)}

\* Every stale job is the work of an overrun of its own.
Overlap(m) ==
  /\ IsFiniteSet(WorkersOn(m))
  /\ Cardinality(Stale(m)) <= overruns
  /\ \A v, w \in Worker : job[v][m].current /\ job[w][m].current => v = w

OverlapInv == \A m \in Message : Overlap(m)

\* Hopeful: the jobs whose snapshot still allows a retry.  When the budget of the
\* table is spent, each of them may spend one more.
Hopeful(m) == {w \in WorkersOn(m) : job[w][m].retryCount < MaxRetries}

Charged(m) ==
  \/ row[m].retryCount < MaxRetries
  \/ row[m].retryCount + Cardinality(Hopeful(m)) <= MaxRetries + overruns

ChargeInv == \A m \in Message : Charged(m)

LEMMA StaleFinite ==
  ASSUME NEW m \in Message, IsFiniteSet(WorkersOn(m))
  PROVE  IsFiniteSet(Stale(m)) /\ Cardinality(Stale(m)) \in Nat
BY FS_Subset, FS_CardinalityType DEF Stale

LEMMA HopefulFinite ==
  ASSUME NEW m \in Message, Overlap(m)
  PROVE  IsFiniteSet(Hopeful(m)) /\ Cardinality(Hopeful(m)) \in Nat
BY FS_Subset, FS_CardinalityType DEF Hopeful, Overlap

\* What the steps that give nobody the lock do to the jobs at work.
LEMMA FewerStale ==
  ASSUME TypeInv, NEW m \in Message, Overlap(m), overruns <= overruns', overruns' \in Nat,
         Stale(m)' \subseteq Stale(m), IsFiniteSet(WorkersOn(m)'),
         \A v, w \in Worker : job'[v][m].current /\ job'[w][m].current => v = w
  PROVE  Overlap(m)'
<1>1. Cardinality(Stale(m)') <= Cardinality(Stale(m)) /\ Cardinality(Stale(m)') \in Nat
  BY StaleFinite, FS_Subset, FS_CardinalityType DEF Overlap
<1>2. Cardinality(Stale(m)) \in Nat /\ overruns \in Nat /\ Cardinality(Stale(m)) <= overruns
  BY StaleFinite DEF Overlap, TypeInv, HistoryOK
<1> QED BY <1>1, <1>2 DEF Overlap

LEMMA OverlapKept ==
  ASSUME TypeInv, IdleInv, Next, NEW m \in Message, Overlap(m), TypeInv'
  PROVE  Overlap(m)'
<1> DEFINE Unique == \A v, w \in Worker : job[v][m].current /\ job[w][m].current => v = w
<1>0. /\ row \in [Message -> Row] /\ row[m] \in Row
      /\ \A v \in Worker : job[v][m] \in Job
      /\ overruns <= overruns' /\ overruns' \in Nat /\ overruns \in Nat
      /\ Unique /\ IsFiniteSet(WorkersOn(m)) /\ Cardinality(Stale(m)) <= overruns
  BY OverrunsGrow DEF TypeInv, StoreInv, StoreTypeOK, JobsOK, Jobs, HistoryOK, Overlap
<1>00. \A v \in Worker : /\ ~Demoted(job[v][m]).current
                         /\ Demoted(job[v][m]).phase = job[v][m].phase
  BY <1>0, DemotedFields
<1>01. NoJob.phase = "idle" /\ NoJob.current = FALSE
  BY DEF NoJob
<1>1. ASSUME NEW w \in Worker, LockTaken(w, m) PROVE Overlap(m)'
  <2>1. \A v \in Worker \ {w} : job'[v][m].phase = job[v][m].phase /\ ~job'[v][m].current
    BY <1>00, <1>1 DEF LockTaken
  <2>2. row'[m].lease = "held" /\ Stale(m) = WorkersOn(m) /\ w \notin WorkersOn(m)
    BY <1>0, <1>1 DEF LockTaken, Locked, Row, Stale, Holds, WorkersOn
  <2>3. job'[w][m].current \/ ~Working(w, m)'
    <3>1. NewJob(m).current
      BY DEF NewJob, NoJob
    <3>2. CASE job'[w][m] = NewJob(m)
      BY <3>1, <3>2
    <3>3. CASE job'[w][m] \in {NoJob, Demoted(job[w][m])}
      BY <1>00, <1>01, <1>1, <3>3 DEF LockTaken, Working
    <3> QED BY <1>1, <3>2, <3>3 DEF LockTaken
  <2>4. WorkersOn(m)' \subseteq WorkersOn(m) \cup {w}
    BY <2>1 DEF WorkersOn, Working
  <2>5. IsFiniteSet(WorkersOn(m)')
    BY <1>0, <2>4, FS_AddElement, FS_Subset
  <2>6. Stale(m)' \subseteq Stale(m)
    BY <2>1, <2>2, <2>3 DEF Stale, WorkersOn, Working, Holds
  <2> QED BY <1>0, <2>1, <2>5, <2>6, FewerStale
<1>2. CASE LockReleased(m)
  <2>1. \A v \in Worker : job'[v][m].phase = job[v][m].phase /\ ~job'[v][m].current
    BY <1>00, <1>2 DEF LockReleased
  <2>2. Stale(m) = WorkersOn(m) /\ WorkersOn(m)' = WorkersOn(m)
    BY <1>2, <2>1 DEF LockReleased, Stale, Holds, WorkersOn, Working
  <2> QED BY <1>0, <2>1, <2>2, FewerStale DEF Stale
<1>3. ASSUME NEW w \in Worker, IsStatusWrite(w, m) PROVE Overlap(m)'
  <2>0. w \in WorkersOn(m)
    BY <1>3 DEF IsStatusWrite, Processed, HandleMessageFailure, DeadLetter, WorkersOn, Working
  <2>1. CASE ~Owns(Host[w], m)
    <3>1. /\ \A v \in Worker : job'[v][m] = IF v = w THEN NoJob ELSE job[v][m]
          /\ row'[m] = row[m]
      BY <1>3, <2>1, StatusWriteFrame
    <3>2. WorkersOn(m)' \subseteq WorkersOn(m) /\ Stale(m)' \subseteq Stale(m)
      BY <1>01, <3>1 DEF Stale, Holds, WorkersOn, Working
    <3>3. \A v \in Worker : job'[v][m].current => job[v][m].current
      BY <1>01, <3>1
    <3> QED BY <1>0, <3>2, <3>3, FewerStale, FS_Subset
  <2>2. CASE Owns(Host[w], m)
    <3>1. \A v \in Worker : job'[v][m] = IF v = w THEN NoJob ELSE Demoted(job[v][m])
      BY <1>3, <2>2, StatusWriteFrame
    <3>2. WorkersOn(m)' = WorkersOn(m) \ {w}
      BY <1>00, <1>01, <3>1 DEF WorkersOn, Working
    <3>3. \A v \in Worker : ~job'[v][m].current
      BY <1>00, <1>01, <3>1
    <3>4. IsFiniteSet(WorkersOn(m)') /\ Stale(m)' \subseteq WorkersOn(m) \ {w}
      BY <1>0, <3>2, FS_Subset DEF Stale
    <3>5. CASE Holds(w, m) \/ \A v \in WorkersOn(m) : ~Holds(v, m)
      <4>1. Stale(m)' \subseteq Stale(m)
        BY <1>0, <3>4, <3>5 DEF Stale, Holds, WorkersOn
      <4> QED BY <1>0, <3>3, <3>4, <4>1, FewerStale
    <3>6. ASSUME ~Holds(w, m), NEW c \in WorkersOn(m), Holds(c, m) PROVE Overlap(m)'
      <4>1. /\ Stale(m)' \subseteq (Stale(m) \ {w}) \cup {c}
            /\ w \in Stale(m) /\ c \notin Stale(m) \ {w}
        BY <1>0, <2>0, <3>4, <3>6 DEF Stale, Holds, WorkersOn
      <4>2. IsFiniteSet(Stale(m)) /\ Cardinality(Stale(m)) \in Nat
        BY <1>0, StaleFinite
      <4>3. IsFiniteSet(Stale(m) \ {w}) /\ Cardinality(Stale(m) \ {w}) = Cardinality(Stale(m)) - 1
        BY <4>1, <4>2, FS_RemoveElement
      <4>4. /\ IsFiniteSet((Stale(m) \ {w}) \cup {c})
            /\ Cardinality((Stale(m) \ {w}) \cup {c}) = Cardinality(Stale(m) \ {w}) + 1
        BY <4>1, <4>3, FS_AddElement
      <4>5. Cardinality(Stale(m)') \in Nat /\ Cardinality(Stale(m)') <= Cardinality(Stale(m))
        BY <4>1, <4>2, <4>3, <4>4, FS_Subset, FS_CardinalityType
      <4> QED BY <1>0, <3>3, <3>4, <4>2, <4>5 DEF Overlap
    <3> QED BY <3>5, <3>6
  <2> QED BY <2>1, <2>2
<1>4. ASSUME row'[m].lease = row[m].lease,
             \A v \in Worker :
               /\ Working(v, m)' => Working(v, m) /\ job'[v][m].current = job[v][m].current
               /\ job'[v][m].current => job[v][m].current
      PROVE  Overlap(m)'
  <2>1. WorkersOn(m)' \subseteq WorkersOn(m) /\ Stale(m)' \subseteq Stale(m)
    BY <1>4 DEF Stale, Holds, WorkersOn
  <2> QED BY <1>0, <1>4, <2>1, FewerStale, FS_Subset
<1>5. ASSUME NEW w \in Worker, AttemptStep(w, m) PROVE Overlap(m)'
  <2>1. ASSUME NEW v \in Worker
        PROVE  /\ Working(v, m)' => Working(v, m) /\ job'[v][m].current = job[v][m].current
               /\ job'[v][m].current => job[v][m].current
    BY <1>01, <1>5, AttemptStepFrame DEF Working
  <2> QED BY <1>4, <1>5, <2>1, AttemptStepFrame
<1>6. CASE Expire(m)
  <2>1. UNCHANGED job /\ row[m].lease = "held" /\ row'[m].lease = "expired"
        /\ overruns' = IF AtWork(m) THEN overruns + 1 ELSE overruns
    BY <1>0, <1>6 DEF Expire, LeaseExpires, work, Row
  <2>2. WorkersOn(m)' = WorkersOn(m) /\ Stale(m)' = WorkersOn(m)
    BY <2>1 DEF WorkersOn, Working, Stale, Holds
  <2>3. CASE ~AtWork(m)
    <3>1. Stale(m) = WorkersOn(m)
      BY <2>3 DEF AtWork, WorkersOn, Stale, Holds
    <3> QED BY <1>0, <2>1, <2>2, <3>1, FewerStale
  <2>4. CASE AtWork(m)
    <3>1. PICK c \in Worker : job[c][m].current
      BY <2>4 DEF AtWork
    <3>2. Stale(m)' \subseteq Stale(m) \cup {c}
      BY <1>0, <2>1, <2>2, <3>1 DEF WorkersOn, Stale, Holds
    <3>3. IsFiniteSet(Stale(m)) /\ Cardinality(Stale(m)) \in Nat
      BY <1>0, StaleFinite
    <3>4. /\ IsFiniteSet(Stale(m) \cup {c})
          /\ Cardinality(Stale(m) \cup {c}) \in Nat
          /\ Cardinality(Stale(m) \cup {c}) <= Cardinality(Stale(m)) + 1
      <4>1. /\ IsFiniteSet(Stale(m) \cup {c})
            /\ Cardinality(Stale(m) \cup {c}) =
                 IF c \in Stale(m) THEN Cardinality(Stale(m)) ELSE Cardinality(Stale(m)) + 1
        BY <3>3, FS_AddElement
      <4> QED BY <3>3, <4>1
    <3>5. Cardinality(Stale(m)') <= Cardinality(Stale(m) \cup {c}) /\ Cardinality(Stale(m)') \in Nat
      BY <3>2, <3>4, FS_Subset, FS_CardinalityType
    <3>6. Cardinality(Stale(m)') <= overruns'
      BY <1>0, <2>1, <2>4, <3>3, <3>4, <3>5
    <3> QED BY <1>0, <2>1, <2>2, <3>6 DEF Overlap
  <2> QED BY <2>3, <2>4
<1>7. CASE BecomeDue(m)
  <2>1. UNCHANGED job /\ row'[m].lease = row[m].lease
    BY <1>0, <1>7 DEF BecomeDue, RetryDue, work, Row
  <2> QED BY <1>4, <2>1 DEF Working
<1>8. CASE row'[m] = row[m] /\ AllRest(m)
  <2>1. ASSUME NEW v \in Worker
        PROVE  /\ Working(v, m)' => Working(v, m) /\ job'[v][m].current = job[v][m].current
               /\ job'[v][m].current => job[v][m].current
    BY <1>0, <1>8, RestingCurrent DEF AllRest, Working, AtWorkPhase
  <2> QED BY <1>4, <1>8, <2>1
<1> QED BY <1>1, <1>2, <1>3, <1>5, <1>6, <1>7, <1>8, MessageSteps DEF MessageStep

LEMMA FewerHopeful ==
  ASSUME TypeInv, TypeInv', NEW m \in Message, Overlap(m), Charged(m), overruns <= overruns',
         row'[m].retryCount = row[m].retryCount, Hopeful(m)' \subseteq Hopeful(m)
  PROVE  Charged(m)'
<1>1. /\ row[m].retryCount \in Nat /\ MaxRetries \in Nat /\ overruns \in Nat /\ overruns' \in Nat
  BY PipelineAssumption DEF TypeInv, StoreInv, StoreTypeOK, Row, HistoryOK
<1>2. /\ Cardinality(Hopeful(m)') \in Nat /\ Cardinality(Hopeful(m)) \in Nat
      /\ Cardinality(Hopeful(m)') <= Cardinality(Hopeful(m))
  BY HopefulFinite, FS_Subset, FS_CardinalityType
<1> QED BY <1>1, <1>2 DEF Charged

LEMMA ChargedKept ==
  ASSUME TypeInv, TypeInv', IdleInv, Next, NEW m \in Message, Overlap(m), Overlap(m)', Charged(m)
  PROVE  Charged(m)'
<1>0. /\ row \in [Message -> Row] /\ row[m] \in Row /\ row[m].retryCount \in Nat
      /\ \A v \in Worker : job[v][m] \in Job
      /\ overruns <= overruns' /\ overruns \in Nat /\ overruns' \in Nat /\ MaxRetries \in Nat
  BY OverrunsGrow, PipelineAssumption
     DEF TypeInv, StoreInv, StoreTypeOK, JobsOK, Jobs, HistoryOK, Row
<1>00. \A v \in Worker : /\ Demoted(job[v][m]).phase = job[v][m].phase
                         /\ Demoted(job[v][m]).retryCount = job[v][m].retryCount
                         /\ ~Demoted(job[v][m]).current
  BY <1>0, DemotedFields
<1>01. NoJob.phase = "idle" /\ ~NoJob.current
  BY DEF NoJob
<1>1. CASE /\ row'[m].retryCount = row[m].retryCount
           /\ \A v \in Worker :
                Working(v, m)' => Working(v, m) /\ job'[v][m].retryCount = job[v][m].retryCount
  <2>1. Hopeful(m)' \subseteq Hopeful(m)
    BY <1>1 DEF Hopeful, WorkersOn
  <2> QED BY <1>0, <1>1, <2>1, FewerHopeful
<1>2. ASSUME NEW w \in Worker, LockTaken(w, m) PROVE Charged(m)'
  <2>1. row'[m].retryCount = row[m].retryCount
    BY <1>0, <1>2 DEF LockTaken, Locked, Row
  <2>2. CASE row[m].retryCount < MaxRetries
    BY <2>1, <2>2 DEF Charged
  <2>3. CASE ~(row[m].retryCount < MaxRetries)
    <3>1. ASSUME NEW v \in Worker \ {w}, Working(v, m)'
          PROVE  Working(v, m) /\ job'[v][m].retryCount = job[v][m].retryCount
      BY <1>00, <1>2, <3>1 DEF LockTaken, Working
    <3>2. w \notin Hopeful(m)'
      <4>1. CASE job'[w][m] = NewJob(m)
        BY <2>3, <4>1 DEF NewJob, NoJob, Hopeful
      <4>2. CASE job'[w][m] \in {NoJob, Demoted(job[w][m])}
        BY <1>00, <1>01, <1>2, <4>2 DEF LockTaken, Working, Hopeful, WorkersOn
      <4> QED BY <1>2, <4>1, <4>2 DEF LockTaken
    <3>3. Hopeful(m)' \subseteq Hopeful(m)
      BY <3>1, <3>2 DEF Hopeful, WorkersOn
    <3> QED BY <1>0, <2>1, <3>3, FewerHopeful
  <2> QED BY <2>2, <2>3
<1>3. CASE LockReleased(m)
  BY <1>0, <1>00, <1>1, <1>3 DEF LockReleased, Unlocked, Row, Working
<1>4. ASSUME NEW w \in Worker, IsStatusWrite(w, m) PROVE Charged(m)'
  <2>1. CASE ~Owns(Host[w], m)
    <3>1. /\ \A v \in Worker : job'[v][m] = IF v = w THEN NoJob ELSE job[v][m]
          /\ row'[m] = row[m]
      BY <1>4, <2>1, StatusWriteFrame
    <3> QED BY <1>01, <1>1, <3>1 DEF Working
  <2>2. CASE Owns(Host[w], m)
    <3>1. \A v \in Worker : job'[v][m] = IF v = w THEN NoJob ELSE Demoted(job[v][m])
      BY <1>4, <2>2, StatusWriteFrame
    <3>2. CASE row'[m].retryCount = row[m].retryCount
      BY <1>00, <1>01, <1>1, <3>1, <3>2 DEF Working
    <3>3. CASE row'[m].retryCount = row[m].retryCount + 1 /\ job[w][m].retryCount < MaxRetries
      <4>1. Hopeful(m)' \subseteq Hopeful(m) \ {w}
        BY <1>00, <1>01, <3>1 DEF Hopeful, WorkersOn, Working
      <4>2. w \in Hopeful(m)
        BY <1>4, <3>3 DEF IsStatusWrite, Processed, HandleMessageFailure, DeadLetter,
                          Working, WorkersOn, Hopeful
      <4>3. /\ IsFiniteSet(Hopeful(m)) /\ Cardinality(Hopeful(m)) \in Nat
            /\ IsFiniteSet(Hopeful(m)') /\ Cardinality(Hopeful(m)') \in Nat
        BY <4>1, HopefulFinite, FS_Subset, FS_CardinalityType
      <4>4. CASE row[m].retryCount < MaxRetries
        <5>1. \A v \in Worker : ~job'[v][m].current
          BY <1>00, <1>01, <3>1
        <5>2. Hopeful(m)' \subseteq Stale(m)'
          BY <5>1 DEF Hopeful, Stale, Holds, WorkersOn
        <5>3. IsFiniteSet(Stale(m)') /\ Cardinality(Stale(m)') \in Nat
          BY FS_Subset, FS_CardinalityType DEF Overlap, Stale
        <5>4. Cardinality(Hopeful(m)') <= Cardinality(Stale(m)')
          BY <5>2, <5>3, FS_Subset
        <5>5. Cardinality(Stale(m)') <= overruns'
          BY DEF Overlap
        <5> QED BY <1>0, <3>3, <4>3, <4>4, <5>3, <5>4, <5>5 DEF Charged
      <4>5. CASE ~(row[m].retryCount < MaxRetries)
        <5>1. /\ IsFiniteSet(Hopeful(m) \ {w})
              /\ Cardinality(Hopeful(m) \ {w}) = Cardinality(Hopeful(m)) - 1
          BY <4>2, <4>3, FS_RemoveElement
        <5>2. Cardinality(Hopeful(m)') <= Cardinality(Hopeful(m)) - 1
          BY <4>1, <5>1, FS_Subset
        <5>3. row[m].retryCount + Cardinality(Hopeful(m)) <= MaxRetries + overruns
          BY <4>5 DEF Charged
        <5> QED BY <1>0, <3>3, <4>3, <5>2, <5>3 DEF Charged
      <4> QED BY <4>4, <4>5
    <3> QED BY <1>4, <2>2, <3>2, <3>3, StatusWriteRow
  <2> QED BY <2>1, <2>2
<1>5. ASSUME NEW w \in Worker, AttemptStep(w, m) PROVE Charged(m)'
  <2>1. ASSUME NEW v \in Worker, Working(v, m)'
        PROVE  Working(v, m) /\ job'[v][m].retryCount = job[v][m].retryCount
    BY <1>01, <1>5, <2>1, AttemptStepFrame DEF Working
  <2> QED BY <1>1, <1>5, <2>1, AttemptStepFrame
<1>6. CASE Expire(m) \/ BecomeDue(m)
  BY <1>0, <1>1, <1>6 DEF Expire, LeaseExpires, BecomeDue, RetryDue, work, Row, Working
<1>7. CASE row'[m] = row[m] /\ AllRest(m)
  <2>1. ASSUME NEW v \in Worker, Working(v, m)'
        PROVE  Working(v, m) /\ job'[v][m].retryCount = job[v][m].retryCount
    BY <1>0, <1>7, <2>1, RestingCurrent DEF AllRest, Working, AtWorkPhase
  <2> QED BY <1>1, <1>7, <2>1
<1> QED BY <1>2, <1>3, <1>4, <1>5, <1>6, <1>7, MessageSteps DEF MessageStep

LEMMA ChargeInvariant == Spec => [](OverlapInv /\ ChargeInv)
<1>1. Init => OverlapInv /\ ChargeInv
  <2> SUFFICES ASSUME Init, NEW m \in Message PROVE Overlap(m) /\ Charged(m)
    BY DEF OverlapInv, ChargeInv
  <2>1. \A w \in Worker : job[w][m] = NoJob
    BY DEF Init
  <2>2. WorkersOn(m) = {} /\ Stale(m) = {} /\ Hopeful(m) = {}
    BY <2>1 DEF WorkersOn, Stale, Hopeful, Working, NoJob
  <2>3. row[m].retryCount = 0 /\ overruns = 0
    BY DEF Init, NewRow
  <2>4. Overlap(m)
    BY <2>1, <2>2, <2>3, FS_EmptySet DEF Overlap, NoJob
  <2>5. Charged(m)
    BY <2>2, <2>3, FS_EmptySet, PipelineAssumption DEF Charged
  <2> QED BY <2>4, <2>5
<1>2. TypeInv /\ TypeInv' /\ IdleInv /\ OverlapInv /\ ChargeInv /\ [Next]_vars
        => (OverlapInv /\ ChargeInv)'
  <2>1. OverlapInv /\ ChargeInv /\ UNCHANGED vars => (OverlapInv /\ ChargeInv)'
    BY DEF vars, tables, work, budget, OverlapInv, ChargeInv, Overlap, Charged, Stale, Hopeful,
           WorkersOn, Holds, Working
  <2>2. ASSUME TypeInv, TypeInv', IdleInv, OverlapInv, ChargeInv, Next
        PROVE  (OverlapInv /\ ChargeInv)'
    <3>1. \A m \in Message : Overlap(m)'
      BY <2>2, OverlapKept DEF OverlapInv
    <3>2. \A m \in Message : Charged(m)'
      BY <2>2, <3>1, ChargedKept DEF OverlapInv, ChargeInv
    <3> QED BY <3>1, <3>2 DEF OverlapInv, ChargeInv
  <2> QED BY <2>1, <2>2
<1> QED BY <1>1, <1>2, TypeInvariant, IdleInvariant, PTL DEF Spec

\* RetryPolicyOptions.MaxRetries bounds RetryCount although the decision and the
\* increment are two statements: exactly where every worker has an instance id of
\* its own, and but for one retry per overrun lock where they share one.
THEOREM RetryBudgetKept == Spec => []RetryBudget
<1>1. ASSUME BudgetInv, OneWorkerPerInstance PROVE RetryBudget
  <2> SUFFICES ASSUME NEW m \in Message PROVE row[m].retryCount <= MaxRetries + 0
    BY <1>1 DEF RetryBudget
  <2>1. row[m].retryCount <= MaxRetries
    BY <1>1 DEF BudgetInv, Identified
  <2> QED BY <2>1, PipelineAssumption
<1>2. ASSUME TypeInv, OverlapInv, ChargeInv, ~OneWorkerPerInstance PROVE RetryBudget
  <2> SUFFICES ASSUME NEW m \in Message PROVE row[m].retryCount <= MaxRetries + overruns
    BY <1>2 DEF RetryBudget
  <2>1. /\ row[m].retryCount \in Nat /\ MaxRetries \in Nat /\ overruns \in Nat
    BY <1>2, PipelineAssumption DEF TypeInv, StoreInv, StoreTypeOK, Row, HistoryOK
  <2>2. Cardinality(Hopeful(m)) \in Nat
    BY <1>2, HopefulFinite DEF OverlapInv
  <2>3. row[m].retryCount < MaxRetries
          \/ row[m].retryCount + Cardinality(Hopeful(m)) <= MaxRetries + overruns
    BY <1>2 DEF ChargeInv, Charged
  <2> QED BY <2>1, <2>2, <2>3
<1>3. TypeInv /\ BudgetInv /\ OverlapInv /\ ChargeInv => RetryBudget
  BY <1>1, <1>2
<1> QED BY <1>3, HolderInvariant, ChargeInvariant, TypeInvariant, PTL

\* The budget of each message by itself: only an overrun of its own lock, or the
\* loss of its own results, can exceed it.
THEOREM RetryBudgetOfEachMessage ==
  ASSUME NEW m \in Message
  PROVE  Spec => [](m \notin disturbed => row[m].retryCount <= MaxRetries)
<1>1. BudgetInv => (m \notin disturbed => row[m].retryCount <= MaxRetries)
  BY DEF BudgetInv, Identified, Guarded
<1> QED BY <1>1, HolderInvariant, PTL

\* A status write that changes a row is that of the job whose lock it gives up,
\* if locks are never overrun or no two workers share an instance id: the test
\* of LockedBy alone is enough then.
THEOREM HolderWrites ==
  ASSUME MaxOverruns = 0 \/ OneWorkerPerInstance
  PROVE  Spec => OnlyHolderWrites
<1>1. TypeInv /\ IdleInv /\ GateInv /\ HolderInv /\ [Next]_vars =>
        [\A w \in Worker, m \in Message :
           /\ job[w][m].phase \in StatusPhase
           /\ job'[w][m] = NoJob
           /\ row'[m] # row[m]
           => job[w][m].current]_vars
  <2> SUFFICES ASSUME TypeInv, IdleInv, GateInv, HolderInv, Next,
                      NEW w \in Worker, NEW m \in Message,
                      job[w][m].phase \in StatusPhase,
                      job'[w][m] = NoJob, row'[m] # row[m]
               PROVE  job[w][m].current
    OBVIOUS
  <2>1. Identified(m) /\ \A v \in Worker : job[v][m] \in Job
    BY PipelineAssumption DEF TypeInv, HistoryOK, Identified, Guarded, JobsOK, Jobs
  <2>2. Working(w, m) /\ job'[w][m].phase = "idle"
    BY DEF Working, StatusPhase, NoJob
  <2>3. job'[w][m] # Demoted(job[w][m]) /\ job'[w][m] # job[w][m]
    BY <2>1, <2>2, DemotedFields DEF Working
  <2>4. PICK v \in Worker : IsStatusWrite(v, m)
    <3>1. ~LockReleased(m) /\ \A v \in Worker : ~LockTaken(v, m)
      BY <2>2, <2>3 DEF LockReleased, LockTaken
    <3>2. ~Expire(m) /\ ~BecomeDue(m)
      BY <2>3 DEF Expire, BecomeDue, work
    <3>3. \A v \in Worker : ~AttemptStep(v, m)
      BY AttemptStepFrame
    <3> QED BY <3>1, <3>2, <3>3, MessageSteps DEF MessageStep
  <2>5. v = w /\ Owns(Host[w], m)
    BY <2>3, <2>4, StatusWriteFrame
  <2> QED BY <2>1, <2>2, <2>5, IdentifiedHolder DEF Holder
<1> QED BY <1>1, TypeInvariant, IdleInvariant, GateInvariant, HolderInvariant, PTL
     DEF Spec, OnlyHolderWrites

-----------------------------------------------------------------------------
(* 6. The attempt ledger *)

\* The same of any set of attempts.
Of(as, s) == {a \in as : a.sub = s}
Recorded(as, s) == \E a \in Of(as, s) : a.success

LedgerOf(as) ==
  \A s \in Subscription :
    /\ {a.number : a \in Of(as, s)} = 1..Cardinality(Of(as, s))
    /\ Cardinality(Of(as, s)) <= SubMaxRetries[s] + 1
    /\ \A a \in Of(as, s) : a.success => a.number = Cardinality(Of(as, s))

\* What job j took from the ledger as, perhaps long ago, and adds to it: its
\* counts can only be too low, and one that is up to date has seen every success.
Agrees(as, j) ==
  /\ \A s \in Subscription :
       /\ j.count[s] <= Cardinality(Of(as, s))
       /\ s \notin j.done /\ j.count[s] = Cardinality(Of(as, s)) => ~Recorded(as, s)
  /\ \A a \in j.new :
       /\ a.sub \in j.subs \ j.done
       /\ a.number = j.count[a.sub] + 1
       /\ j.count[a.sub] <= SubMaxRetries[a.sub]
       /\ \A b \in j.new : b.sub = a.sub => b = a

KnownTo(as, j) ==
  /\ Agrees(as, j)
  /\ j.phase \in {"idle", "trylock", "subs", "states"} => j.new = {}
  /\ j.phase = "dead" => Exhausted(j) # {}

Ledger(m) ==
  /\ LedgerOf(attempts[m])
  /\ \A w \in Worker : KnownTo(attempts[m], job[w][m])

\* AttemptLedger is inductive only together with what the jobs know.
LedgerInv == \A m \in Message : Ledger(m)

LEMMA AttemptsOfIsOf ==
  ASSUME NEW m, NEW s PROVE AttemptsOf(m, s) = Of(attempts[m], s)
BY DEF AttemptsOf, Of

LEMMA OfIsFinite ==
  ASSUME NEW as, IsFiniteSet(as), NEW s
  PROVE  IsFiniteSet(Of(as, s)) /\ Cardinality(Of(as, s)) \in Nat
<1>1. Of(as, s) \in SUBSET as
  BY DEF Of
<1> QED BY <1>1, FS_Subset, FS_CardinalityType

LEMMA NoneRecorded ==
  ASSUME NEW as, IsFiniteSet(as), NEW s \in Subscription
  PROVE  /\ 0 <= Cardinality(Of(as, s))
         /\ 0 = Cardinality(Of(as, s)) => ~Recorded(as, s)
<1>1. IsFiniteSet(Of(as, s)) /\ Cardinality(Of(as, s)) \in Nat
  BY OfIsFinite
<1>2. 0 = Cardinality(Of(as, s)) => Of(as, s) = {}
  BY <1>1, FS_EmptySet
<1>3. \A n \in Nat : 0 <= n
  OBVIOUS
<1>4. Of(as, s) = {} => ~Recorded(as, s)
  BY DEF Recorded
<1> QED BY <1>1, <1>2, <1>3, <1>4

LEMMA NoJobKnows ==
  ASSUME NEW as, IsFiniteSet(as)
  PROVE  KnownTo(as, NoJob) /\ KnownTo(as, [NoJob EXCEPT !.phase = "trylock"])
BY NoneRecorded DEF KnownTo, Agrees, NoJob

LEMMA NewJobKnows ==
  ASSUME NEW as, IsFiniteSet(as), NEW m PROVE KnownTo(as, NewJob(m))
BY NoneRecorded DEF KnownTo, Agrees, NoJob, NewJob

\* A job that goes on with the same counts, and keeps or drops what it made.
LEMMA AgreesOn ==
  ASSUME NEW as, NEW j, NEW k, Agrees(as, j), k.done = j.done, k.count = j.count,
         k.new = {} \/ (k.new = j.new /\ k.subs = j.subs)
  PROVE  Agrees(as, k)
BY DEF Agrees

LEMMA PhaseKnows ==
  ASSUME NEW as, NEW j \in Job, Agrees(as, j), NEW p \in Phase,
         p \in {"idle", "trylock", "subs", "states"} => j.new = {},
         p = "dead" => Exhausted(j) # {}
  PROVE  KnownTo(as, [j EXCEPT !.phase = p])
<1> DEFINE k == [j EXCEPT !.phase = p]
<1>1. /\ k.phase = p /\ k.subs = j.subs
      /\ k.done = j.done /\ k.count = j.count /\ k.new = j.new
  BY DEF Job
<1>2. Exhausted(k) = Exhausted(j)
  BY <1>1 DEF Exhausted
<1> HIDE DEF k
<1>3. Agrees(as, k)
  BY <1>1, AgreesOn
<1>4. KnownTo(as, k)
  BY <1>1, <1>2, <1>3 DEF KnownTo
<1> QED BY <1>4 DEF k

LEMMA DemotedKnows ==
  ASSUME NEW as, NEW j \in Job, KnownTo(as, j)
  PROVE  KnownTo(as, Demoted(j))
<1>1. /\ Demoted(j).phase = j.phase /\ Demoted(j).subs = j.subs
      /\ Demoted(j).done = j.done /\ Demoted(j).count = j.count /\ Demoted(j).new = j.new
  BY DemotedFields
<1>2. Exhausted(Demoted(j)) = Exhausted(j)
  BY <1>1 DEF Exhausted
<1>3. Agrees(as, Demoted(j))
  BY <1>1, AgreesOn DEF KnownTo
<1> QED BY <1>1, <1>2, <1>3 DEF KnownTo

LEMMA DeadIsExhausted == \A j : Decision(j) = "dead" => Exhausted(j) # {}
BY DEF Decision

LEMMA DecisionKnows ==
  ASSUME NEW as, NEW j \in Job, Agrees(as, j)
  PROVE  KnownTo(as, [j EXCEPT !.phase = Decision(j)])
<1>1. Decision(j) \in Phase /\ Decision(j) \notin {"idle", "trylock", "subs", "states"}
  BY DecisionType DEF Phase
<1> QED BY <1>1, DeadIsExhausted, PhaseKnows

LEMMA DeliveredKnows ==
  ASSUME NEW as, NEW j \in Job, Agrees(as, j)
  PROVE  KnownTo(as, Delivered(j))
<1>1. \/ Delivered(j) = [j EXCEPT !.phase = "deliver"]
      \/ Delivered(j) = [j EXCEPT !.phase = "save"]
      \/ Delivered(j) = [j EXCEPT !.phase = Decision(j)]
  BY DEF Delivered
<1>2. \A p \in {"deliver", "save"} : KnownTo(as, [j EXCEPT !.phase = p])
  BY PhaseKnows DEF Phase
<1> QED BY <1>1, <1>2, DecisionKnows

LEMMA RestingKnows ==
  ASSUME NEW as, IsFiniteSet(as), active \subseteq Subscription,
         NEW j \in Job, KnownTo(as, j), NEW k, NEW lost, Rests(j, k, lost)
  PROVE  KnownTo(as, k)
<1>0. Agrees(as, j)
  BY DEF KnownTo
<1>1. CASE k = j \/ k = NoJob \/ k = [NoJob EXCEPT !.phase = "trylock"]
  BY <1>1, NoJobKnows
<1>2. ASSUME NEW p \in {"processed", "states"}, j.phase = "subs",
             k = [j EXCEPT !.subs = active, !.phase = p]
      PROVE  KnownTo(as, k)
  <2>1. j.new = {}
    BY <1>2 DEF KnownTo
  <2>2. /\ k.phase = p /\ k.done = j.done /\ k.count = j.count /\ k.new = {}
    BY <1>2, <2>1 DEF Job
  <2>3. Agrees(as, k)
    BY <1>0, <2>2, AgreesOn
  <2> QED BY <2>2, <2>3 DEF KnownTo
<1>3. CASE j.phase = "states" /\ k = [j EXCEPT !.phase = "failure"]
  BY <1>0, <1>3, PhaseKnows DEF Phase
<1>4. CASE j.phase = "deliver" /\ k = [j EXCEPT !.phase = "failure", !.new = {}]
  <2>1. /\ k.phase = "failure" /\ k.done = j.done /\ k.count = j.count /\ k.new = {}
    BY <1>4 DEF Job
  <2>2. Agrees(as, k)
    BY <1>0, <2>1, AgreesOn
  <2> QED BY <2>1, <2>2 DEF KnownTo
<1>5. CASE j.phase = "save" /\ k = [j EXCEPT !.phase = Decision(j)]
  BY <1>0, <1>5, DecisionKnows
<1> QED BY <1>1, <1>2, <1>3, <1>4, <1>5 DEF Rests

\* The counts just read are those of the ledger.
LEMMA ReadAgrees ==
  ASSUME NEW m, IsFiniteSet(attempts[m]), NEW j, j.new = {}, NEW k,
         k.done = DoneOf(m, j), k.count = CountOf(m, j), k.new = j.new
  PROVE  Agrees(attempts[m], k)
<1> DEFINE as == attempts[m]
<1>1. ASSUME NEW s \in Subscription
      PROVE  /\ k.count[s] <= Cardinality(Of(as, s))
             /\ s \notin k.done /\ k.count[s] = Cardinality(Of(as, s)) => ~Recorded(as, s)
  <2>1. k.count[s] = IF s \in j.subs THEN Cardinality(Of(as, s)) ELSE 0
    BY AttemptsOfIsOf DEF CountOf
  <2>2. s \in j.subs /\ s \notin k.done => ~Recorded(as, s)
    BY AttemptsOfIsOf DEF DoneOf, Recorded
  <2>3. Cardinality(Of(as, s)) \in Nat
    BY OfIsFinite
  <2> QED BY <2>1, <2>2, <2>3, NoneRecorded
<1> QED BY <1>1 DEF Agrees

\* An attempt is numbered after those counted, and made once.
LEMMA AttemptAgrees ==
  ASSUME NEW as, NEW j \in Job, Agrees(as, j),
         NEW s \in ToDeliver(j), NEW a, a.sub = s, a.number = j.count[s] + 1,
         NEW k, k.new = j.new \cup {a},
         k.subs = j.subs, k.done = j.done, k.count = j.count
  PROVE  Agrees(as, k)
<1>1. s \in Subscription /\ j.count[s] \in Nat /\ SubMaxRetries[s] \in Nat
  BY PipelineAssumption DEF ToDeliver, Job
<1>2. s \in j.subs \ j.done /\ j.count[s] <= SubMaxRetries[s] /\ \A b \in j.new : b.sub # s
  BY <1>1 DEF ToDeliver, Exhausted, Subs
<1>3. ASSUME NEW b \in k.new
      PROVE  /\ b.sub \in k.subs \ k.done
             /\ b.number = k.count[b.sub] + 1
             /\ k.count[b.sub] <= SubMaxRetries[b.sub]
             /\ \A c \in k.new : c.sub = b.sub => c = b
  BY <1>2, <1>3 DEF Agrees
<1> QED BY <1>3 DEF Agrees

\* Saving: without a collision of keys, every attempt of the job is the next one
\* of its subscription, and no other job has counted it.
LEMMA SavedLedger ==
  ASSUME NEW as \in SUBSET Attempt, IsFiniteSet(as), LedgerOf(as),
         NEW j \in Job, Agrees(as, j),
         \A a \in j.new, b \in as : ~(a.sub = b.sub /\ a.number = b.number)
  PROVE  /\ LedgerOf(as \cup j.new)
         /\ \A k \in Job : KnownTo(as, k) => KnownTo(as \cup j.new, k)
<1> DEFINE more == as \cup j.new
<1>0. j.new \subseteq Attempt /\ \A s \in Subscription : j.count[s] \in Nat /\ SubMaxRetries[s] \in Nat
  BY PipelineAssumption DEF Job
<1>1. ASSUME NEW s \in Subscription, \A a \in j.new : a.sub # s
      PROVE  Of(more, s) = Of(as, s)
  BY <1>1 DEF Of
<1>2. ASSUME NEW a \in j.new
      PROVE  LET s == a.sub IN
             /\ s \in Subscription
             /\ Of(more, s) = Of(as, s) \cup {a}
             /\ a.number = Cardinality(Of(as, s)) + 1
             /\ Cardinality(Of(as, s)) \in Nat
             /\ Cardinality(Of(more, s)) = Cardinality(Of(as, s)) + 1
             /\ Cardinality(Of(as, s)) <= SubMaxRetries[s]
             /\ ~Recorded(as, s)
  <2> DEFINE s == a.sub
  <2>1. s \in Subscription
    BY <1>0 DEF Attempt
  <2>2. /\ s \notin j.done /\ a.number = j.count[s] + 1 /\ j.count[s] <= SubMaxRetries[s]
        /\ \A b \in j.new : b.sub = s => b = a
    BY DEF Agrees
  <2>3. IsFiniteSet(Of(as, s)) /\ Cardinality(Of(as, s)) \in Nat
    BY OfIsFinite
  <2>4. Of(more, s) = Of(as, s) \cup {a}
    BY <2>2 DEF Of
  <2>5. a \notin Of(as, s) /\ a.number \notin {b.number : b \in Of(as, s)}
    BY DEF Of
  <2>6. a.number \notin 1..Cardinality(Of(as, s))
    BY <2>1, <2>5 DEF LedgerOf
  <2>7. /\ j.count[s] <= Cardinality(Of(as, s))
        /\ j.count[s] = Cardinality(Of(as, s)) => ~Recorded(as, s)
    BY <2>1, <2>2 DEF Agrees
  <2>8. j.count[s] = Cardinality(Of(as, s))
    <3>1. \A c, n \in Nat : c <= n /\ c + 1 \notin 1..n => c = n
      OBVIOUS
    <3>2. j.count[s] + 1 \notin 1..Cardinality(Of(as, s))
      BY <2>2, <2>6
    <3> QED BY <1>0, <2>1, <2>3, <2>7, <3>1, <3>2
  <2>9. Cardinality(Of(more, s)) = Cardinality(Of(as, s)) + 1
    BY <2>3, <2>4, <2>5, FS_AddElement
  <2> QED BY <2>1, <2>2, <2>3, <2>4, <2>7, <2>8, <2>9
<1>3. ASSUME NEW a \in j.new
      PROVE  LET s == a.sub IN
             /\ {b.number : b \in Of(more, s)} = 1..Cardinality(Of(more, s))
             /\ Cardinality(Of(more, s)) <= SubMaxRetries[s] + 1
             /\ \A b \in Of(more, s) : b.success => b.number = Cardinality(Of(more, s))
  <2> DEFINE s == a.sub
             n == Cardinality(Of(as, s))
  <2>1. /\ s \in Subscription /\ n \in Nat /\ Of(more, s) = Of(as, s) \cup {a}
        /\ a.number = n + 1 /\ Cardinality(Of(more, s)) = n + 1
        /\ n <= SubMaxRetries[s] /\ ~Recorded(as, s)
    BY <1>2
  <2>2. {b.number : b \in Of(as, s)} = 1..n
    BY <2>1 DEF LedgerOf
  <2> HIDE DEF n
  <2>3. {b.number : b \in Of(more, s)} = {b.number : b \in Of(as, s)} \cup {n + 1}
    BY <2>1
  <2>4. 1..(n + 1) = 1..n \cup {n + 1}
    BY <2>1
  <2>5. \A b \in Of(more, s) : b.success => b.number = n + 1
    BY <2>1 DEF Recorded
  <2>6. n + 1 <= SubMaxRetries[s] + 1
    BY <1>0, <2>1
  <2> QED BY <2>1, <2>2, <2>3, <2>4, <2>5, <2>6
<1>4. LedgerOf(more)
  <2> SUFFICES ASSUME NEW s \in Subscription
               PROVE  /\ {b.number : b \in Of(more, s)} = 1..Cardinality(Of(more, s))
                      /\ Cardinality(Of(more, s)) <= SubMaxRetries[s] + 1
                      /\ \A b \in Of(more, s) : b.success => b.number = Cardinality(Of(more, s))
    BY DEF LedgerOf
  <2>1. CASE \A a \in j.new : a.sub # s
    BY <1>1, <2>1 DEF LedgerOf
  <2>2. CASE \E a \in j.new : a.sub = s
    BY <1>3, <2>2
  <2> QED BY <2>1, <2>2
<1>5. ASSUME NEW k \in Job, KnownTo(as, k) PROVE KnownTo(more, k)
  <2>1. ASSUME NEW s \in Subscription
        PROVE  /\ k.count[s] <= Cardinality(Of(more, s))
               /\ s \notin k.done /\ k.count[s] = Cardinality(Of(more, s)) => ~Recorded(more, s)
    <3>1. /\ k.count[s] \in Nat /\ k.count[s] <= Cardinality(Of(as, s))
          /\ s \notin k.done /\ k.count[s] = Cardinality(Of(as, s)) => ~Recorded(as, s)
      BY <1>5 DEF KnownTo, Agrees, Job
    <3>2. CASE \A a \in j.new : a.sub # s
      BY <1>1, <3>1, <3>2 DEF Recorded
    <3>3. CASE \E a \in j.new : a.sub = s
      <4>1. /\ Cardinality(Of(as, s)) \in Nat
            /\ Cardinality(Of(more, s)) = Cardinality(Of(as, s)) + 1
        BY <1>2, <3>3
      <4>2. \A c, n \in Nat : c <= n => c <= n + 1 /\ c # n + 1
        OBVIOUS
      <4> QED BY <3>1, <4>1, <4>2
    <3> QED BY <3>2, <3>3
  <2>2. Agrees(more, k)
    BY <1>5, <2>1 DEF KnownTo, Agrees
  <2> QED BY <1>5, <2>2 DEF KnownTo
<1> QED BY <1>4, <1>5

\* A job that does not touch the records: locked, released, settled or resting.
LEMMA LedgerStays ==
  ASSUME TypeInv, NEW m \in Message, Ledger(m), attempts'[m] = attempts[m],
         \A w \in Worker : \/ job'[w][m] \in {NewJob(m), NoJob, Demoted(job[w][m])}
                           \/ \E lost : Rests(job[w][m], job'[w][m], lost)
  PROVE  Ledger(m)'
<1>1. IsFiniteSet(attempts[m]) /\ active \subseteq Subscription
  BY DEF TypeInv, AttemptsOK, PollOK
<1>2. ASSUME NEW w \in Worker PROVE KnownTo(attempts[m], job'[w][m])
  <2>1. job[w][m] \in Job /\ KnownTo(attempts[m], job[w][m])
    BY DEF Ledger, TypeInv, JobsOK, Jobs
  <2> QED BY <1>1, <2>1, NewJobKnows, NoJobKnows, DemotedKnows, RestingKnows
<1> QED BY <1>2 DEF Ledger

\* The three steps on the records.
LEMMA LedgerOfAttemptStep ==
  ASSUME TypeInv, NEW w \in Worker, NEW m \in Message, Ledger(m), AttemptStep(w, m)
  PROVE  Ledger(m)'
<1> DEFINE j == job[w][m]
           as == attempts[m]
<1>0. /\ JobsOK /\ \A v \in Worker : job[v][m] \in Job /\ KnownTo(as, job[v][m])
      /\ as \in SUBSET Attempt /\ IsFiniteSet(as) /\ LedgerOf(as)
      /\ attempts \in [Message -> SUBSET Attempt]
  BY DEF TypeInv, JobsOK, Jobs, AttemptsOK, Ledger
<1>1. ASSUME NEW k, SetJob(w, m, k), KnownTo(as, k), UNCHANGED attempts PROVE Ledger(m)'
  <2>1. \A v \in Worker : KnownTo(as, job'[v][m])
    BY <1>0, <1>1, SetJobFrame
  <2> QED BY <1>0, <1>1, <2>1 DEF Ledger
<1>2. Agrees(as, j)
  BY <1>0 DEF KnownTo
<1>3. CASE ReadStates(w, m)
  <2>1. PICK k \in Job :
           /\ SetJob(w, m, Delivered(k)) /\ k.new = j.new
           /\ k.done = DoneOf(m, j) /\ k.count = CountOf(m, j)
    BY <1>3, StatesRead
  <2>2. j.new = {} /\ UNCHANGED attempts
    BY <1>0, <1>3 DEF ReadStates, KnownTo, tables
  <2> QED BY <1>0, <1>1, <2>1, <2>2, ReadAgrees, DeliveredKnows
<1>4. ASSUME NEW s \in Subscription, Deliver(w, m, s) PROVE Ledger(m)'
  <2>1. PICK k \in Job, ok \in BOOLEAN :
          /\ SetJob(w, m, Delivered(k))
          /\ k.new = j.new \cup {[sub |-> s, number |-> j.count[s] + 1, success |-> ok]}
          /\ k.subs = j.subs /\ k.done = j.done /\ k.count = j.count
    BY <1>4, AttemptMade
  <2>2. s \in ToDeliver(j) /\ UNCHANGED attempts
    BY <1>4 DEF Deliver, tables
  <2> DEFINE a == [sub |-> s, number |-> j.count[s] + 1, success |-> ok]
  <2>3. a.sub = s /\ a.number = j.count[s] + 1 /\ k.new = j.new \cup {a}
    BY <2>1
  <2> HIDE DEF a
  <2>4. Agrees(as, k)
    BY <1>0, <1>2, <2>1, <2>2, <2>3, AttemptAgrees
  <2> QED BY <1>1, <2>1, <2>2, <2>4, DeliveredKnows
<1>5. CASE SaveAttempts(w, m)
  <2>1. \E k \in {NoJob, [j EXCEPT !.phase = Decision(j)]} : SetJob(w, m, k)
    BY <1>5 DEF SaveAttempts, NotSaved
  <2>2. KnownTo(as, NoJob) /\ KnownTo(as, [j EXCEPT !.phase = Decision(j)])
    BY <1>0, <1>2, NoJobKnows, DecisionKnows
  <2>3. CASE UNCHANGED attempts
    BY <1>1, <2>1, <2>2, <2>3
  <2>4. CASE ~InsertRejected(m, j.new) /\ attempts' = [attempts EXCEPT ![m] = @ \cup j.new]
    <3>1. \A a \in j.new, b \in as : ~(a.sub = b.sub /\ a.number = b.number)
      BY <2>4 DEF InsertRejected, KeyCollision
    <3>2. attempts'[m] = as \cup j.new
      BY <1>0, <2>4
    <3> DEFINE more == as \cup j.new
    <3>3. LedgerOf(more) /\ \A k \in Job : KnownTo(as, k) => KnownTo(more, k)
      BY <1>0, <1>2, <3>1, SavedLedger
    <3>4. NoJob \in Job /\ [j EXCEPT !.phase = Decision(j)] \in Job
      BY <1>0, NoJobType, DecisionType DEF Job, Phase
    <3> HIDE DEF more
    <3>5. \A v \in Worker : KnownTo(more, job'[v][m])
      BY <1>0, <2>1, <2>2, <3>3, <3>4, SetJobFrame
    <3> QED BY <3>2, <3>3, <3>5 DEF Ledger, more
  <2> QED BY <1>5, <2>3, <2>4 DEF SaveAttempts
<1> QED BY <1>3, <1>4, <1>5 DEF AttemptStep

LEMMA LedgerKept ==
  ASSUME TypeInv, IdleInv, Next, NEW m \in Message, Ledger(m)
  PROVE  Ledger(m)'
<1>1. CASE \E w \in Worker : AttemptStep(w, m)
  BY <1>1, LedgerOfAttemptStep
<1>2. CASE \A w \in Worker : ~AttemptStep(w, m)
  <2>1. attempts'[m] = attempts[m]
    BY <1>2, RecordsStep
  <2>2. ASSUME NEW w \in Worker
        PROVE  \/ job'[w][m] \in {NewJob(m), NoJob, Demoted(job[w][m])}
               \/ \E lost : Rests(job[w][m], job'[w][m], lost)
    <3>1. \A lost : Rests(job[w][m], job[w][m], lost)
      BY DEF Rests
    <3>2. CASE \E v \in Worker : LockTaken(v, m)
      BY <3>2 DEF LockTaken
    <3>3. CASE LockReleased(m)
      BY <3>3 DEF LockReleased
    <3>4. CASE \E v \in Worker : IsStatusWrite(v, m)
      BY <3>1, <3>4, StatusWriteFrame
    <3>5. CASE Expire(m) \/ BecomeDue(m)
      BY <3>1, <3>5 DEF Expire, BecomeDue, work
    <3>6. CASE AllRest(m)
      BY <3>6 DEF AllRest
    <3> QED BY <1>2, <3>2, <3>3, <3>4, <3>5, <3>6, MessageSteps DEF MessageStep
  <2> QED BY <2>1, <2>2, LedgerStays
<1> QED BY <1>1, <1>2

LEMMA LedgerStarts == ASSUME Init, NEW m \in Message PROVE Ledger(m)
<1>1. attempts[m] = {} /\ \A w \in Worker : job[w][m] = NoJob
  BY DEF Init
<1>2. IsFiniteSet({})
  BY FS_EmptySet
<1>3. LedgerOf({})
  <2>1. \A s : Of({}, s) = {}
    BY DEF Of
  <2>2. {a.number : a \in {}} = 1..0 /\ \A s \in Subscription : 0 <= SubMaxRetries[s] + 1
    BY PipelineAssumption
  <2>3. Cardinality({}) = 0
    BY FS_EmptySet
  <2> QED BY <2>1, <2>2, <2>3 DEF LedgerOf
<1> QED BY <1>1, <1>2, <1>3, NoJobKnows DEF Ledger

LEMMA LedgerInvariant == Spec => []LedgerInv
<1>1. Init => LedgerInv
  BY LedgerStarts DEF LedgerInv
<1>2. TypeInv /\ IdleInv /\ LedgerInv /\ [Next]_vars => LedgerInv'
  <2>1. LedgerInv /\ UNCHANGED vars => LedgerInv'
    BY DEF vars, tables, work, LedgerInv, Ledger
  <2> QED BY <2>1, LedgerKept DEF LedgerInv
<1> QED BY <1>1, <1>2, TypeInvariant, IdleInvariant, PTL DEF Spec

\* The attempts recorded for a message and a subscription are numbered 1..n, at
\* most MaxRetries + 1 of them, and a success is the last: the primary key of
\* DeliveryAttempts and the all-or-nothing INSERT are enough, whatever jobs
\* overlap and however stale their counts are.
THEOREM LedgerIsKept == Spec => []AttemptLedger
<1>1. LedgerInv => AttemptLedger
  BY AttemptsOfIsOf DEF LedgerInv, Ledger, LedgerOf, AttemptLedger
<1> QED BY <1>1, LedgerInvariant, PTL

\* The count of a job that gives up cannot exceed the attempts recorded, which
\* cannot exceed the limit: so it is up to date.
LEMMA DeadMeansExhausted ==
  ASSUME TypeInv, NEW w \in Worker, NEW m \in Message, Ledger(m), job[w][m].phase = "dead"
  PROVE  \E s \in job[w][m].subs :
           /\ Cardinality(AttemptsOf(m, s)) > SubMaxRetries[s]
           /\ \A a \in AttemptsOf(m, s) : ~a.success
<1> DEFINE j == job[w][m]
           as == attempts[m]
<1>0. j \in Job /\ IsFiniteSet(as) /\ KnownTo(as, j) /\ LedgerOf(as)
  BY DEF TypeInv, JobsOK, Jobs, AttemptsOK, Ledger
<1>1. PICK s \in j.subs \ j.done : j.count[s] > SubMaxRetries[s]
  BY <1>0 DEF KnownTo, Exhausted
<1> DEFINE n == Cardinality(Of(as, s))
<1>2. /\ s \in Subscription /\ j.count[s] \in Nat /\ SubMaxRetries[s] \in Nat /\ n \in Nat
      /\ j.count[s] <= n /\ n <= SubMaxRetries[s] + 1
      /\ j.count[s] = n => ~Recorded(as, s)
  <2>1. s \in Subscription /\ j.count[s] \in Nat /\ SubMaxRetries[s] \in Nat
    BY <1>0, PipelineAssumption DEF Job
  <2>2. n \in Nat
    BY <1>0, OfIsFinite
  <2> QED BY <1>0, <1>1, <2>1, <2>2 DEF KnownTo, Agrees, LedgerOf
<1> HIDE DEF n
<1>3. j.count[s] = n /\ n > SubMaxRetries[s]
  BY <1>1, <1>2
<1>4. ~Recorded(as, s) /\ Cardinality(Of(as, s)) > SubMaxRetries[s]
  BY <1>2, <1>3 DEF n
<1> QED BY <1>1, <1>4, AttemptsOfIsOf DEF Recorded

\* A job dead-letters a message as exhausted only when some subscription it read
\* has used all its attempts in vain, even if the job has lost its lock since.
THEOREM ExhaustionHolds == Spec => []ExhaustionIsReal
<1>1. TypeInv /\ LedgerInv => ExhaustionIsReal
  BY DeadMeansExhausted DEF LedgerInv, ExhaustionIsReal
<1> QED BY <1>1, TypeInvariant, LedgerInvariant, PTL

-----------------------------------------------------------------------------
(* 7. Exactly once when nothing goes wrong *)

Open(j) == j.phase \in {"deliver", "save"}

\* A success that j has made and not saved yet.
Carries(j, s) == Open(j) /\ \E a \in j.new : a.sub = s /\ a.success

\* A job that delivers knows the records as they are.
Fresh(as, j) ==
  Open(j) => \A s \in j.subs :
    /\ j.count[s] = Cardinality(Of(as, s))
    /\ Recorded(as, s) => s \in j.done

\* One acknowledgement is recorded, or carried by a job at work; there is no second.
Once(m) ==
  /\ \A s \in Subscription :
       /\ acks[m][s] # 2
       /\ acks[m][s] # 0 =>
            Recorded(attempts[m], s) \/ \E w \in Worker : Carries(job[w][m], s)
  /\ \A w \in Worker : Fresh(attempts[m], job[w][m])

\* DuplicateOnlyIfDisturbed is inductive only with the lock gate, the ledger and this.
OnceInv == \A m \in Message : m \notin disturbed => Once(m)

\* Steps that neither record nor deliver, and stop no job with results.
LEMMA OnceStays ==
  ASSUME NEW m \in Message, Once(m), acks'[m] = acks[m], attempts'[m] = attempts[m],
         \A w \in Worker : Open(job[w][m]) \/ Open(job'[w][m]) => job'[w][m] = job[w][m]
  PROVE  Once(m)'
<1>1. \A w \in Worker : \A s : Carries(job[w][m], s) => Carries(job'[w][m], s)
  BY DEF Carries
<1>2. \A w \in Worker : Fresh(attempts[m], job'[w][m])
  BY DEF Once, Fresh
<1> QED BY <1>1, <1>2 DEF Once

\* A resting job that delivers or saves stays exactly as it is.
LEMMA OpenRests ==
  ASSUME NEW j \in Job, NEW k, NEW m, m \notin disturbed',
         Rests(j, k, m \in disturbed'), Open(j) \/ Open(k)
  PROVE  k = j
<1>1. CASE k = [NoJob EXCEPT !.phase = "trylock"] /\ j.phase = "idle"
  BY <1>1 DEF Open, NoJob
<1>2. CASE k = NoJob /\ ~Open(j)
  BY <1>2 DEF Open, NoJob
<1>3. ASSUME NEW p \in {"processed", "states"}, j.phase = "subs",
             k = [j EXCEPT !.subs = active, !.phase = p]
      PROVE  FALSE
  BY <1>3 DEF Open, Job
<1>4. CASE j.phase = "states" /\ k = [j EXCEPT !.phase = "failure"]
  BY <1>4 DEF Open, Job
<1> QED BY <1>1, <1>2, <1>3, <1>4 DEF Rests, Open

LEMMA OthersAreClosed ==
  ASSUME NEW m \in Message, Gate(m), NEW w \in Worker, Working(w, m), NEW v \in Worker, v # w
  PROVE  ~Working(v, m) /\ ~Open(job[v][m])
BY DEF Gate, Working, Open

\* The states of a job at work are read: it delivers only what nobody has recorded.
LEMMA ReadIsFresh ==
  ASSUME NEW m, NEW j, NEW k \in Job,
         k.done = DoneOf(m, j), k.count = CountOf(m, j), k.subs = j.subs
  PROVE  Fresh(attempts[m], Delivered(k))
<1> DEFINE d == Delivered(k)
<1>1. d.done = k.done /\ d.count = k.count /\ d.subs = k.subs
  BY DEF Delivered, Job
<1>2. \A s \in j.subs : s \in Subscription
  BY DEF Job
<1>3. \A s \in j.subs : /\ k.count[s] = Cardinality(Of(attempts[m], s))
                        /\ Recorded(attempts[m], s) => s \in k.done
  BY <1>2, AttemptsOfIsOf DEF DoneOf, CountOf, Recorded
<1> HIDE DEF d
<1>4. Fresh(attempts[m], d)
  BY <1>1, <1>3 DEF Fresh
<1> QED BY <1>4 DEF d

LEMMA OnceAfterRead ==
  ASSUME TypeInv, NEW w \in Worker, NEW m \in Message, Gate(m), Ledger(m), Once(m),
         ReadStates(w, m)
  PROVE  Once(m)'
<1> DEFINE j == job[w][m]
<1>1. j.phase = "states" /\ UNCHANGED <<attempts, acks>>
  BY DEF ReadStates, tables, history
<1>2. PICK k \in Job : /\ SetJob(w, m, Delivered(k)) /\ k.subs = j.subs
                       /\ k.done = DoneOf(m, j) /\ k.count = CountOf(m, j)
  BY StatesRead
<1>3. \A v \in Worker : job'[v][m] = IF v = w THEN Delivered(k) ELSE job[v][m]
  BY <1>2, SetJobFrame DEF TypeInv
<1>4. \A v \in Worker : \A s : Carries(job[v][m], s) => Carries(job'[v][m], s)
  BY <1>1, <1>3 DEF Carries, Open
<1>5. \A v \in Worker : Fresh(attempts[m], job'[v][m])
  BY <1>2, <1>3, ReadIsFresh DEF Once
<1> QED BY <1>1, <1>4, <1>5 DEF Once

\* A job delivers to a subscription that has acknowledged nothing yet.
LEMMA NotYetAcked ==
  ASSUME TypeInv, NEW w \in Worker, NEW m \in Message, Gate(m), Once(m),
         job[w][m].phase = "deliver", NEW s \in ToDeliver(job[w][m])
  PROVE  s \in Subscription /\ acks[m][s] = 0
<1> DEFINE j == job[w][m]
<1>1. j \in Job /\ s \in Subscription
  BY DEF TypeInv, JobsOK, Jobs, ToDeliver, Job
<1>2. s \in j.subs \ j.done /\ \A a \in j.new : a.sub # s
  BY DEF ToDeliver, Subs
<1>3. ~Recorded(attempts[m], s)
  BY <1>2 DEF Once, Fresh, Open
<1>4. \A v \in Worker : ~Carries(job[v][m], s)
  <2>1. Working(w, m)
    BY DEF Working
  <2> QED BY <1>2, <2>1, OthersAreClosed DEF Carries
<1> QED BY <1>1, <1>3, <1>4 DEF Once

LEMMA OnceAfterDelivery ==
  ASSUME TypeInv, NEW w \in Worker, NEW m \in Message, Gate(m), Ledger(m), Once(m),
         m \notin disturbed', NEW s \in Subscription, Deliver(w, m, s)
  PROVE  Once(m)'
<1> DEFINE j == job[w][m]
<1>1. j.phase = "deliver" /\ s \in ToDeliver(j) /\ UNCHANGED attempts
  BY DEF Deliver, tables
<1>2. acks[m][s] = 0
  BY <1>1, NotYetAcked
<1>3. PICK k \in Job, ok, answered \in BOOLEAN :
        /\ SetJob(w, m, Delivered(k))
        /\ k.new = j.new \cup {[sub |-> s, number |-> j.count[s] + 1, success |-> ok]}
        /\ k.subs = j.subs /\ k.done = j.done /\ k.count = j.count
        /\ acks' = IF answered THEN [acks EXCEPT ![m][s] = IF @ = 0 THEN 1 ELSE 2] ELSE acks
        /\ answered /\ ~ok => m \in disturbed'
  BY AttemptMade
<1>4. /\ acks'[m][s] \in {0, 1} /\ (acks'[m][s] # 0 => ok)
      /\ \A t \in Subscription \ {s} : acks'[m][t] = acks[m][t]
  BY <1>2, <1>3 DEF TypeInv, HistoryOK
<1> DEFINE d == Delivered(k)
           a == [sub |-> s, number |-> j.count[s] + 1, success |-> ok]
<1>5. \A v \in Worker : job'[v][m] = IF v = w THEN d ELSE job[v][m]
  BY <1>3, SetJobFrame DEF TypeInv
<1>6. d.new = k.new /\ d.subs = j.subs /\ d.done = j.done /\ d.count = j.count
  BY <1>3 DEF Delivered, Job
<1>7. Open(d)
  <2>1. k.new # {}
    BY <1>3
  <2>2. d.phase \in {"deliver", "save"}
    BY <2>1 DEF Delivered, Job
  <2> QED BY <2>2 DEF Open
<1>8. k.new = j.new \cup {a} /\ a.sub = s /\ (a.success <=> ok)
  BY <1>3
<1> HIDE DEF d, a
<1>9. \A v \in Worker : Fresh(attempts[m], job'[v][m])
  <2>1. Fresh(attempts[m], d)
    BY <1>1, <1>6 DEF Once, Fresh, Open
  <2> QED BY <1>5, <2>1 DEF Once
<1>10. \A v \in Worker : \A t : Carries(job[v][m], t) => Carries(job'[v][m], t)
  BY <1>5, <1>6, <1>7, <1>8 DEF Carries
<1>11. ok => Carries(job'[w][m], s)
  BY <1>5, <1>6, <1>7, <1>8 DEF Carries
<1>12. ASSUME NEW t \in Subscription
       PROVE  /\ acks'[m][t] # 2
              /\ acks'[m][t] # 0 =>
                   Recorded(attempts[m], t) \/ \E v \in Worker : Carries(job'[v][m], t)
  <2>1. CASE t = s
    BY <1>4, <1>11, <2>1
  <2>2. CASE t # s
    BY <1>4, <1>10, <2>2 DEF Once
  <2> QED BY <2>1, <2>2
<1> QED BY <1>1, <1>9, <1>12 DEF Once

\* A job that knows the records as they are collides with no key.
LEMMA FreshNeverCollides ==
  ASSUME NEW as \in SUBSET Attempt, IsFiniteSet(as), LedgerOf(as),
         NEW j \in Job, Agrees(as, j), Open(j), Fresh(as, j)
  PROVE  \A a \in j.new, b \in as : ~(a.sub = b.sub /\ a.number = b.number)
<1> SUFFICES ASSUME NEW a \in j.new, NEW b \in as, a.sub = b.sub, a.number = b.number
             PROVE  FALSE
  OBVIOUS
<1> DEFINE s == a.sub
<1>1. s \in j.subs /\ s \in Subscription /\ a.number = j.count[s] + 1
  BY DEF Agrees, Job
<1>2. j.count[s] = Cardinality(Of(as, s))
  BY <1>1 DEF Fresh
<1>3. b.number \in 1..Cardinality(Of(as, s))
  BY <1>1 DEF LedgerOf, Of
<1>4. j.count[s] + 1 \in 1..j.count[s]
  BY <1>1, <1>2, <1>3
<1>5. j.count[s] \in Nat
  BY <1>1 DEF Job
<1>6. \A n \in Nat : n + 1 \notin 1..n
  OBVIOUS
<1> QED BY <1>4, <1>5, <1>6

LEMMA OnceAfterSave ==
  ASSUME TypeInv, NEW w \in Worker, NEW m \in Message, Gate(m), Ledger(m), Once(m),
         SaveAttempts(w, m)
  PROVE  Once(m)'
<1> DEFINE j == job[w][m]
           as == attempts[m]
<1>0. /\ JobsOK /\ j \in Job /\ as \in SUBSET Attempt /\ IsFiniteSet(as)
      /\ attempts \in [Message -> SUBSET Attempt]
      /\ LedgerOf(as) /\ Agrees(as, j) /\ Fresh(as, j)
      /\ j.phase = "save" /\ Open(j) /\ Working(w, m) /\ UNCHANGED acks
  BY DEF TypeInv, JobsOK, Jobs, AttemptsOK, Ledger, KnownTo, Once, SaveAttempts, Open,
         Working, history
<1>1. ~InsertRejected(m, j.new)
  <2>1. ~KeyCollision(m, j.new)
    BY <1>0, FreshNeverCollides DEF KeyCollision
  <2>2. row[m].status = "Processing"
    BY <1>0 DEF Gate, IsLockHeld, LockHeld
  <2> QED BY <2>1, <2>2 DEF InsertRejected
<1>2. /\ attempts'[m] = as \cup j.new
      /\ \E k \in {NoJob, [j EXCEPT !.phase = Decision(j)]} : SetJob(w, m, k)
  BY <1>0, <1>1 DEF SaveAttempts, NotSaved
<1>3. /\ \A v \in Worker \ {w} : job'[v][m] = job[v][m] /\ ~Open(job'[v][m])
      /\ ~Open(job'[w][m])
  <2>1. PICK k \in {NoJob, [j EXCEPT !.phase = Decision(j)]} : SetJob(w, m, k)
    BY <1>2
  <2>2. ~Open(k)
    BY <1>0, DecisionType DEF Open, NoJob, Job
  <2> QED BY <1>0, <2>1, <2>2, SetJobFrame, OthersAreClosed
<1>4. \A v \in Worker : Fresh(attempts'[m], job'[v][m])
  BY <1>3 DEF Fresh
<1>5. ASSUME NEW s \in Subscription, acks[m][s] # 0 PROVE Recorded(attempts'[m], s)
  <2>1. CASE Recorded(as, s)
    BY <1>2, <2>1 DEF Recorded, Of
  <2>2. ASSUME NEW v \in Worker, Carries(job[v][m], s) PROVE Recorded(attempts'[m], s)
    <3>1. v = w
      BY <1>0, <2>2, OthersAreClosed DEF Carries
    <3> QED BY <1>2, <2>2, <3>1 DEF Carries, Recorded, Of
  <2> QED BY <1>5, <2>1, <2>2 DEF Once
<1> QED BY <1>0, <1>4, <1>5 DEF Once

\* Every other step leaves open jobs alone, unless it disturbs the message.
LEMMA OpenJobsStay ==
  ASSUME TypeInv, IdleInv, Next, NEW m \in Message, Gate(m), m \notin disturbed',
         \A w \in Worker : ~AttemptStep(w, m), NEW w \in Worker,
         Open(job[w][m]) \/ Open(job'[w][m])
  PROVE  job'[w][m] = job[w][m]
<1>0. \A v \in Worker : /\ job[v][m] \in Job
                        /\ Demoted(job[v][m]).phase = job[v][m].phase
                        /\ Open(job[v][m]) => Working(v, m)
  BY DemotedFields DEF TypeInv, JobsOK, Jobs, Open, Working
<1>1. row[m].lease # "held" => \A v \in Worker : ~Working(v, m)
  BY DEF Gate, IsLockHeld, LockHeld
<1>2. ASSUME NEW v \in Worker, LockTaken(v, m) PROVE FALSE
  <2>1. job'[w][m] \in {NewJob(m), NoJob, Demoted(job[w][m])}
    BY <1>2 DEF LockTaken
  <2>2. ~Open(NewJob(m)) /\ ~Open(NoJob)
    BY DEF Open, NewJob, NoJob
  <2>3. ~Working(w, m)
    BY <1>1, <1>2 DEF LockTaken
  <2> QED BY <1>0, <2>1, <2>2, <2>3 DEF Open
<1>3. CASE LockReleased(m)
  BY <1>0, <1>1, <1>3 DEF LockReleased, Open
<1>4. ASSUME NEW v \in Worker, IsStatusWrite(v, m) PROVE FALSE
  <2>1. Working(v, m) /\ ~Open(job[v][m])
    BY <1>4 DEF IsStatusWrite, Processed, HandleMessageFailure, DeadLetter, Working, Open
  <2>2. ~Open(job[w][m])
    BY <2>1, OthersAreClosed
  <2>3. job'[w][m] \in {NoJob, job[w][m], Demoted(job[w][m])}
    BY <1>4, StatusWriteFrame
  <2> QED BY <1>0, <2>2, <2>3 DEF Open, NoJob
<1>5. CASE Expire(m) \/ BecomeDue(m)
  BY <1>5 DEF Expire, BecomeDue, work
<1>6. CASE AllRest(m)
  <2>1. Rests(job[w][m], job'[w][m], m \in disturbed')
    BY <1>6 DEF AllRest
  <2> QED BY <1>0, <2>1, OpenRests
<1> QED BY <1>2, <1>3, <1>4, <1>5, <1>6, MessageSteps DEF MessageStep

LEMMA OnceKept ==
  ASSUME TypeInv, IdleInv, Next, NEW m \in Message, Gate(m), Ledger(m), Once(m),
         m \notin disturbed'
  PROVE  Once(m)'
<1>1. CASE \E w \in Worker : AttemptStep(w, m)
  BY <1>1, OnceAfterRead, OnceAfterDelivery, OnceAfterSave DEF AttemptStep
<1>2. CASE \A w \in Worker : ~AttemptStep(w, m)
  BY <1>2, RecordsStep, OpenJobsStay, OnceStays
<1> QED BY <1>1, <1>2

LEMMA OnceStarts == ASSUME Init, NEW m \in Message PROVE Once(m)
BY DEF Init, Once, NoJob, Fresh, Open

LEMMA OnceInvariant == Spec => []OnceInv
<1>1. Init => OnceInv
  BY OnceStarts DEF OnceInv
<1>2. TypeInv /\ IdleInv /\ GateInv /\ LedgerInv /\ OnceInv /\ [Next]_vars => OnceInv'
  <2>1. OnceInv /\ UNCHANGED vars => OnceInv'
    BY DEF vars, tables, work, history, OnceInv, Once
  <2>2. ASSUME TypeInv, IdleInv, GateInv, LedgerInv, OnceInv, Next PROVE OnceInv'
    <3> SUFFICES ASSUME NEW m \in Message, m \notin disturbed' PROVE Once(m)'
      BY DEF OnceInv
    <3>1. m \notin disturbed
      BY <2>2, DisturbedGrows
    <3> QED BY <2>2, <3>1, OnceKept DEF GateInv, Guarded, LedgerInv, OnceInv
  <2> QED BY <2>1, <2>2
<1> QED BY <1>1, <1>2, TypeInvariant, IdleInvariant, GateInvariant, LedgerInvariant, PTL
     DEF Spec

\* Exactly once when nothing goes wrong: without an overrun lock, lost results or
\* a 2xx that came too late, no subscription acknowledges a message twice,
\* however often the message is retried, released, taken over or crashed with.
THEOREM NoDuplicateUndisturbed == Spec => []DuplicateOnlyIfDisturbed
<1>1. OnceInv => DuplicateOnlyIfDisturbed
  BY DEF OnceInv, Once, DuplicateOnlyIfDisturbed
<1> QED BY <1>1, OnceInvariant, PTL
-----------------------------------------------------------------------------
(* 8. Delivered means acknowledged *)

\* Neither an outcome nor an acknowledgement nor a subscription changes.
Quiet ==
  /\ \A m \in Message : Outcome(row'[m]) = Outcome(row[m])
  /\ UNCHANGED <<acks, active>>

LEMMA LoudSteps ==
  ASSUME TypeInv, Next
  PROVE  \/ Quiet
         \/ \E w \in Worker, m \in Message, s \in Subscription : Deliver(w, m, s)
         \/ \E s \in Subscription : Deactivate(s)
         \/ \E w \in Worker, m \in Message : IsStatusWrite(w, m)
<1> USE DEF tables, history
<1>0. row \in [Message -> Row]
  BY DEF TypeInv, StoreInv, StoreTypeOK
<1>1. ASSUME NEW r \in Row, r.status \in {"Pending", "Processing"}
      PROVE  /\ \A i : Outcome(Locked(r, i)) = Outcome(r)
             /\ Outcome(Unlocked(r, "Pending")) = Outcome(r)
  BY <1>1 DEF Outcome, Locked, Unlocked, Row
<1>2. ASSUME UNCHANGED <<row, acks, active>> PROVE Quiet
  BY <1>2 DEF Quiet
<1>3. ASSUME NEW w \in BatchWorker, BatchStep(w) PROVE Quiet
  <2>1. CASE StartBatch(w)
    BY <1>2, <2>1 DEF StartBatch
  <2>2. CASE ReleaseLocks(w)
    <3>1. \A m \in Message : row'[m] \in {row[m], Unlocked(row[m], "Pending")}
                             /\ (row'[m] # row[m] => row[m].status = "Processing")
      BY <2>2 DEF ReleaseLocks, ReleaseExpiredLocks, ExpiredLocks
    <3> QED BY <1>0, <1>1, <2>2, <3>1 DEF ReleaseLocks, Quiet
  <2>3. CASE LockBatch(w)
    <3>1. PICK batch \in SUBSET Message : LockNextBatch(Host[w], skip[w], batch)
      BY <2>3 DEF LockBatch
    <3>2. \A m \in Message : row'[m] \in {row[m], Locked(row[m], Host[w])}
                  /\ (row'[m] # row[m] => row[m].status \in {"Pending", "Processing"})
      BY <3>1 DEF LockNextBatch, IsOldestOf, Eligible, LockableByScan
    <3> QED BY <1>0, <1>1, <2>3, <3>2 DEF LockBatch, Quiet
  <2> QED BY <1>3, <2>1, <2>2, <2>3 DEF BatchStep
<1>4. ASSUME NEW w \in Worker, ReadSubscriptions(w) PROVE Quiet
  BY <1>2, <1>4 DEF ReadSubscriptions
<1>5. ASSUME NEW w \in Worker, NEW m \in Message,
             \/ TakeHint(w, m) \/ Cancel(w, m) \/ ReadStates(w, m) \/ SaveAttempts(w, m)
      PROVE  Quiet
  BY <1>2, <1>5 DEF TakeHint, Cancel, ReadStates, SaveAttempts
<1>6. ASSUME NEW w \in Worker, NEW m \in Message, LockHinted(w, m) PROVE Quiet
  <2>1. \A n \in Message : row'[n] \in {row[n], Locked(row[n], Host[w])}
              /\ (row'[n] # row[n] => row[n].status = "Pending")
    BY <1>0, <1>6 DEF LockHinted, TryLockById, LockableById
  <2> QED BY <1>0, <1>1, <1>6, <2>1 DEF LockHinted, Quiet
<1>7. ASSUME NEW m \in Message, Expire(m) \/ BecomeDue(m) PROVE Quiet
  <2>1. \A n \in Message : row'[n].status = row[n].status
    BY <1>0, <1>7 DEF Expire, BecomeDue, LeaseExpires, RetryDue, Row
  <2> QED BY <1>7, <2>1 DEF Expire, BecomeDue, Quiet, Outcome
<1>8. CASE FaultStep
  BY <1>2, <1>8 DEF FaultStep, BatchFails, ReadSubscriptionsFails, ReaderTimesOut,
                    ReadStatesFails, DelivererThrows, SaveAttemptsFails, StatementFails, Crash
<1> QED BY <1>3, <1>4, <1>5, <1>6, <1>7, <1>8 DEF Next, JobStep, IsStatusWrite

\* A status write settles an open message or leaves the row as it is.
LEMMA StatusWriteSettles ==
  ASSUME TypeInv, NEW w \in Worker, NEW m \in Message, IsStatusWrite(w, m)
  PROVE  /\ UNCHANGED <<acks, active>>
         /\ \A n \in Message \ {m} : row'[n] = row[n]
         /\ \/ row'[m] = row[m]
            \/ /\ Outcome(row[m]) = "open"
               /\ \/ Outcome(row'[m]) \in {"open", "dead"}
                  \/ Outcome(row'[m]) = "delivered" /\ job[w][m].phase = "processed"
<1>0. row \in [Message -> Row] /\ row[m] \in Row
  BY DEF TypeInv, StoreInv, StoreTypeOK
<1>1. UNCHANGED <<acks, active>>
  BY DEF IsStatusWrite, Processed, HandleMessageFailure, DeadLetter, StatusWrite, history
<1>2. CASE ~Owns(Host[w], m)
  <2>1. UNCHANGED row
    BY <1>2 DEF IsStatusWrite, Processed, HandleMessageFailure, DeadLetter, MarkAsProcessed,
                MarkAsDeadLettered, IncrementRetry, GiveUp
  <2> QED BY <1>1, <2>1
<1>3. CASE Owns(Host[w], m)
  <2>1. row[m].status = "Processing"
    <3>1. row[m].lockedBy # NoInstance
      BY <1>3, HostIsInstance, StoreAssumption DEF Owns
    <3> QED BY <3>1 DEF TypeInv, StoreInv, RowInv, RowLocksAgree
  <2>2. Outcome(row[m]) = "open"
    BY <2>1 DEF Outcome
  <2>3. \E r : /\ row' = [row EXCEPT ![m] = r]
               /\ \/ Outcome(r) \in {"open", "dead"}
                  \/ Outcome(r) = "delivered" /\ job[w][m].phase = "processed"
    <3>1. CASE Processed(w, m)
      <4>1. row' = [row EXCEPT ![m] = Unlocked(row[m], "Delivered")] /\ job[w][m].phase = "processed"
        BY <1>3, <3>1 DEF Processed, MarkAsProcessed, GiveUp
      <4>2. Outcome(Unlocked(row[m], "Delivered")) = "delivered"
        BY <1>0 DEF Outcome, Unlocked, Row
      <4> QED BY <4>1, <4>2
    <3>2. CASE MarkAsDeadLettered(Host[w], m)
      <4>1. row' = [row EXCEPT ![m] = Unlocked(row[m], "DeadLettered")]
        BY <1>3, <3>2 DEF MarkAsDeadLettered, GiveUp
      <4>2. Outcome(Unlocked(row[m], "DeadLettered")) = "dead"
        BY <1>0 DEF Outcome, Unlocked, Row
      <4> QED BY <4>1, <4>2
    <3>3. CASE IncrementRetry(Host[w], m)
      <4> DEFINE r == [Unlocked(row[m], "Pending") EXCEPT !.retryCount = @ + 1, !.due = FALSE]
      <4>1. row' = [row EXCEPT ![m] = r]
        BY <1>3, <3>3 DEF IncrementRetry, GiveUp
      <4>2. r.status = "Pending"
        BY <1>0 DEF Unlocked, Row
      <4>3. Outcome(r) = "open"
        BY <4>2 DEF Outcome
      <4> QED BY <4>1, <4>3
    <3> QED BY <3>1, <3>2, <3>3 DEF IsStatusWrite, HandleMessageFailure, DeadLetter
  <2> QED BY <1>0, <1>1, <2>2, <2>3
<1> QED BY <1>2, <1>3

\* What a job knows about message m: every success it holds was acknowledged; it
\* read every subscription still active; it decides "processed" only when all
\* those it read have acknowledged.  got is acks[m], wanted is active.
JobAcked(got, wanted, j) ==
  /\ \A s \in Succeeded(j) : got[s] # 0
  /\ j.phase \notin {"idle", "trylock", "subs"} => wanted \subseteq j.subs
  /\ j.phase = "processed" => \A s \in j.subs : got[s] # 0
  /\ j.phase = "save" => ToDeliver(j) = {}

RecordsAcked ==
  \A m \in Message : \A a \in attempts[m] : a.success => acks[m][a.sub] # 0

JobsAcked == \A w \in Worker, m \in Message : JobAcked(acks[m], active, job[w][m])

\* The inductive invariant.
AckInv == RecordsAcked /\ JobsAcked /\ DeliveredMeansAcknowledged

LEMMA NoJobAcked == \A got, wanted : JobAcked(got, wanted, NoJob)
BY DEF JobAcked, NoJob, Succeeded, Subs

LEMMA NewJobAcked == \A m, got, wanted : JobAcked(got, wanted, NewJob(m))
BY DEF JobAcked, NewJob, NoJob, Succeeded, Subs

\* A job without failures that has nothing left to deliver and exhausted nothing
\* holds a success for every subscription it read.
LEMMA DecisionAcked ==
  ASSUME NEW j \in Job, ToDeliver(j) = {}, Decision(j) = "processed"
  PROVE  j.subs \subseteq Succeeded(j)
<1>1. Failed(j) = {} /\ Exhausted(j) = {}
  BY DEF Decision
<1>2. \A a \in j.new : a.success
  BY <1>1 DEF Failed, Subs
<1>3. j.subs \subseteq j.done \cup Subs(j.new)
  BY <1>1 DEF ToDeliver
<1> QED BY <1>2, <1>3 DEF Succeeded, Subs

\* Only the phase of a job is new: what it knows follows from what it knew.
LEMMA PhaseAcked ==
  ASSUME NEW got, NEW wanted, NEW j \in Job, NEW p \in Phase,
         \A s \in Succeeded(j) : got[s] # 0,
         p \notin {"idle", "trylock", "subs"} => wanted \subseteq j.subs,
         p = "processed" => j.subs \subseteq Succeeded(j),
         p = "save" => ToDeliver(j) = {}
  PROVE  JobAcked(got, wanted, [j EXCEPT !.phase = p])
<1> DEFINE k == [j EXCEPT !.phase = p]
<1>1. /\ k.phase = p /\ k.subs = j.subs /\ k.done = j.done
      /\ k.new = j.new /\ k.count = j.count
  BY DEF Job
<1>2. Succeeded(k) = Succeeded(j) /\ Exhausted(k) = Exhausted(j)
  BY <1>1 DEF Succeeded, Exhausted
<1>3. ToDeliver(k) = ToDeliver(j)
  BY <1>1, <1>2 DEF ToDeliver
<1> HIDE DEF k
<1>4. JobAcked(got, wanted, k)
  BY <1>1, <1>2, <1>3 DEF JobAcked
<1> QED BY <1>4 DEF k

\* A job that goes on after reading states or after a delivery.
LEMMA DeliveredAcked ==
  ASSUME NEW got, NEW wanted, NEW j \in Job,
         \A s \in Succeeded(j) : got[s] # 0, wanted \subseteq j.subs
  PROVE  JobAcked(got, wanted, Delivered(j))
<1> DEFINE p == IF ToDeliver(j) # {} THEN "deliver"
                ELSE IF j.new # {} THEN "save" ELSE Decision(j)
<1>1. p \in Phase
  BY DecisionType DEF Phase
<1>2. p = "processed" => j.subs \subseteq Succeeded(j)
  BY DecisionAcked
<1>3. p = "save" => ToDeliver(j) = {}
  BY DecisionType
<1>4. Delivered(j) = [j EXCEPT !.phase = p]
  BY DEF Delivered
<1> HIDE DEF p
<1> QED BY <1>1, <1>2, <1>3, <1>4, PhaseAcked

\* Knowledge survives more acknowledgements and fewer subscriptions.
LEMMA AckedMonotone ==
  ASSUME NEW got, NEW more, NEW wanted, NEW fewer \in SUBSET wanted, NEW j \in Job,
         \A s \in Subscription : got[s] # 0 => more[s] # 0,
         JobAcked(got, wanted, j)
  PROVE  JobAcked(more, fewer, j)
<1>1. Succeeded(j) \subseteq Subscription /\ j.subs \subseteq Subscription
  BY DEF Succeeded, Subs, Job, Attempt
<1> QED BY <1>1 DEF JobAcked

\* Whether a job's lock was taken over does not matter to what it knows.
LEMMA SupersededAcked ==
  ASSUME NEW got, NEW wanted, NEW j \in Job, JobAcked(got, wanted, j)
  PROVE  JobAcked(got, wanted, [j EXCEPT !.current = FALSE])
<1> DEFINE k == [j EXCEPT !.current = FALSE]
<1>1. /\ k.phase = j.phase /\ k.subs = j.subs /\ k.done = j.done
      /\ k.new = j.new /\ k.count = j.count
  BY DEF Job
<1>2. Succeeded(k) = Succeeded(j) /\ Exhausted(k) = Exhausted(j)
  BY <1>1 DEF Succeeded, Exhausted
<1>3. ToDeliver(k) = ToDeliver(j)
  BY <1>1, <1>2 DEF ToDeliver
<1> HIDE DEF k
<1>4. JobAcked(got, wanted, k)
  BY <1>1, <1>2, <1>3 DEF JobAcked
<1> QED BY <1>4 DEF k

\* Acknowledgements are never taken back, subscriptions never restored.
LEMMA AcksGrow ==
  ASSUME TypeInv, Next
  PROVE  /\ \A m \in Message, s \in Subscription : acks[m][s] # 0 => acks'[m][s] # 0
         /\ active' \subseteq active
<1>1. CASE UNCHANGED <<acks, active>>
  BY <1>1
<1>2. ASSUME NEW w \in Worker, NEW m \in Message, NEW s \in Subscription, Deliver(w, m, s)
      PROVE  /\ \A n \in Message, t \in Subscription : acks[n][t] # 0 => acks'[n][t] # 0
             /\ active' \subseteq active
  BY <1>2 DEF Deliver, tables, TypeInv, HistoryOK
<1>3. ASSUME NEW s \in Subscription, Deactivate(s)
      PROVE  UNCHANGED acks /\ active' \subseteq active
  BY <1>3 DEF Deactivate, history
<1> QED BY <1>1, <1>2, <1>3, LoudSteps, StatusWriteSettles DEF Quiet

\* The records stay acknowledged: the attempts saved are those of a job.
LEMMA RecordsKept ==
  ASSUME TypeInv, AckInv, Next
  PROVE  RecordsAcked'
<1>1. SUFFICES ASSUME NEW m \in Message, NEW a \in attempts'[m], a.success
               PROVE  acks'[m][a.sub] # 0
  BY DEF RecordsAcked
<1>2. a \in attempts[m] \/ \E w \in Worker : a \in job[w][m].new
  BY AttemptsGrow DEF TypeInv, AttemptsOK
<1>3. a.sub \in Subscription /\ acks[m][a.sub] # 0
  <2>1. CASE a \in attempts[m]
    BY <1>1, <2>1 DEF AckInv, RecordsAcked, TypeInv, AttemptsOK, Attempt
  <2>2. ASSUME NEW w \in Worker, a \in job[w][m].new PROVE a.sub \in Subscription /\ acks[m][a.sub] # 0
    <3>1. a.sub \in Succeeded(job[w][m])
      BY <1>1, <2>2 DEF Succeeded, Subs
    <3>2. a \in Attempt
      BY <2>2 DEF TypeInv, JobsOK, Jobs, Job
    <3> QED BY <3>1, <3>2 DEF AckInv, JobsAcked, JobAcked, Attempt
  <2> QED BY <1>2, <2>1, <2>2
<1> QED BY <1>3, AcksGrow

\* A message that becomes Delivered was decided "processed".
LEMMA DeliveredKept ==
  ASSUME TypeInv, AckInv, Next
  PROVE  DeliveredMeansAcknowledged'
<1>0. \A m \in Message : row[m].status = "Delivered" <=> Outcome(row[m]) = "delivered"
  BY DEF Outcome
<1>1. SUFFICES ASSUME NEW m \in Message, NEW s \in active', Outcome(row'[m]) = "delivered"
               PROVE  acks'[m][s] # 0
  <2>1. \A m \in Message : row'[m].status = "Delivered" => Outcome(row'[m]) = "delivered"
    BY DEF Outcome
  <2> QED BY <1>1, <2>1 DEF DeliveredMeansAcknowledged
<1>2. s \in active /\ s \in Subscription
  BY AcksGrow DEF TypeInv, PollOK
<1>3. CASE Outcome(row[m]) = "delivered"
  BY <1>0, <1>2, <1>3, AcksGrow DEF AckInv, DeliveredMeansAcknowledged
<1>4. CASE Outcome(row[m]) # "delivered"
  <2>1. PICK w \in Worker, n \in Message : IsStatusWrite(w, n)
    BY <1>1, <1>4, LoudSteps DEF Quiet, Deliver, Deactivate, tables
  <2>2. m = n /\ job[w][m].phase = "processed" /\ UNCHANGED acks
    BY <1>1, <1>4, <2>1, StatusWriteSettles
  <2>3. \A t \in active : acks[m][t] # 0
    BY <2>2 DEF AckInv, JobsAcked, JobAcked
  <2> QED BY <1>2, <2>2, <2>3
<1> QED BY <1>3, <1>4

\* A job goes on as it was, forgets all, or is checked on its own.
LEMMA JobsAckedKept ==
  ASSUME TypeInv, AckInv, Next,
         \A w \in Worker, m \in Message :
           \/ job'[w][m] \in {job[w][m], [job[w][m] EXCEPT !.current = FALSE], NoJob, NewJob(m)}
           \/ JobAcked(acks'[m], active', job'[w][m])
  PROVE  JobsAcked'
<1>1. SUFFICES ASSUME NEW w \in Worker, NEW m \in Message
               PROVE  JobAcked(acks'[m], active', job'[w][m])
  BY DEF JobsAcked
<1>2. JobAcked(acks'[m], active', job[w][m]) /\ job[w][m] \in Job
  BY AcksGrow, AckedMonotone DEF AckInv, JobsAcked, TypeInv, JobsOK, Jobs
<1>3. JobAcked(acks'[m], active', [job[w][m] EXCEPT !.current = FALSE])
  BY <1>2, SupersededAcked
<1> QED BY <1>2, <1>3, NoJobAcked, NewJobAcked

\* The same when one job moves to k.
LEMMA SetJobAcked ==
  ASSUME TypeInv, AckInv, Next, NEW w \in Worker, NEW m \in Message, NEW k,
         SetJob(w, m, k), JobAcked(acks'[m], active', k)
  PROVE  JobsAcked'
<1>1. \A v \in Worker, n \in Message :
        job'[v][n] = IF v = w /\ n = m THEN k ELSE job[v][n]
  BY DEF SetJob, TypeInv, JobsOK, Jobs
<1> QED BY <1>1, JobsAckedKept

LEMMA SupersededIsOld ==
  ASSUME NEW ms, NEW w \in Worker, NEW m \in Message
  PROVE  Superseded(ms)[w][m] \in {job[w][m], [job[w][m] EXCEPT !.current = FALSE]}
BY DEF Superseded

\* Steps that start, end or supersede jobs.
LEMMA AckedLocks ==
  ASSUME TypeInv, AckInv, Next, NEW w \in Worker,
         \/ w \in BatchWorker /\ BatchStep(w)
         \/ \E n \in Message : LockHinted(w, n) \/ IsStatusWrite(w, n)
  PROVE  JobsAcked'
<1> DEFINE Old(v, m) == {job[v][m], [job[v][m] EXCEPT !.current = FALSE], NoJob, NewJob(m)}
<1>0. job \in Jobs /\ \A ms : Superseded(ms) \in Jobs
  BY SupersededType DEF TypeInv, JobsOK
<1>1. CASE w \in BatchWorker /\ StartBatch(w)
  BY <1>1, JobsAckedKept DEF StartBatch
<1>2. CASE w \in BatchWorker /\ ReleaseLocks(w)
  <2>1. \A v \in Worker, m \in Message : job'[v][m] \in Old(v, m)
    BY <1>2, SupersededIsOld DEF ReleaseLocks
  <2> QED BY <2>1, JobsAckedKept
<1>3. CASE w \in BatchWorker /\ LockBatch(w)
  <2>1. PICK batch \in SUBSET Message :
          \/ job' = [Superseded(batch) EXCEPT ![w] =
                       [m \in Message |-> IF m \in batch THEN NewJob(m) ELSE @[m]]]
          \/ job' = Superseded(batch)
    BY <1>3 DEF LockBatch
  <2>2. \A v \in Worker, m \in Message :
          job'[v][m] \in {Superseded(batch)[v][m], NewJob(m)}
    BY <1>0, <2>1 DEF Jobs
  <2>3. \A v \in Worker, m \in Message : job'[v][m] \in Old(v, m)
    BY <2>2, SupersededIsOld
  <2> QED BY <2>3, JobsAckedKept
<1>4. ASSUME NEW n \in Message, LockHinted(w, n) PROVE JobsAcked'
  <2>1. \/ \E k \in {NewJob(n), NoJob} : job' = [Superseded({n}) EXCEPT ![w][n] = k]
        \/ job' = [job EXCEPT ![w][n] = NoJob]
    BY <1>4 DEF LockHinted, EndJob, SetJob
  <2>2. \A v \in Worker, m \in Message :
          job'[v][m] \in {job[v][m], Superseded({n})[v][m], NewJob(m), NoJob}
    <3>1. ASSUME NEW k \in {NewJob(n), NoJob}, job' = [Superseded({n}) EXCEPT ![w][n] = k]
          PROVE  \A v \in Worker, m \in Message :
                   job'[v][m] \in {Superseded({n})[v][m], NewJob(m), NoJob}
      <4>1. Superseded({n}) \in Jobs
        BY <1>0
      <4>2. \A v \in Worker, m \in Message :
              job'[v][m] = Superseded({n})[v][m] \/ (m = n /\ job'[v][m] = k)
        BY <3>1, <4>1 DEF Jobs
      <4> QED BY <3>1, <4>2
    <3>2. CASE job' = [job EXCEPT ![w][n] = NoJob]
      BY <1>0, <3>2 DEF Jobs
    <3> QED BY <2>1, <3>1, <3>2
  <2>3. \A v \in Worker, m \in Message : job'[v][m] \in Old(v, m)
    BY <2>2, SupersededIsOld
  <2> QED BY <2>3, JobsAckedKept
<1>5. ASSUME NEW n \in Message, IsStatusWrite(w, n) PROVE JobsAcked'
  <2>1. \/ job' = [Superseded({n}) EXCEPT ![w][n] = NoJob]
        \/ job' = [job EXCEPT ![w][n] = NoJob]
    BY <1>5 DEF IsStatusWrite, Processed, HandleMessageFailure, DeadLetter, StatusWrite
  <2>2. \A v \in Worker, m \in Message :
          job'[v][m] \in {job[v][m], Superseded({n})[v][m], NewJob(m), NoJob}
    <3>1. CASE job' = [Superseded({n}) EXCEPT ![w][n] = NoJob]
      <4>1. Superseded({n}) \in Jobs
        BY <1>0
      <4>2. \A v \in Worker, m \in Message :
              job'[v][m] = Superseded({n})[v][m] \/ (m = n /\ job'[v][m] = NoJob)
        BY <3>1, <4>1 DEF Jobs
      <4> QED BY <4>2
    <3>2. CASE job' = [job EXCEPT ![w][n] = NoJob]
      BY <1>0, <3>2 DEF Jobs
    <3> QED BY <2>1, <3>1, <3>2
  <2>3. \A v \in Worker, m \in Message : job'[v][m] \in Old(v, m)
    BY <2>2, SupersededIsOld
  <2> QED BY <2>3, JobsAckedKept
<1> QED BY <1>1, <1>2, <1>3, <1>4, <1>5 DEF BatchStep

\* Steps of a single job.
LEMMA AckedJobStep ==
  ASSUME TypeInv, AckInv, Next, NEW w \in Worker, NEW m \in Message,
         \/ TakeHint(w, m) \/ ReadStates(w, m) \/ SaveAttempts(w, m)
         \/ \E s \in Subscription : Deliver(w, m, s)
         \/ Cancel(w, m) \/ ReadStatesFails(w, m) \/ DelivererThrows(w, m)
         \/ SaveAttemptsFails(w, m) \/ StatementFails(w, m)
  PROVE  JobsAcked'
<1> DEFINE j == job[w][m]
           Known(k) == \A s \in Succeeded(k) : acks'[m][s] # 0
<1>0. j \in Job /\ JobAcked(acks'[m], active', j)
  BY AcksGrow, AckedMonotone DEF AckInv, JobsAcked, TypeInv, JobsOK, Jobs
<1>1. CASE TakeHint(w, m)
  <2>1. JobAcked(acks'[m], active', [NoJob EXCEPT !.phase = "trylock"])
    BY DEF JobAcked, NoJob, Succeeded, Subs
  <2> QED BY <1>1, <2>1, SetJobAcked DEF TakeHint
<1>2. CASE ReadStates(w, m)
  <2>1. PICK k \in Job :
          /\ SetJob(w, m, Delivered(k))
          /\ k.done = {s \in j.subs : \E a \in AttemptsOf(m, s) : a.success}
          /\ k.subs = j.subs /\ k.new = j.new
    BY <1>2, StatesRead DEF DoneOf
  <2>2. \A s \in k.done : s \in Subscription /\ acks[m][s] # 0
    BY <1>0, <2>1 DEF AckInv, RecordsAcked, AttemptsOf, Job
  <2>3. \A s \in Succeeded(k) : s \in k.done \/ s \in Succeeded(j)
    BY <2>1 DEF Succeeded
  <2>4. Known(k)
    BY <1>0, <2>2, <2>3, AcksGrow DEF JobAcked
  <2>5. active' \subseteq k.subs
    BY <1>0, <1>2, <2>1 DEF ReadStates, JobAcked
  <2> QED BY <2>1, <2>4, <2>5, DeliveredAcked, SetJobAcked
<1>3. ASSUME NEW s \in Subscription, Deliver(w, m, s) PROVE JobsAcked'
  <2> DEFINE a(ok) == [sub |-> s, number |-> j.count[s] + 1, success |-> ok]
  <2>1. PICK k \in Job, ok, answered \in BOOLEAN :
          /\ ok => answered
          /\ SetJob(w, m, Delivered(k))
          /\ k.new = j.new \cup {a(ok)}
          /\ k.subs = j.subs /\ k.done = j.done
          /\ acks' = IF answered THEN [acks EXCEPT ![m][s] = IF @ = 0 THEN 1 ELSE 2] ELSE acks
    BY <1>3, AttemptMade
  <2>2. ok => acks'[m][s] # 0
    BY <2>1 DEF TypeInv, HistoryOK
  <2>3. \A t \in Succeeded(k) : t \in Succeeded(j) \/ (t = s /\ ok)
    BY <2>1 DEF Succeeded, Subs
  <2>4. Known(k)
    BY <1>0, <2>2, <2>3 DEF JobAcked
  <2>5. active' \subseteq k.subs
    BY <1>0, <1>3, <2>1 DEF Deliver, JobAcked
  <2> QED BY <2>1, <2>4, <2>5, DeliveredAcked, SetJobAcked
<1>4. CASE SaveAttempts(w, m) \/ SaveAttemptsFails(w, m)
  <2>1. j.phase = "save"
    BY <1>4 DEF SaveAttempts, SaveAttemptsFails
  <2>2. JobAcked(acks'[m], active', [j EXCEPT !.phase = Decision(j)])
    <3>1. Decision(j) \in Phase /\ Decision(j) # "save"
      BY DecisionType DEF Phase
    <3>2. Known(j) /\ active' \subseteq j.subs /\ ToDeliver(j) = {}
      BY <1>0, <2>1 DEF JobAcked
    <3> QED BY <1>0, <3>1, <3>2, DecisionAcked, PhaseAcked
  <2>3. \E k \in {NoJob, [j EXCEPT !.phase = Decision(j)]} : SetJob(w, m, k)
    BY <1>4 DEF SaveAttempts, SaveAttemptsFails, NotSaved
  <2> QED BY <2>2, <2>3, NoJobAcked, SetJobAcked
<1>5. CASE ReadStatesFails(w, m)
  <2>1. JobAcked(acks'[m], active', [j EXCEPT !.phase = "failure"])
    <3>1. Known(j) /\ active' \subseteq j.subs
      BY <1>0, <1>5 DEF ReadStatesFails, JobAcked
    <3> QED BY <1>0, <3>1, PhaseAcked DEF Phase
  <2> QED BY <1>5, <2>1, SetJobAcked DEF ReadStatesFails
<1>6. CASE DelivererThrows(w, m)
  <2> DEFINE k == [j EXCEPT !.phase = "failure", !.new = {}]
  <2>1. k.phase = "failure" /\ k.subs = j.subs /\ k.done = j.done /\ k.new = {}
    BY <1>0 DEF Job
  <2>2. Succeeded(k) \subseteq Succeeded(j)
    BY <2>1 DEF Succeeded, Subs
  <2>3. active' \subseteq j.subs
    BY <1>0, <1>6 DEF DelivererThrows, JobAcked
  <2>4. JobAcked(acks'[m], active', k)
    BY <1>0, <2>1, <2>2, <2>3 DEF JobAcked
  <2> QED BY <1>6, <2>4, SetJobAcked DEF DelivererThrows
<1>7. CASE Cancel(w, m) \/ StatementFails(w, m)
  BY <1>7, NoJobAcked, SetJobAcked DEF Cancel, StatementFails, EndJob
<1> QED BY <1>1, <1>2, <1>3, <1>4, <1>5, <1>6, <1>7

\* The read of the subscriptions, for all jobs of a worker.
LEMMA AckedReadSubscriptions ==
  ASSUME TypeInv, AckInv, Next, NEW w \in Worker,
         ReadSubscriptions(w) \/ ReadSubscriptionsFails(w) \/ ReaderTimesOut(w)
  PROVE  JobsAcked'
<1>0. job \in Jobs
  BY DEF TypeInv, JobsOK
<1>1. CASE ReadSubscriptions(w)
  <2>1. UNCHANGED <<acks, active>>
    BY <1>1 DEF ReadSubscriptions, tables, history
  <2> DEFINE p == IF active = {} THEN "processed" ELSE "states"
             k(m) == [job[w][m] EXCEPT !.subs = active, !.phase = p]
  <2>2. ASSUME NEW m \in Message PROVE JobAcked(acks[m], active, k(m))
    <3>1. /\ k(m).phase = p /\ k(m).subs = active
          /\ k(m).done = job[w][m].done /\ k(m).new = job[w][m].new
      BY <1>0 DEF Jobs, Job
    <3>2. Succeeded(k(m)) = Succeeded(job[w][m])
      BY <3>1 DEF Succeeded
    <3>3. \A s \in Succeeded(job[w][m]) : acks[m][s] # 0
      BY DEF AckInv, JobsAcked, JobAcked
    <3>4. p # "save" /\ (p = "processed" => active = {})
      OBVIOUS
    <3> HIDE DEF k, p
    <3> QED BY <3>1, <3>2, <3>3, <3>4 DEF JobAcked
  <2>3. \A v \in Worker, m \in Message :
          job'[v][m] = job[v][m] \/ (v = w /\ job'[v][m] = k(m))
    <3>1. job' = [job EXCEPT ![w] = [m \in Message |->
                    IF job[w][m].phase # "subs" THEN job[w][m] ELSE k(m)]]
      BY <1>1 DEF ReadSubscriptions
    <3> HIDE DEF k
    <3> QED BY <1>0, <3>1 DEF Jobs
  <2> HIDE DEF k
  <2> QED BY <2>1, <2>2, <2>3, JobsAckedKept
<1>2. CASE ReadSubscriptionsFails(w) \/ ReaderTimesOut(w)
  <2>1. \A v \in Worker, m \in Message : job'[v][m] \in {job[v][m], NoJob}
    BY <1>0, <1>2 DEF ReadSubscriptionsFails, ReaderTimesOut, Jobs
  <2> QED BY <2>1, JobsAckedKept
<1> QED BY <1>1, <1>2

LEMMA AckInvStep ==
  ASSUME TypeInv, AckInv, Next
  PROVE  AckInv'
<1>1. JobsAcked'
  <2>1. ASSUME \A w \in Worker, m \in Message : job'[w][m] \in {job[w][m], NoJob}
        PROVE  JobsAcked'
    BY <2>1, JobsAckedKept
  <2>2. ASSUME \/ \E m \in Message : Expire(m) \/ BecomeDue(m)
               \/ \E s \in Subscription : Deactivate(s)
               \/ \E w \in BatchWorker : BatchFails(w)
               \/ \E i \in Instance : Crash(i)
        PROVE  JobsAcked'
    BY <2>1, <2>2 DEF Expire, BecomeDue, Deactivate, BatchFails, Crash, work
  <2> QED BY <2>2, AckedLocks, AckedJobStep, AckedReadSubscriptions, BatchWorkerIsWorker
          DEF Next, JobStep, FaultStep, IsStatusWrite
<1> QED BY <1>1, RecordsKept, DeliveredKept DEF AckInv

LEMMA AckStarts == Init => AckInv
<1>1. Init => RecordsAcked
  BY DEF Init, RecordsAcked
<1>2. Init => JobsAcked
  BY NoJobAcked DEF Init, JobsAcked
<1>3. Init => DeliveredMeansAcknowledged
  BY DEF Init, DeliveredMeansAcknowledged, NewRow
<1> QED BY <1>1, <1>2, <1>3 DEF AckInv

LEMMA AckInvKept == TypeInv /\ AckInv /\ [Next]_vars => AckInv'
<1>1. TypeInv /\ AckInv /\ UNCHANGED vars => AckInv'
  BY DEF vars, tables, work, history, AckInv, RecordsAcked, JobsAcked,
         DeliveredMeansAcknowledged
<1> QED BY <1>1, AckInvStep

LEMMA AckInvariant == Spec => []AckInv
BY AckStarts, AckInvKept, TypeInvariant, PTL DEF Spec

\* At-least-once: a Delivered message was acknowledged by every subscription that
\* is still active, whatever was lost, repeated or overtaken on the way.
THEOREM DeliveredIsAcknowledged == Spec => []DeliveredMeansAcknowledged
<1>1. AckInv => DeliveredMeansAcknowledged
  BY DEF AckInv
<1> QED BY <1>1, AckInvariant, PTL

-----------------------------------------------------------------------------
(* 9. The pipeline implements the promise *)

OutcomeOf == [m \in Message |-> Outcome(row[m])]
AckedOf == [m \in Message |-> {s \in Subscription : acks[m][s] # 0}]

\* The refinement mapping, step by step: a 2xx answer is an acknowledgement, a
\* deactivation a subscription no longer wanted, a status write a settlement, and
\* everything else goes unseen.
LEMMA StepKeepsPromise ==
  ASSUME TypeInv, AckInv, Next
  PROVE  [Promise!PromiseNext]_(Promise!promise)
<1> USE DEF Promise!promise
<1>1. CASE Quiet
  <2>1. OutcomeOf' = OutcomeOf /\ AckedOf' = AckedOf /\ active' = active
    BY <1>1 DEF Quiet, OutcomeOf, AckedOf
  <2> QED BY <2>1 DEF OutcomeOf, AckedOf
<1>2. ASSUME NEW w \in Worker, NEW m \in Message, NEW s \in Subscription, Deliver(w, m, s)
      PROVE  [Promise!PromiseNext]_(Promise!promise)
  <2>1. OutcomeOf' = OutcomeOf /\ active' = active
    BY <1>2 DEF Deliver, tables, OutcomeOf
  <2>2. PICK ok \in BOOLEAN :
          acks' = IF ok THEN [acks EXCEPT ![m][s] = IF @ = 0 THEN 1 ELSE 2] ELSE acks
    BY <1>2 DEF Deliver
  <2>3. CASE ok
    <3>1. \A n \in Message, t \in Subscription :
            acks'[n][t] # 0 <=> (acks[n][t] # 0 \/ (n = m /\ t = s))
      BY <2>2, <2>3 DEF TypeInv, HistoryOK
    <3>2. AckedOf' = [AckedOf EXCEPT ![m] = @ \cup {s}]
      BY <3>1 DEF AckedOf
    <3>3. Promise!Acknowledge(m, s)
      BY <2>1, <3>2 DEF Promise!Acknowledge, OutcomeOf, AckedOf
    <3> QED BY <3>3 DEF Promise!PromiseNext
  <2>4. CASE ~ok
    <3>1. AckedOf' = AckedOf
      BY <2>2, <2>4 DEF AckedOf
    <3> QED BY <2>1, <3>1 DEF OutcomeOf, AckedOf
  <2> QED BY <2>3, <2>4
<1>3. ASSUME NEW s \in Subscription, Deactivate(s)
      PROVE  [Promise!PromiseNext]_(Promise!promise)
  <2>1. OutcomeOf' = OutcomeOf /\ AckedOf' = AckedOf /\ active' = active \ {s}
    BY <1>3 DEF Deactivate, history, OutcomeOf, AckedOf
  <2>2. Promise!Unsubscribe(s)
    BY <2>1 DEF Promise!Unsubscribe, OutcomeOf, AckedOf
  <2> QED BY <2>2 DEF Promise!PromiseNext
<1>4. ASSUME NEW w \in Worker, NEW m \in Message, IsStatusWrite(w, m)
      PROVE  [Promise!PromiseNext]_(Promise!promise)
  <2>1. AckedOf' = AckedOf /\ active' = active
    BY <1>4, StatusWriteSettles DEF AckedOf
  <2>2. OutcomeOf' = [OutcomeOf EXCEPT ![m] = Outcome(row'[m])]
    BY <1>4, StatusWriteSettles DEF OutcomeOf
  <2>3. CASE Outcome(row'[m]) = Outcome(row[m])
    <3>1. OutcomeOf' = OutcomeOf
      BY <2>2, <2>3 DEF OutcomeOf
    <3> QED BY <2>1, <3>1 DEF OutcomeOf, AckedOf
  <2>4. CASE Outcome(row'[m]) # Outcome(row[m])
    <3>1. Outcome(row[m]) = "open" /\ Outcome(row'[m]) \in {"delivered", "dead"}
      BY <1>4, <2>4, StatusWriteSettles
    <3>2. Outcome(row'[m]) = "delivered" => active \subseteq AckedOf[m]
      <4>1. Outcome(row'[m]) = "delivered" => job[w][m].phase = "processed"
        BY <1>4, <2>4, StatusWriteSettles
      <4>2. job[w][m].phase = "processed" => \A s \in active : acks[m][s] # 0
        BY DEF AckInv, JobsAcked, JobAcked
      <4>3. active \subseteq Subscription
        BY DEF TypeInv, PollOK
      <4> QED BY <4>1, <4>2, <4>3 DEF AckedOf
    <3>3. Promise!Settle(m, Outcome(row'[m]))
      BY <2>1, <2>2, <3>1, <3>2 DEF Promise!Settle, OutcomeOf, AckedOf
    <3> QED BY <3>1, <3>3 DEF Promise!PromiseNext
  <2> QED BY <2>3, <2>4
<1> QED BY <1>1, <1>2, <1>3, <1>4, LoudSteps

\* Outcomes are final and Delivered follows the acknowledgements: direct delivery
\* implements the safety part of OutboxPromise.
THEOREM PipelineKeepsPromise == Spec => PromiseOutcomes
<1>1. Init => Promise!PromiseInit
  BY DEF Init, Promise!PromiseInit, NewRow, Outcome
<1>2. TypeInv /\ AckInv /\ [Next]_vars => [Promise!PromiseNext]_(Promise!promise)
  <2>1. UNCHANGED vars => UNCHANGED Promise!promise
    BY DEF vars, tables, history, Promise!promise
  <2> QED BY <2>1, StepKeepsPromise
<1> QED BY <1>1, <1>2, TypeInvariant, AckInvariant, PTL
     DEF Spec, PromiseOutcomes, Promise!PromiseSafety
=============================================================================
