-------------------------- MODULE OutboxQueueProofs --------------------------
(***************************************************************************)
(* Proofs about queue-mediated processing (Spec of OutboxQueue), for any   *)
(* number of processes, workers, messages, faults and overruns.            *)
(*                                                                         *)
(*   1. The loops use the store only through the store's operations.       *)
(*   2. Type correctness, and which worker has what in which step.         *)
(*   3. While nothing is in doubt about a message, one worker has it,      *)
(*      under an unexpired lock; hence no second copy and no sent dead     *)
(*      letter.                                                            *)
(*   4. The refinement of the safety part of OutboxPromise.                *)
(*   5. Without faults, the owner of a held lock has the message.          *)
(***************************************************************************)
EXTENDS OutboxQueue, OutboxStoreProofs

-----------------------------------------------------------------------------
(* 1. The loops as callers of the store *)

\* What a worker holds on to in each step.
WorkerOK(w) ==
  /\ cur[w] = NoMessage <=> step[w] \in {"idle", "lock", "next"}
  /\ step[w] \in {"idle", "lock", "trylock"} => rest[w] = {}
  /\ cur[w] \notin rest[w]
  /\ step[w] = "lock" => w \in ColdWorker
  /\ step[w] = "publish" => hasPublisher
  /\ step[w] = "direct" => ~hasPublisher

\* The inductive invariant of this part.
QueueInv == QueueTypeOK /\ StoreInv /\ \A w \in Worker : WorkerOK(w)

LEMMA HostIsInstance == \A w \in Worker : Host[w] \in Instance
BY QueueAssumption

LEMMA ColdIsWorker == ColdWorker \subseteq Worker
BY DEF Worker

\* What a worker writes at the end are operations of the store.
LEMMA WritesAreStoreSteps ==
  ASSUME NEW w \in Worker, cur[w] \in Message,
         MarkAsProcessed(Host[w], cur[w]) \/ WriteFailure(w)
  PROVE  StoreStep
BY HostIsInstance DEF WriteFailure, StoreStep, OwnerStep, RetryStep

\* Every step leaves the table alone or is one statement of the store.
LEMMA NextIsStoreStep == ASSUME QueueInv, Next PROVE [StoreStep]_row
<1> USE DEF StoreStep
<1>1. ASSUME NEW w \in Worker, WorkerStep(w) PROVE [StoreStep]_row
  <2>1. CASE ReleaseLocks(w)
    BY <2>1 DEF ReleaseLocks, MaintenanceStep
  <2>2. CASE LockBatch(w)
    <3>1. PICK batch \in SUBSET Message : LockNextBatch(Host[w], skip[w], batch)
      BY <2>2 DEF LockBatch
    <3>2. skip[w] \in SUBSET Message /\ Host[w] \in Instance
      BY <2>2, HostIsInstance DEF LockBatch, QueueInv, QueueTypeOK, WorkerOK
    <3> QED BY <3>1, <3>2 DEF LockStep
  <2>3. CASE LockHinted(w)
    <3>1. cur[w] \in Message /\ TryLockById(Host[w], cur[w])
      BY <2>3 DEF LockHinted, QueueInv, QueueTypeOK, WorkerOK
    <3> QED BY <3>1, HostIsInstance DEF LockStep
  <2>4. CASE Mark(w) \/ HandleMessageFailure(w)
    <3>1. cur[w] \in Message
      BY <2>4 DEF Mark, HandleMessageFailure, QueueInv, QueueTypeOK, WorkerOK
    <3>2. MarkAsProcessed(Host[w], cur[w]) \/ WriteFailure(w)
      BY <2>4 DEF Mark, HandleMessageFailure
    <3> QED BY <3>1, <3>2, WritesAreStoreSteps DEF StoreStep
  <2>5. CASE NextMessage(w) \/ Publish(w) \/ PublishThrows(w) \/ DeliverDirectly(w)
    BY <2>5 DEF NextMessage, Publish, PublishThrows, DeliverDirectly
  <2> QED BY <1>1, <2>1, <2>2, <2>3, <2>4, <2>5 DEF WorkerStep
<1>2. ASSUME NEW w \in Worker, MarkThrows(w) \/ StatementFails(w) PROVE [StoreStep]_row
  <2>1. CASE MarkThrows(w)
    <3>1. cur[w] \in Message
      BY <2>1 DEF MarkThrows, QueueInv, QueueTypeOK, WorkerOK
    <3> QED BY <2>1, <3>1, WritesAreStoreSteps DEF MarkThrows
  <2>2. ASSUME step[w] = "lock", NEW ms \in SUBSET Message, LockNextBatch(Host[w], skip[w], ms)
        PROVE  [StoreStep]_row
    <3>1. skip[w] \in SUBSET Message
      BY <2>2 DEF QueueInv, QueueTypeOK, WorkerOK
    <3> QED BY <2>2, <3>1, HostIsInstance DEF LockStep
  <2>3. ASSUME step[w] \in {"trylock", "failure"}, TryLockById(Host[w], cur[w]) \/ WriteFailure(w)
        PROVE  [StoreStep]_row
    <3>1. cur[w] \in Message
      BY <2>3 DEF QueueInv, QueueTypeOK, WorkerOK
    <3> QED BY <2>3, <3>1, HostIsInstance, WritesAreStoreSteps DEF LockStep
  <2> QED BY <1>2, <2>1, <2>2, <2>3 DEF StatementFails
<1>3. ASSUME NEW w \in Worker, NEW m \in Message, TakeHint(w, m) PROVE [StoreStep]_row
  BY <1>3 DEF TakeHint
<1>4. ASSUME NEW i \in Instance, Crash(i) PROVE [StoreStep]_row
  BY <1>4 DEF Crash
<1>5. ASSUME NEW m \in Message, Expire(m) \/ BecomeDue(m) PROVE [StoreStep]_row
  BY <1>5 DEF Expire, BecomeDue, ClockStep
<1> QED BY <1>1, <1>2, <1>3, <1>4, <1>5 DEF Next

-----------------------------------------------------------------------------
(* 2. Types *)

\* What the other variables contribute to the invariant.
LoopsOK ==
  /\ hasPublisher \in BOOLEAN
  /\ queue \in [Message -> 0..2]
  /\ hint \in [Message -> Instance \cup {NoInstance}]
  /\ step \in [Worker -> Step]
  /\ skip \in [ColdWorker -> SUBSET Message]
  /\ rest \in [Worker -> SUBSET Message]
  /\ cur \in [Worker -> Message \cup {NoMessage}]
  /\ snapshot \in [Worker -> [Message -> Nat]]
  /\ faults \in 0..MaxFaults /\ overruns \in 0..MaxOverruns
  /\ disturbed \subseteq Message
  /\ \A w \in Worker : WorkerOK(w)

LEMMA QueueInvSplit == QueueInv <=> StoreInv /\ LoopsOK
BY DEF QueueInv, QueueTypeOK, LoopsOK, StoreInv

LEMMA RetryCountType == StoreInv => \A m \in Message : row[m].retryCount \in Nat
BY DEF StoreInv, RowInv, Row

LEMMA WorkerStepTypes ==
  ASSUME QueueInv, NEW w \in Worker, WorkerStep(w)
  PROVE  LoopsOK'
<1>0. StoreInv /\ LoopsOK /\ NoMessage \notin Message
  BY QueueInvSplit, QueueAssumption
<1> USE <1>0 DEF LoopsOK, WorkerOK, Goto, Step
<1>1. CASE ReleaseLocks(w)
  <2>1. InFlight(Host[w]) \subseteq Message
    BY DEF InFlight
  <2> QED BY <1>1, <2>1 DEF ReleaseLocks, budget
<1>2. CASE LockBatch(w)
  <2>1. PICK ms \in SUBSET Message :
          /\ rest' = [rest EXCEPT ![w] = ms]
          /\ Goto(w, IF ms = {} THEN "idle" ELSE "next")
          /\ snapshot' = [snapshot EXCEPT ![w] =
               [m \in Message |-> IF m \in ms THEN row[m].retryCount ELSE 0]]
    BY <1>2 DEF LockBatch
  <2>2. [m \in Message |-> IF m \in ms THEN row[m].retryCount ELSE 0] \in [Message -> Nat]
    BY RetryCountType
  <2> QED BY <1>2, <2>1, <2>2 DEF LockBatch, budget
<1>3. CASE LockHinted(w)
  <2> DEFINE mine == hasPublisher /\ LockableById(row[cur[w]])
  <2>1. cur[w] \in Message /\ rest[w] = {}
    BY <1>3 DEF LockHinted
  <2>2. row[cur[w]].retryCount \in Nat
    BY <2>1, RetryCountType
  <2>3. /\ cur' = [cur EXCEPT ![w] = NoMessage]
        /\ rest' = [rest EXCEPT ![w] = IF mine THEN {cur[w]} ELSE {}]
        /\ snapshot' = [snapshot EXCEPT ![w][cur[w]] = IF mine THEN row[cur[w]].retryCount ELSE 0]
        /\ step' = [step EXCEPT ![w] = IF mine THEN "next" ELSE "idle"]
        /\ UNCHANGED <<hasPublisher, queue, hint, skip, faults, overruns, disturbed>>
    BY <1>3 DEF LockHinted, budget
  <2> HIDE DEF mine
  <2>4. snapshot' \in [Worker -> [Message -> Nat]]
    BY <2>1, <2>2, <2>3
  <2> QED BY <2>1, <2>3, <2>4
<1>4. CASE NextMessage(w)
  <2>1. PICK m \in rest[w] :
          cur' = [cur EXCEPT ![w] = m] /\ rest' = [rest EXCEPT ![w] = @ \ {m}]
    BY <1>4 DEF NextMessage
  <2> QED BY <1>4, <2>1 DEF NextMessage, budget
<1>5. CASE Publish(w) \/ PublishThrows(w) \/ DeliverDirectly(w)
  <2>1. cur[w] \in Message
    BY <1>5 DEF Publish, PublishThrows, DeliverDirectly
  <2>2. queue' \in [Message -> 0..2] /\ disturbed' \subseteq Message
    BY <1>5, <2>1 DEF Publish, PublishThrows, DeliverDirectly, Sent
  <2>3. /\ \/ step' = [step EXCEPT ![w] = "mark"]
           \/ step' = [step EXCEPT ![w] = "failure"]
        /\ UNCHANGED <<hasPublisher, hint, skip, rest, cur, snapshot, faults, overruns>>
    BY <1>5 DEF Publish, PublishThrows, DeliverDirectly, budget
  <2> QED BY <2>1, <2>2, <2>3
<1>6. CASE Mark(w) \/ HandleMessageFailure(w)
  <2>1. cur[w] \in Message
    BY <1>6 DEF Mark, HandleMessageFailure
  <2>2. /\ cur' = [cur EXCEPT ![w] = NoMessage]
        /\ snapshot' = [snapshot EXCEPT ![w][cur[w]] = 0]
        /\ rest' = rest
        /\ step' = [step EXCEPT ![w] = IF rest[w] = {} THEN "idle" ELSE "next"]
        /\ UNCHANGED <<hasPublisher, queue, hint, skip, faults, overruns, disturbed>>
    BY <1>6 DEF Mark, HandleMessageFailure, Done, budget
  <2>3. snapshot' \in [Worker -> [Message -> Nat]]
    BY <2>1, <2>2
  <2> QED BY <2>1, <2>2, <2>3
<1> QED BY <1>1, <1>2, <1>3, <1>4, <1>5, <1>6 DEF WorkerStep

LEMMA FaultAllowed ==
  ASSUME LoopsOK, Fault
  PROVE  faults' \in 0..MaxFaults
BY QueueAssumption DEF LoopsOK, Fault

\* A worker that stops lets go of everything.
LEMMA StopTypes ==
  ASSUME LoopsOK, NEW ws \in SUBSET Worker, Stop(ws), hasPublisher' = hasPublisher
  PROVE  /\ step' \in [Worker -> Step]
         /\ rest' \in [Worker -> SUBSET Message]
         /\ cur' \in [Worker -> Message \cup {NoMessage}]
         /\ snapshot' \in [Worker -> [Message -> Nat]]
         /\ skip' \in [ColdWorker -> SUBSET Message]
         /\ disturbed' \subseteq Message
         /\ \A w \in Worker : WorkerOK(w)'
<1>0. NoMessage \notin Message
  BY QueueAssumption
<1>1. step' \in [Worker -> Step] /\ rest' \in [Worker -> SUBSET Message]
      /\ cur' \in [Worker -> Message \cup {NoMessage}]
  BY DEF Stop, LoopsOK, Step
<1>2. snapshot' \in [Worker -> [Message -> Nat]] /\ skip' \in [ColdWorker -> SUBSET Message]
  BY DEF Stop, LoopsOK
<1>3. \A w \in Worker : WorkerOK(w)'
  BY <1>0 DEF Stop, LoopsOK, WorkerOK
<1>4. disturbed' \subseteq Message
  BY DEF Stop, LoopsOK, InDoubt, WorkerOK
<1> QED BY <1>1, <1>2, <1>3, <1>4

LEMMA QueueInvStep == ASSUME QueueInv, [Next]_vars PROVE QueueInv'
<1>0. StoreInv /\ LoopsOK /\ NoMessage \notin Message
  BY QueueInvSplit, QueueAssumption
<1>1. CASE Next
  <2>1. StoreInv'
    BY <1>1, NextIsStoreStep, StoreInvKept, <1>0
  <2>2. LoopsOK'
    <3>1. ASSUME NEW w \in Worker, MarkThrows(w) PROVE LoopsOK'
      <4>1. faults' \in 0..MaxFaults /\ cur[w] \in Message
        BY <1>0, <3>1, FaultAllowed DEF MarkThrows, LoopsOK, WorkerOK
      <4> QED BY <1>0, <3>1, <4>1 DEF MarkThrows, LoopsOK, WorkerOK, Goto, Step
    <3>2. ASSUME NEW w \in Worker, StatementFails(w) PROVE LoopsOK'
      <4>1. faults' \in 0..MaxFaults
        BY <1>0, <3>2, FaultAllowed DEF StatementFails
      <4> QED BY <1>0, <3>2, <4>1, StopTypes DEF StatementFails, LoopsOK
    <3>3. ASSUME NEW w \in Worker, NEW m \in Message, TakeHint(w, m) PROVE LoopsOK'
      <4>1. hint' \in [Message -> Instance \cup {NoInstance}]
        BY <1>0, <3>3 DEF TakeHint, LoopsOK
      <4> QED BY <1>0, <3>3, <4>1 DEF TakeHint, LoopsOK, WorkerOK, Goto, Step, budget
    <3>4. ASSUME NEW i \in Instance, Crash(i) PROVE LoopsOK'
      <4>1. faults' \in 0..MaxFaults /\ hint' \in [Message -> Instance \cup {NoInstance}]
        BY <1>0, <3>4, FaultAllowed DEF Crash, LoopsOK
      <4> QED BY <1>0, <3>4, <4>1, StopTypes DEF Crash, LoopsOK
    <3>5. ASSUME NEW m \in Message, Expire(m) \/ BecomeDue(m) PROVE LoopsOK'
      <4>1. overruns' \in 0..MaxOverruns
        BY <1>0, <3>5, QueueAssumption DEF Expire, BecomeDue, LoopsOK, budget
      <4>2. /\ UNCHANGED <<hasPublisher, queue, hint, step, skip, rest, cur, snapshot, faults>>
            /\ disturbed' \subseteq Message
        BY <1>0, <3>5 DEF Expire, BecomeDue, LoopsOK, budget, worker
      <4> QED BY <1>0, <4>1, <4>2 DEF LoopsOK, WorkerOK
    <3> QED BY <1>1, <3>1, <3>2, <3>3, <3>4, <3>5, WorkerStepTypes DEF Next
  <2> QED BY <2>1, <2>2, QueueInvSplit DEF QueueInv, QueueTypeOK, LoopsOK, StoreInv
<1>2. CASE UNCHANGED vars
  BY <1>2 DEF QueueInv, QueueTypeOK, StoreInv, StoreTypeOK, WorkerOK, vars, worker, budget
<1> QED BY <1>1, <1>2

LEMMA QueueInvInit == Init => QueueInv
<1> SUFFICES ASSUME Init PROVE QueueInv
  OBVIOUS
<1> USE QueueAssumption DEF Init
<1>1. StoreInv
  BY NewRowInv DEF StoreInv, StoreTypeOK, RowInv
<1>2. LoopsOK
  BY DEF LoopsOK, WorkerOK, Step
<1> QED BY <1>1, <1>2, QueueInvSplit

LEMMA QueueInvariant == Spec => []QueueInv
BY QueueInvInit, QueueInvStep, PTL DEF Spec

\* Rows, workers, channel and queue keep their types.
THEOREM QueueTypeCorrect == Spec => []QueueTypeOK
<1>1. QueueInv => QueueTypeOK
  BY DEF QueueInv
<1> QED BY <1>1, QueueInvariant, PTL

\* Whatever the store keeps under any callers it keeps under these.
THEOREM QueueUsesStore == Spec => [][StoreStep]_row
<1>1. QueueInv /\ [Next]_vars => [StoreStep]_row
  BY NextIsStoreStep DEF vars
<1> QED BY <1>1, QueueInvariant, PTL DEF Spec

-----------------------------------------------------------------------------
(* 3. One worker to a message that is not in doubt *)

\* Worker w has sent m and not yet marked it.
Marking(w, m) == cur[w] = m /\ step[w] = "mark"

\* Worker w is about to record a failure of m.
Failing(w, m) == cur[w] = m /\ step[w] = "failure"

\* Whoever has m has it alone, under its own unexpired lock, until it is delivered.
Gate(m) ==
  m \notin disturbed /\ row[m].status # "Delivered" =>
    \A w \in Worker : Has(w, m) => /\ IsLockHeld(Host[w], m)
                                   /\ \A v \in Worker \ {w} : ~Has(v, m)

\* A copy in the queue is one that is marked, or about to be.
OnceSent(m) ==
  m \notin disturbed =>
    \/ queue[m] = 0
    \/ /\ queue[m] = 1
       /\ row[m].status = "Delivered" \/ \E w \in Worker : Marking(w, m)

\* After that, all a worker may still do with m is to record a failure, in vain.
Over(m) ==
  m \notin disturbed /\ row[m].status = "Delivered" =>
    \A w \in Worker : Has(w, m) => Failing(w, m)

Sound(m) == Gate(m) /\ OnceSent(m) /\ Over(m)

SameLock(r, q) == q.status = r.status /\ q.lockedBy = r.lockedBy /\ q.lease = r.lease

\* Steps that are not about m: nobody gets m, and nobody forgets that it was sent
\* without leaving m in doubt.
LEMMA Quiet ==
  ASSUME NEW m \in Message, Sound(m), queue'[m] = queue[m], disturbed \subseteq disturbed',
         \A w \in Worker : Has(w, m)' => Has(w, m),
         \A w \in Worker : Marking(w, m) => Marking(w, m)' \/ m \in disturbed',
         \A w \in Worker : Failing(w, m) /\ Has(w, m)' => Failing(w, m)',
         LockHeld(row[m]) \/ row[m].status = "Delivered" => SameLock(row[m], row'[m]),
         row'[m].status = "Delivered" => row[m].status = "Delivered"
  PROVE  Sound(m)'
<1>1. Gate(m)'
  <2> SUFFICES ASSUME m \notin disturbed', row'[m].status # "Delivered",
                      NEW w \in Worker, Has(w, m)'
               PROVE  IsLockHeld(Host[w], m)' /\ \A v \in Worker \ {w} : ~Has(v, m)'
    BY DEF Gate
  <2>1. IsLockHeld(Host[w], m) /\ \A v \in Worker \ {w} : ~Has(v, m)
    BY DEF Sound, Gate, SameLock
  <2> QED BY <2>1 DEF IsLockHeld, Owns, LockHeld, SameLock
<1>2. OnceSent(m)'
  BY DEF Sound, OnceSent, SameLock
<1>3. Over(m)'
  BY DEF Sound, Over
<1> QED BY <1>1, <1>2, <1>3 DEF Sound

\* A message without unexpired lock is nobody's and, unless delivered, was not sent.
LEMMA Free ==
  ASSUME NEW m \in Message, Sound(m), m \notin disturbed,
         ~LockHeld(row[m]), row[m].status # "Delivered"
  PROVE  queue[m] = 0 /\ \A w \in Worker : ~Has(w, m)
<1>1. \A w \in Worker : ~Has(w, m)
  BY DEF Sound, Gate, IsLockHeld
<1>2. \A w \in Worker : ~Marking(w, m)
  BY <1>1 DEF Has, Marking
<1> QED BY <1>1, <1>2 DEF Sound, OnceSent

\* The worker of an open message is its only one, and the row is its to write.
LEMMA Sole ==
  ASSUME NEW w \in Worker, NEW m \in Message, Sound(m), m \notin disturbed, Has(w, m),
         row[m].status # "Delivered"
  PROVE  /\ Owns(Host[w], m) /\ LockHeld(row[m])
         /\ row[m].status = "Processing"
         /\ \A v \in Worker \ {w} : ~Has(v, m) /\ ~Marking(v, m)
         /\ queue[m] = 0 \/ (queue[m] = 1 /\ Marking(w, m))
<1>1. Owns(Host[w], m) /\ LockHeld(row[m]) /\ \A v \in Worker \ {w} : ~Has(v, m)
  BY DEF Sound, Gate, IsLockHeld
<1>2. \A v \in Worker \ {w} : ~Marking(v, m)
  BY <1>1 DEF Has, Marking
<1>3. row[m].status = "Processing"
  BY <1>1 DEF LockHeld
<1> QED BY <1>1, <1>2, <1>3 DEF Sound, OnceSent

\* A lock that is granted makes its owner the only worker of the message.
LEMMA Granted ==
  ASSUME QueueInv, NEW w \in Worker, NEW m \in Message, Sound(m),
         ~LockHeld(row[m]), row[m].status # "Delivered",
         row'[m] = Locked(row[m], Host[w]),
         queue' = queue, disturbed' = disturbed,
         \A v \in Worker \ {w} : Has(v, m)' => Has(v, m)
  PROVE  Sound(m)'
<1> SUFFICES ASSUME m \notin disturbed PROVE Sound(m)'
  BY DEF Sound, Gate, OnceSent, Over
<1>1. queue[m] = 0 /\ \A v \in Worker : ~Has(v, m)
  BY Free
<1>2. IsLockHeld(Host[w], m)'
  BY DEF QueueInv, StoreInv, RowInv, Row, Locked, IsLockHeld, Owns, LockHeld
<1>3. Gate(m)'
  BY <1>1, <1>2 DEF Gate
<1>4. row'[m].status # "Delivered"
  BY <1>2 DEF IsLockHeld, LockHeld
<1> QED BY <1>1, <1>3, <1>4 DEF Sound, OnceSent, Over

\* Rows that a lock statement takes were free, and the others stay as they are.
LEMMA LockedRows ==
  ASSUME row \in [Message -> Row], NEW w \in Worker, NEW m \in Message,
         \/ ReleaseExpiredLocks
         \/ \E ms \in SUBSET Message : LockNextBatch(Host[w], skip[w], ms)
         \/ TryLockById(Host[w], cur[w]) /\ cur[w] \in Message
         \/ UNCHANGED row
  PROVE  /\ LockHeld(row[m]) \/ row[m].status = "Delivered" => SameLock(row[m], row'[m])
         /\ row'[m].status = "Delivered" => row[m].status = "Delivered"
<1>1. CASE ReleaseExpiredLocks
  <2>1. \A r \in Row : Unlocked(r, "Pending").status = "Pending"
    BY DEF Unlocked, Row
  <2> QED BY <1>1, <2>1 DEF ReleaseExpiredLocks, ExpiredLocks, LockHeld, SameLock
<1>2. ASSUME NEW i, row'[m] = row[m] \/ (row'[m] = Locked(row[m], i)
                                         /\ (LockableByScan(row[m]) \/ LockableById(row[m])))
      PROVE  /\ LockHeld(row[m]) \/ row[m].status = "Delivered" => SameLock(row[m], row'[m])
             /\ row'[m].status = "Delivered" => row[m].status = "Delivered"
  <2>1. row[m] \in Row /\ Locked(row[m], i).status = "Processing"
    BY DEF Locked, Row
  <2> QED BY <1>2, <2>1 DEF LockableByScan, LockableById, LockHeld, SameLock
<1>3. ASSUME NEW ms \in SUBSET Message, LockNextBatch(Host[w], skip[w], ms)
      PROVE  row'[m] = row[m] \/ (row'[m] = Locked(row[m], Host[w]) /\ LockableByScan(row[m]))
  BY <1>3 DEF LockNextBatch, IsOldestOf, Eligible
<1>4. ASSUME TryLockById(Host[w], cur[w]), cur[w] \in Message
      PROVE  row'[m] = row[m] \/ (row'[m] = Locked(row[m], Host[w]) /\ LockableById(row[m]))
  BY <1>4 DEF TryLockById
<1> QED BY <1>1, <1>2, <1>3, <1>4 DEF SameLock

LEMMA LockingSound ==
  ASSUME QueueInv, NEW w \in Worker, NEW m \in Message, Sound(m),
         ReleaseLocks(w) \/ LockBatch(w) \/ LockHinted(w)
  PROVE  Sound(m)'
<1>0. LoopsOK /\ StoreInv /\ row[m] \in Row
  BY QueueInvSplit DEF StoreInv, RowInv
<1>1. CASE ReleaseLocks(w)
  <2>1. /\ step' = [step EXCEPT ![w] = "lock"] /\ step[w] = "idle"
        /\ UNCHANGED <<queue, rest, cur, disturbed>>
    BY <1>1 DEF ReleaseLocks, Goto
  <2>2. cur[w] = NoMessage /\ cur[w] # m
    BY <1>0, <2>1, QueueAssumption DEF LoopsOK, WorkerOK
  <2>3. \A v \in Worker : Has(v, m)' => Has(v, m)
    BY <1>0, <2>1, <2>2 DEF LoopsOK, Has
  <2>4. /\ \A v \in Worker : Marking(v, m) => Marking(v, m)'
        /\ \A v \in Worker : Failing(v, m) => Failing(v, m)'
    BY <1>0, <2>1, <2>2 DEF LoopsOK, Marking, Failing
  <2>5. /\ LockHeld(row[m]) \/ row[m].status = "Delivered" => SameLock(row[m], row'[m])
        /\ row'[m].status = "Delivered" => row[m].status = "Delivered"
    BY <1>0, <1>1, LockedRows DEF ReleaseLocks, StoreInv, StoreTypeOK
  <2> QED BY <2>1, <2>3, <2>4, <2>5, Quiet
<1>2. CASE LockBatch(w)
  <2>1. PICK ms \in SUBSET Message :
          /\ LockNextBatch(Host[w], skip[w], ms)
          /\ rest' = [rest EXCEPT ![w] = ms]
          /\ step' = [step EXCEPT ![w] = IF ms = {} THEN "idle" ELSE "next"]
    BY <1>2 DEF LockBatch, Goto
  <2>2. step[w] = "lock" /\ UNCHANGED <<queue, cur, disturbed>>
    BY <1>2 DEF LockBatch
  <2>3. cur[w] # m /\ rest[w] = {}
    BY <1>0, <2>2, QueueAssumption DEF LoopsOK, WorkerOK
  <2>4. \A v \in Worker \ {w} : Has(v, m)' => Has(v, m)
    BY <1>0, <2>1, <2>2 DEF LoopsOK, Has
  <2>5. CASE m \in ms
    <3>1. LockableByScan(row[m]) /\ row'[m] = Locked(row[m], Host[w])
      BY <2>1, <2>5 DEF LockNextBatch, IsOldestOf, Eligible
    <3>2. ~LockHeld(row[m]) /\ row[m].status # "Delivered"
      BY <3>1 DEF LockableByScan, LockHeld
    <3> QED BY <2>2, <2>4, <3>1, <3>2, Granted
  <2>6. CASE m \notin ms
    <3>1. row'[m] = row[m]
      BY <2>1, <2>6 DEF LockNextBatch
    <3>2. ~Has(w, m)'
      BY <1>0, <2>1, <2>2, <2>3, <2>6 DEF LoopsOK, Has
    <3>3. /\ \A v \in Worker : Marking(v, m) => Marking(v, m)'
          /\ \A v \in Worker : Failing(v, m) => Failing(v, m)'
      BY <1>0, <2>1, <2>2, <2>3 DEF LoopsOK, Marking, Failing
    <3> QED BY <2>2, <2>4, <3>1, <3>2, <3>3, Quiet DEF SameLock
  <2> QED BY <2>5, <2>6
<1>3. CASE LockHinted(w)
  <2> DEFINE c == cur[w]
             mine == hasPublisher /\ LockableById(row[c])
  <2>1. /\ cur' = [cur EXCEPT ![w] = NoMessage]
        /\ rest' = [rest EXCEPT ![w] = IF mine THEN {c} ELSE {}]
        /\ step' = [step EXCEPT ![w] = IF mine THEN "next" ELSE "idle"]
        /\ step[w] = "trylock" /\ TryLockById(Host[w], c)
        /\ UNCHANGED <<queue, disturbed>>
    BY <1>3 DEF LockHinted, Goto
  <2> HIDE DEF mine
  <2>2. c \in Message /\ rest[w] = {} /\ NoMessage # m
    BY <1>0, <2>1, QueueAssumption DEF LoopsOK, WorkerOK
  <2>3. \A v \in Worker \ {w} : Has(v, m)' => Has(v, m)
    BY <1>0, <2>1 DEF LoopsOK, Has
  <2>4. /\ \A v \in Worker : Marking(v, m) => Marking(v, m)'
        /\ \A v \in Worker : Failing(v, m) => Failing(v, m)'
    BY <1>0, <2>1 DEF LoopsOK, Marking, Failing
  <2>5. Has(w, m)' => mine /\ c = m
    BY <1>0, <2>1, <2>2 DEF LoopsOK, Has
  <2>6. CASE c = m /\ LockableById(row[m])
    <3>1. row'[m] = Locked(row[m], Host[w])
      BY <1>0, <2>1, <2>6 DEF TryLockById, StoreInv, StoreTypeOK
    <3>2. ~LockHeld(row[m]) /\ row[m].status # "Delivered"
      BY <2>6 DEF LockableById, LockHeld
    <3> QED BY <2>1, <2>3, <3>1, <3>2, Granted
  <2>7. CASE ~(c = m /\ LockableById(row[m]))
    <3>1. row'[m] = row[m]
      BY <1>0, <2>1, <2>2, <2>7 DEF TryLockById, StoreInv, StoreTypeOK
    <3>2. ~Has(w, m)'
      BY <2>5, <2>7 DEF mine
    <3> QED BY <2>1, <2>3, <2>4, <3>1, <3>2, Quiet DEF SameLock
  <2> QED BY <2>6, <2>7
<1> QED BY <1>1, <1>2, <1>3

\* The worker of a message sends it: only once while nothing is in doubt.
LEMMA SendingSound ==
  ASSUME QueueInv, NEW w \in Worker, NEW m \in Message, Sound(m),
         NextMessage(w) \/ Publish(w) \/ PublishThrows(w) \/ DeliverDirectly(w)
  PROVE  Sound(m)'
<1>0. LoopsOK
  BY QueueInvSplit
<1>1. CASE NextMessage(w)
  <2>1. PICK n \in rest[w] :
          cur' = [cur EXCEPT ![w] = n] /\ rest' = [rest EXCEPT ![w] = @ \ {n}]
    BY <1>1 DEF NextMessage
  <2>2. /\ step[w] = "next" /\ UNCHANGED <<row, queue, disturbed>>
        /\ step' = [step EXCEPT ![w] = IF hasPublisher THEN "publish" ELSE "direct"]
    BY <1>1 DEF NextMessage, Goto
  <2>3. \A v \in Worker : Has(v, m)' => Has(v, m)
    BY <1>0, <2>1, <2>2 DEF LoopsOK, Has
  <2>4. /\ \A v \in Worker : Marking(v, m) => Marking(v, m)'
        /\ \A v \in Worker : Failing(v, m) /\ v # w => Failing(v, m)'
        /\ ~Failing(w, m)
    BY <1>0, <2>1, <2>2 DEF LoopsOK, Marking, Failing
  <2> QED BY <2>2, <2>3, <2>4, Quiet DEF SameLock
<1>2. CASE Publish(w) \/ PublishThrows(w) \/ DeliverDirectly(w)
  <2>1. /\ step[w] \in {"publish", "direct"}
        /\ \/ step' = [step EXCEPT ![w] = "mark"]
           \/ step' = [step EXCEPT ![w] = "failure"]
        /\ disturbed \subseteq disturbed'
        /\ UNCHANGED <<row, rest, cur>>
    BY <1>2 DEF Publish, PublishThrows, DeliverDirectly, Goto
  <2>2. \A v \in Worker : Has(v, m)' => Has(v, m)
    BY <1>0, <2>1 DEF LoopsOK, Has
  <2>3. /\ \A v \in Worker : Marking(v, m) => Marking(v, m)'
        /\ \A v \in Worker : Failing(v, m) => Failing(v, m)'
    BY <1>0, <2>1 DEF LoopsOK, Marking, Failing
  <2>4. CASE queue'[m] = queue[m]
    BY <2>1, <2>2, <2>3, <2>4, Quiet DEF SameLock
  <2>5. CASE queue'[m] # queue[m]
    <3>1. cur[w] = m
      BY <1>0, <1>2, <2>5 DEF Publish, PublishThrows, DeliverDirectly, Sent, LoopsOK
    <3>2. CASE Publish(w)
      <4> SUFFICES ASSUME m \notin disturbed PROVE Sound(m)'
        BY <3>2 DEF Publish, Sound, Gate, OnceSent, Over
      <4>1. /\ step[w] = "publish" /\ step' = [step EXCEPT ![w] = "mark"] /\ Has(w, m)
            /\ row[m].status # "Delivered"
        BY <3>1, <3>2 DEF Publish, Goto, Has, Sound, Over, Failing
      <4>2. queue[m] = 0 /\ \A v \in Worker \ {w} : ~Has(v, m)
        BY <4>1, Sole DEF Marking
      <4>3. queue'[m] = 1
        BY <1>0, <3>1, <3>2, <4>2 DEF Publish, Sent, LoopsOK
      <4>4. Marking(w, m)'
        BY <1>0, <2>1, <3>1, <4>1 DEF Marking, LoopsOK
      <4>5. IsLockHeld(Host[w], m)'
        BY <2>1, <4>1, Sole DEF IsLockHeld, Owns
      <4>6. Gate(m)'
        BY <2>2, <4>2, <4>5 DEF Gate
      <4> QED BY <2>1, <4>1, <4>3, <4>4, <4>6 DEF Sound, OnceSent, Over
    <3>3. CASE ~Publish(w)
      <4>1. m \in disturbed'
        BY <1>2, <2>5, <3>1, <3>3 DEF PublishThrows, DeliverDirectly
      <4> QED BY <4>1 DEF Sound, Gate, OnceSent, Over
    <3> QED BY <3>2, <3>3
  <2> QED BY <2>4, <2>5
<1> QED BY <1>1, <1>2

\* A message that is not in doubt is marked by its only worker.
LEMMA Marked ==
  ASSUME QueueInv, NEW w \in Worker, Marking(w, cur[w]), cur[w] \in Message,
         cur[w] \notin disturbed, Sound(cur[w]), MarkAsProcessed(Host[w], cur[w])
  PROVE  /\ row'[cur[w]].status = "Delivered"
         /\ \A v \in Worker \ {w} : ~Has(v, cur[w])
<1> DEFINE m == cur[w]
<1>0. row \in [Message -> Row]
  BY DEF QueueInv, StoreInv, StoreTypeOK
<1>1. Has(w, m) /\ ~Failing(w, m)
  BY DEF Has, Marking, Failing
<1>2. row[m].status # "Delivered"
  BY <1>1 DEF Sound, Over
<1>3. Owns(Host[w], m) /\ \A v \in Worker \ {w} : ~Has(v, m)
  BY <1>1, <1>2, Sole
<1>4. row'[m] = Unlocked(row[m], "Delivered")
  BY <1>0, <1>3 DEF MarkAsProcessed, GiveUp
<1> QED BY <1>0, <1>3, <1>4 DEF Unlocked, Row

\* The worker of a message has written how it failed, and lets go of it.
LEMMA LettingGo ==
  ASSUME QueueInv, NEW w \in Worker, NEW m \in Message, Sound(m),
         step[w] = "failure", WriteFailure(w),
         queue' = queue, disturbed \subseteq disturbed',
         cur[w] = m => ~Has(w, m)',
         \A v \in Worker : Has(v, m)' => Has(v, m),
         \A v \in Worker : Marking(v, m) => Marking(v, m)' \/ m \in disturbed',
         \A v \in Worker : Failing(v, m) /\ Has(v, m)' => Failing(v, m)'
  PROVE  Sound(m)'
<1>0. LoopsOK /\ StoreInv /\ row \in [Message -> Row] /\ cur[w] \in Message
      /\ NoInstance \notin Instance
  <2>1. LoopsOK /\ StoreInv
    BY QueueInvSplit
  <2> QED BY <2>1, StoreAssumption DEF StoreInv, StoreTypeOK, LoopsOK, WorkerOK
<1>1. ~Owns(Host[w], cur[w]) => row' = row
  BY DEF WriteFailure, IncrementRetry, MarkAsDeadLettered, GiveUp
<1>2. CASE cur[w] # m \/ row[m].status = "Delivered"
  <2>1. row'[m] = row[m]
    <3>1. CASE cur[w] # m
      BY <1>0, <3>1 DEF WriteFailure, IncrementRetry, MarkAsDeadLettered, GiveUp
    <3>2. CASE cur[w] = m /\ row[m].status = "Delivered"
      <4>1. ~Owns(Host[w], m)
        BY <1>0, <3>2, HostIsInstance DEF Owns, StoreInv, RowInv, RowLocksAgree
      <4> QED BY <1>1, <3>2, <4>1
    <3> QED BY <1>2, <3>1, <3>2
  <2> QED BY <2>1, Quiet DEF SameLock
<1>3. CASE cur[w] = m /\ row[m].status # "Delivered"
  <2> SUFFICES ASSUME m \notin disturbed' PROVE Sound(m)'
    BY DEF Sound, Gate, OnceSent, Over
  <2>1. /\ Owns(Host[w], m) /\ queue[m] = 0
        /\ \A v \in Worker \ {w} : ~Has(v, m)
    <3>1. Has(w, m) /\ ~Marking(w, m) /\ m \notin disturbed
      BY <1>3 DEF Has, Marking
    <3> QED BY <1>3, <3>1, Sole
  <2>2. \A v \in Worker : ~Has(v, m)'
    BY <1>3, <2>1
  <2> QED BY <2>1, <2>2 DEF Sound, Gate, OnceSent, Over
<1> QED BY <1>2, <1>3

\* The worker of a message is done with it.
LEMMA FinishingSound ==
  ASSUME QueueInv, NEW w \in Worker, NEW m \in Message, Sound(m),
         Mark(w) \/ HandleMessageFailure(w)
  PROVE  Sound(m)'
<1>0. LoopsOK /\ StoreInv /\ row \in [Message -> Row]
  BY QueueInvSplit DEF StoreInv, StoreTypeOK
<1>1. /\ step[w] \in {"mark", "failure"} /\ cur[w] \in Message
      /\ cur' = [cur EXCEPT ![w] = NoMessage] /\ rest' = rest
      /\ step' = [step EXCEPT ![w] = IF rest[w] = {} THEN "idle" ELSE "next"]
      /\ UNCHANGED <<queue, disturbed>>
  BY <1>0 DEF Mark, HandleMessageFailure, Done, Goto, LoopsOK, WorkerOK
<1>2. NoMessage # m /\ cur[w] \notin rest[w]
  BY <1>0, QueueAssumption DEF LoopsOK, WorkerOK
<1>3. /\ \A v \in Worker : Has(v, m)' => Has(v, m)
      /\ cur[w] = m => ~Has(w, m)'
  BY <1>0, <1>1, <1>2 DEF LoopsOK, Has
<1>4. /\ \A v \in Worker \ {w} : Marking(v, m) => Marking(v, m)'
      /\ \A v \in Worker \ {w} : Failing(v, m) => Failing(v, m)'
      /\ Failing(w, m) => cur[w] = m
      /\ Marking(w, m) <=> cur[w] = m /\ step[w] = "mark"
  BY <1>0, <1>1 DEF LoopsOK, Marking, Failing
<1>5. CASE HandleMessageFailure(w)
  <2>1. step[w] = "failure" /\ WriteFailure(w) /\ ~Marking(w, m)
    BY <1>5 DEF HandleMessageFailure, Marking
  <2> QED BY <1>1, <1>3, <1>4, <2>1, LettingGo
<1>6. CASE Mark(w)
  <2>1. step[w] = "mark" /\ MarkAsProcessed(Host[w], cur[w])
    BY <1>6 DEF Mark
  <2>2. CASE cur[w] # m
    <3>1. row'[m] = row[m]
      BY <1>0, <1>1, <2>1, <2>2 DEF MarkAsProcessed, GiveUp
    <3> QED BY <1>1, <1>3, <1>4, <2>2, <3>1, Quiet DEF SameLock
  <2>3. CASE cur[w] = m
    <3> SUFFICES ASSUME m \notin disturbed PROVE Sound(m)'
      BY <1>1 DEF Sound, Gate, OnceSent, Over
    <3>1. row'[m].status = "Delivered" /\ \A v \in Worker \ {w} : ~Has(v, m)
      BY <1>1, <2>1, <2>3, Marked DEF Marking
    <3>2. \A v \in Worker : ~Has(v, m)'
      BY <1>3, <2>3, <3>1
    <3> QED BY <1>1, <3>1, <3>2 DEF Sound, Gate, OnceSent, Over
  <2> QED BY <2>2, <2>3
<1> QED BY <1>5, <1>6

\* What a worker that stops does to a message: it is let go, and in doubt if it was sent
\* and not marked.
LEMMA Stopping ==
  ASSUME QueueInv, NEW m \in Message, NEW ws \in SUBSET Worker, Stop(ws)
  PROVE  /\ \A v \in Worker : Has(v, m)' => Has(v, m)
         /\ \A v \in ws : ~Has(v, m)'
         /\ \A v \in Worker : Marking(v, m) => Marking(v, m)' \/ m \in disturbed'
         /\ \A v \in Worker : Failing(v, m) /\ Has(v, m)' => Failing(v, m)'
         /\ disturbed \subseteq disturbed'
<1>0. LoopsOK /\ NoMessage # m
  BY QueueInvSplit, QueueAssumption
<1>1. /\ \A v \in Worker : Has(v, m)' => Has(v, m)
      /\ \A v \in ws : ~Has(v, m)'
  BY <1>0 DEF Stop, Has, LoopsOK
<1>2. \A v \in Worker : Marking(v, m) => Marking(v, m)' \/ m \in disturbed'
  BY <1>0 DEF Stop, InDoubt, Marking, LoopsOK
<1>3. \A v \in Worker \ ws : Failing(v, m) => Failing(v, m)'
  BY <1>0 DEF Stop, Failing, LoopsOK
<1> QED BY <1>1, <1>2, <1>3 DEF Stop

\* Statements that fail, committed or not, and processes that stop.
LEMMA FaultsSound ==
  ASSUME QueueInv, NEW m \in Message, Sound(m),
         \/ \E w \in Worker : StatementFails(w)
         \/ \E i \in Instance : Crash(i)
  PROVE  Sound(m)'
<1>0. LoopsOK /\ row \in [Message -> Row]
  BY QueueInvSplit DEF StoreInv, StoreTypeOK
<1>1. ASSUME NEW i \in Instance, Crash(i) PROVE Sound(m)'
  <2>1. Stop({w \in Worker : Host[w] = i}) /\ UNCHANGED <<row, queue>>
    BY <1>1 DEF Crash
  <2> QED BY <2>1, Stopping, Quiet DEF SameLock
<1>2. ASSUME NEW w \in Worker, StatementFails(w) PROVE Sound(m)'
  <2>1. Stop({w}) /\ queue' = queue
    BY <1>2 DEF StatementFails
  <2>2. CASE step[w] = "failure" /\ WriteFailure(w)
    <3>1. cur[w] = m => ~Has(w, m)'
      BY <2>1, Stopping
    <3> QED BY <2>1, <2>2, <3>1, Stopping, LettingGo
  <2>3. CASE \/ \E ms \in SUBSET Message : LockNextBatch(Host[w], skip[w], ms)
             \/ step[w] = "trylock" /\ TryLockById(Host[w], cur[w])
             \/ UNCHANGED row
    <3>1. step[w] = "trylock" => cur[w] \in Message
      BY <1>0 DEF LoopsOK, WorkerOK
    <3>2. /\ LockHeld(row[m]) \/ row[m].status = "Delivered" => SameLock(row[m], row'[m])
          /\ row'[m].status = "Delivered" => row[m].status = "Delivered"
      BY <1>0, <2>3, <3>1, LockedRows
    <3> QED BY <2>1, <3>2, Stopping, Quiet
  <2> QED BY <1>2, <2>2, <2>3 DEF StatementFails
<1> QED BY <1>1, <1>2

LEMMA ClockSound ==
  ASSUME QueueInv, NEW m \in Message, Sound(m), NEW n \in Message, Expire(n) \/ BecomeDue(n)
  PROVE  Sound(m)'
<1>0. row \in [Message -> Row]
  BY DEF QueueInv, StoreInv, StoreTypeOK
<1>1. UNCHANGED <<queue, rest, cur, step>> /\ disturbed \subseteq disturbed'
  BY DEF Expire, BecomeDue, worker
<1>2. /\ \A v \in Worker : Has(v, m)' <=> Has(v, m)
      /\ \A v \in Worker : Marking(v, m)' <=> Marking(v, m)
      /\ \A v \in Worker : Failing(v, m)' <=> Failing(v, m)
  BY <1>1 DEF Has, Marking, Failing
<1>3. CASE Expire(n) /\ n = m
  <2> SUFFICES ASSUME m \notin disturbed' PROVE Sound(m)'
    BY DEF Sound, Gate, OnceSent, Over
  <2>1. \A v \in Worker : ~Has(v, m)
    BY <1>3 DEF Expire, AtWork
  <2>2. row'[m].status = row[m].status
    BY <1>0, <1>3 DEF Expire, LeaseExpires, Row
  <2> QED BY <1>1, <1>2, <2>1, <2>2 DEF Sound, Gate, OnceSent, Over
<1>4. CASE ~(Expire(n) /\ n = m)
  <2>1. SameLock(row[m], row'[m])
    BY <1>0, <1>4 DEF Expire, BecomeDue, LeaseExpires, RetryDue, SameLock, Row
  <2> QED BY <1>1, <1>2, <2>1, Quiet DEF SameLock
<1> QED BY <1>3, <1>4

LEMMA SoundStep ==
  ASSUME QueueInv, [Next]_vars, NEW m \in Message, Sound(m)
  PROVE  Sound(m)'
<1>0. LoopsOK /\ row \in [Message -> Row]
  BY QueueInvSplit DEF StoreInv, StoreTypeOK
<1>1. ASSUME NEW w \in Worker, WorkerStep(w) PROVE Sound(m)'
  BY <1>1, LockingSound, SendingSound, FinishingSound DEF WorkerStep
<1>2. ASSUME NEW w \in Worker, MarkThrows(w) PROVE Sound(m)'
  <2>1. /\ step[w] = "mark" /\ step' = [step EXCEPT ![w] = "failure"]
        /\ disturbed \subseteq disturbed' /\ UNCHANGED <<queue, rest, cur>>
        /\ cur[w] \in Message
    BY <1>0, <1>2 DEF MarkThrows, Goto, LoopsOK, WorkerOK
  <2>2. /\ \A v \in Worker : Has(v, m)' => Has(v, m)
        /\ \A v \in Worker : Failing(v, m) => Failing(v, m)'
        /\ cur[w] # m => \A v \in Worker : Marking(v, m) => Marking(v, m)'
    BY <1>0, <2>1 DEF Has, Marking, Failing, LoopsOK
  <2>3. CASE cur[w] = m /\ m \in disturbed'
    BY <2>3 DEF Sound, Gate, OnceSent, Over
  <2>4. CASE cur[w] = m /\ m \notin disturbed'
    <3>1. MarkAsProcessed(Host[w], m) /\ m \notin disturbed
      BY <1>2, <2>1, <2>4 DEF MarkThrows
    <3>2. row'[m].status = "Delivered" /\ \A v \in Worker \ {w} : ~Has(v, m)
      BY <2>1, <2>4, <3>1, Marked DEF Marking
    <3>3. Over(m)'
      BY <1>0, <2>1, <2>2, <2>4, <3>2 DEF Over, Failing, LoopsOK
    <3> QED BY <2>1, <3>1, <3>2, <3>3 DEF Sound, Gate, OnceSent
  <2>5. CASE cur[w] # m
    <3>1. row'[m] = row[m]
      BY <1>0, <1>2, <2>1, <2>5 DEF MarkThrows, MarkAsProcessed, GiveUp
    <3> QED BY <2>1, <2>2, <2>5, <3>1, Quiet DEF SameLock
  <2> QED BY <2>3, <2>4, <2>5
<1>3. ASSUME NEW w \in Worker, StatementFails(w) PROVE Sound(m)'
  BY <1>3, FaultsSound
<1>4. ASSUME NEW w \in Worker, NEW n \in Message, TakeHint(w, n) PROVE Sound(m)'
  <2>1. /\ step[w] = "idle" /\ step' = [step EXCEPT ![w] = "trylock"]
        /\ cur' = [cur EXCEPT ![w] = n] /\ UNCHANGED <<row, queue, rest, disturbed>>
    BY <1>4 DEF TakeHint, Goto
  <2>2. /\ \A v \in Worker : Has(v, m)' => Has(v, m)
        /\ \A v \in Worker : Marking(v, m) => Marking(v, m)'
        /\ \A v \in Worker : Failing(v, m) => Failing(v, m)'
    BY <1>0, <2>1 DEF Has, Marking, Failing, LoopsOK
  <2> QED BY <2>1, <2>2, Quiet DEF SameLock
<1>5. ASSUME NEW i \in Instance, Crash(i) PROVE Sound(m)'
  BY <1>5, FaultsSound
<1>6. ASSUME NEW n \in Message, Expire(n) \/ BecomeDue(n) PROVE Sound(m)'
  BY <1>6, ClockSound
<1>7. CASE UNCHANGED vars
  BY <1>7 DEF vars, worker, Sound, Gate, OnceSent, Over, Has, Marking, Failing, IsLockHeld, Owns
<1> QED BY <1>1, <1>2, <1>3, <1>4, <1>5, <1>6, <1>7 DEF Next

LEMMA SoundInvariant == Spec => [](QueueInv /\ \A m \in Message : Sound(m))
<1>1. Init => \A m \in Message : Sound(m)
  BY QueueAssumption DEF Init, Sound, Gate, OnceSent, Over, Has
<1>2. QueueInv /\ (\A m \in Message : Sound(m)) /\ [Next]_vars => (\A m \in Message : Sound(m))'
  BY SoundStep
<1> QED BY <1>1, <1>2, QueueInvariant, PTL DEF Spec

\* A second copy is sent only of a message in doubt (ProcessQueueMediatedAsync).
THEOREM SecondCopyOnlyInDoubt == Spec => []DuplicateOnlyIfInDoubt
<1>1. (\A m \in Message : Sound(m)) => DuplicateOnlyIfInDoubt
  BY DEF Sound, OnceSent, DuplicateOnlyIfInDoubt
<1> QED BY <1>1, SoundInvariant, PTL

\* A dead letter that is not in doubt is in no queue: it can be replayed.
THEOREM DeadLettersUnsent == Spec => []DeadLetterNotSent
<1>1. (\A m \in Message : Sound(m)) => DeadLetterNotSent
  <2> SUFFICES ASSUME NEW m \in Message, Sound(m), row[m].status = "DeadLettered",
                      m \notin disturbed
               PROVE  queue[m] = 0
    BY DEF DeadLetterNotSent
  <2> QED BY Free DEF LockHeld
<1> QED BY <1>1, SoundInvariant, PTL

-----------------------------------------------------------------------------
(* 4. The promise *)

\* With a publisher a message is marked after it was sent.
MarkSent ==
  \A w \in Worker : hasPublisher /\ step[w] = "mark" => queue[cur[w]] > 0

\* Only Publish and PublishThrows touch the queue, and nothing changes the mode.
LEMMA QueueStep ==
  ASSUME LoopsOK, [Next]_vars
  PROVE  /\ hasPublisher' = hasPublisher
         /\ \/ queue' = queue
            \/ \E w \in Worker : /\ step[w] = "publish" /\ cur[w] \in Message
                                 /\ Sent(cur[w]) /\ row' = row
<1>1. ASSUME NEW w \in Worker, Publish(w) \/ PublishThrows(w)
      PROVE  /\ hasPublisher' = hasPublisher
             /\ queue' = queue \/ (step[w] = "publish" /\ cur[w] \in Message
                                   /\ Sent(cur[w]) /\ row' = row)
  BY <1>1 DEF Publish, PublishThrows, LoopsOK, WorkerOK
<1>2. ASSUME NEW w \in Worker,
             \/ ReleaseLocks(w) \/ LockBatch(w) \/ LockHinted(w) \/ NextMessage(w)
             \/ DeliverDirectly(w) \/ Mark(w) \/ HandleMessageFailure(w)
             \/ MarkThrows(w) \/ StatementFails(w)
      PROVE  hasPublisher' = hasPublisher /\ queue' = queue
  BY <1>2 DEF ReleaseLocks, LockBatch, LockHinted, NextMessage, DeliverDirectly, Mark,
              MarkThrows, HandleMessageFailure, StatementFails
<1>3. ASSUME NEW m \in Message, Expire(m) \/ BecomeDue(m)
      PROVE  hasPublisher' = hasPublisher /\ queue' = queue
  BY <1>3 DEF Expire, BecomeDue
<1>4. ASSUME NEW i \in Instance, Crash(i)
      PROVE  hasPublisher' = hasPublisher /\ queue' = queue
  BY <1>4 DEF Crash
<1>5. ASSUME NEW w \in Worker, NEW m \in Message, TakeHint(w, m)
      PROVE  hasPublisher' = hasPublisher /\ queue' = queue
  BY <1>5 DEF TakeHint
<1>6. CASE UNCHANGED vars
  BY <1>6 DEF vars
<1> QED BY <1>1, <1>2, <1>3, <1>4, <1>5, <1>6 DEF Next, WorkerStep

LEMMA MarkSentStep == ASSUME QueueInv, MarkSent, [Next]_vars PROVE MarkSent'
<1>0. LoopsOK
  BY QueueInvSplit
<1>1. \A m \in Message : queue[m] > 0 => queue'[m] > 0
  <2>1. CASE queue' = queue
    BY <2>1
  <2>2. ASSUME NEW w \in Worker, cur[w] \in Message, Sent(cur[w])
        PROVE  \A m \in Message : queue[m] > 0 => queue'[m] > 0
    BY <1>0, <2>2 DEF Sent, LoopsOK
  <2> QED BY <1>0, <2>1, <2>2, QueueStep
<1> SUFFICES ASSUME NEW v \in Worker, hasPublisher', step'[v] = "mark"
             PROVE  queue'[cur'[v]] > 0
  BY DEF MarkSent
<1>2. hasPublisher
  BY <1>0, QueueStep
<1>3. CASE step[v] = "mark" /\ cur'[v] = cur[v]
  BY <1>0, <1>1, <1>2, <1>3 DEF MarkSent, LoopsOK, WorkerOK
<1>4. CASE Publish(v)
  <2>1. cur[v] \in Message /\ queue'[cur[v]] > 0 /\ cur' = cur
    BY <1>0, <1>4 DEF Publish, Sent, LoopsOK, WorkerOK
  <2> QED BY <2>1
<1>5. ASSUME ~Publish(v) PROVE step[v] = "mark" /\ cur'[v] = cur[v]
  <2>1. ASSUME NEW w \in Worker, WorkerStep(w) PROVE step[v] = "mark" /\ cur'[v] = cur[v]
    <3>1. CASE ReleaseLocks(w) \/ LockBatch(w) \/ LockHinted(w) \/ NextMessage(w)
      BY <1>0, <3>1 DEF ReleaseLocks, LockBatch, LockHinted, NextMessage, Goto, LoopsOK
    <3>2. CASE Publish(w) \/ PublishThrows(w)
      BY <1>0, <1>5, <3>2 DEF Publish, PublishThrows, Goto, LoopsOK
    <3>3. CASE DeliverDirectly(w)
      BY <1>0, <1>2, <3>3 DEF DeliverDirectly, Goto, LoopsOK, WorkerOK
    <3>4. CASE Mark(w) \/ HandleMessageFailure(w)
      BY <1>0, <3>4 DEF Mark, HandleMessageFailure, Done, Goto, LoopsOK
    <3> QED BY <2>1, <3>1, <3>2, <3>3, <3>4 DEF WorkerStep
  <2>2. ASSUME NEW w \in Worker, MarkThrows(w) \/ StatementFails(w)
        PROVE  step[v] = "mark" /\ cur'[v] = cur[v]
    BY <1>0, <2>2 DEF MarkThrows, StatementFails, Stop, Goto, LoopsOK
  <2>3. ASSUME NEW w \in Worker, NEW m \in Message, TakeHint(w, m)
        PROVE  step[v] = "mark" /\ cur'[v] = cur[v]
    BY <1>0, <2>3 DEF TakeHint, Goto, LoopsOK
  <2>4. ASSUME NEW i \in Instance, Crash(i) PROVE step[v] = "mark" /\ cur'[v] = cur[v]
    BY <1>0, <2>4 DEF Crash, Stop, LoopsOK
  <2>5. ASSUME NEW m \in Message, Expire(m) \/ BecomeDue(m)
        PROVE  step[v] = "mark" /\ cur'[v] = cur[v]
    BY <2>5 DEF Expire, BecomeDue, worker
  <2>6. CASE UNCHANGED vars
    BY <2>6 DEF vars, worker
  <2> QED BY <2>1, <2>2, <2>3, <2>4, <2>5, <2>6 DEF Next
<1> QED BY <1>3, <1>4, <1>5

LEMMA SentInvariant == Spec => [](QueueInv /\ (\A m \in Message : Sound(m)) /\ MarkSent)
<1>1. Init => MarkSent
  BY DEF Init, MarkSent
<1>2. QueueInv /\ MarkSent /\ [Next]_vars => MarkSent'
  BY MarkSentStep
<1> QED BY <1>1, <1>2, SoundInvariant, PTL DEF Spec

OutcomeOf == [m \in Message |-> Outcome(row[m])]
AckedOf == [m \in Message |-> IF queue[m] = 0 THEN {} ELSE {"queue"}]

\* An outcome changes when a worker writes Delivered or DeadLettered to an open row.
LEMMA OutcomeStep ==
  ASSUME QueueInv, Next
  PROVE  \/ OutcomeOf' = OutcomeOf
         \/ \E w \in Worker :
              /\ cur[w] \in Message /\ Outcome(row[cur[w]]) = "open"
              /\ OutcomeOf' = [OutcomeOf EXCEPT ![cur[w]] = "dead"]
              /\ queue' = queue
         \/ \E w \in Worker :
              /\ cur[w] \in Message /\ Outcome(row[cur[w]]) = "open" /\ step[w] = "mark"
              /\ OutcomeOf' = [OutcomeOf EXCEPT ![cur[w]] = "delivered"]
              /\ queue' = queue
<1>0. LoopsOK /\ StoreInv /\ row \in [Message -> Row] /\ NoInstance \notin Instance
  BY QueueInvSplit, StoreAssumption DEF StoreInv, StoreTypeOK
<1>1. \A w \in Worker : step[w] \in {"trylock", "mark", "failure"} => cur[w] \in Message
  BY <1>0 DEF LoopsOK, WorkerOK
<1>2. \A w \in Worker, m \in Message : Owns(Host[w], m) => Outcome(row[m]) = "open"
  BY <1>0, HostIsInstance DEF Owns, StoreInv, RowInv, RowLocksAgree, Outcome
<1>3. ASSUME NEW w \in Worker, step[w] = "mark", queue' = queue,
             MarkAsProcessed(Host[w], cur[w])
      PROVE  \/ OutcomeOf' = OutcomeOf
             \/ /\ Outcome(row[cur[w]]) = "open" /\ step[w] = "mark"
                /\ OutcomeOf' = [OutcomeOf EXCEPT ![cur[w]] = "delivered"]
                /\ queue' = queue
  <2>1. CASE Owns(Host[w], cur[w])
    <3>1. row' = [row EXCEPT ![cur[w]] = Unlocked(row[cur[w]], "Delivered")]
      BY <1>3, <2>1 DEF MarkAsProcessed, GiveUp
    <3>2. Outcome(Unlocked(row[cur[w]], "Delivered")) = "delivered"
      BY <1>0, <1>1, <1>3 DEF Unlocked, Outcome, Row
    <3>3. OutcomeOf' = [OutcomeOf EXCEPT ![cur[w]] = "delivered"]
      BY <1>0, <1>1, <1>3, <3>1, <3>2 DEF OutcomeOf
    <3> QED BY <1>1, <1>2, <1>3, <2>1, <3>3
  <2>2. CASE ~Owns(Host[w], cur[w])
    BY <1>3, <2>2 DEF MarkAsProcessed, GiveUp, OutcomeOf
  <2> QED BY <2>1, <2>2
<1>4. ASSUME NEW w \in Worker, step[w] = "failure", queue' = queue, WriteFailure(w)
      PROVE  \/ OutcomeOf' = OutcomeOf
             \/ /\ Outcome(row[cur[w]]) = "open"
                /\ OutcomeOf' = [OutcomeOf EXCEPT ![cur[w]] = "dead"]
                /\ queue' = queue
  <2> DEFINE dead == Unlocked(row[cur[w]], "DeadLettered")
             again == [Unlocked(row[cur[w]], "Pending") EXCEPT !.retryCount = @ + 1, !.due = FALSE]
  <2>1. CASE Owns(Host[w], cur[w])
    <3>1. \/ row' = [row EXCEPT ![cur[w]] = dead]
          \/ row' = [row EXCEPT ![cur[w]] = again]
      BY <1>4, <2>1 DEF WriteFailure, IncrementRetry, MarkAsDeadLettered, GiveUp
    <3>2. Outcome(dead) = "dead" /\ Outcome(again) = "open"
      BY <1>0, <1>1, <1>4 DEF Unlocked, Outcome, Row
    <3>3. Outcome(row[cur[w]]) = "open"
      BY <1>1, <1>2, <1>4, <2>1
    <3> HIDE DEF dead, again
    <3>4. \/ OutcomeOf' = OutcomeOf
          \/ OutcomeOf' = [OutcomeOf EXCEPT ![cur[w]] = "dead"]
      BY <1>0, <1>1, <1>4, <3>1, <3>2, <3>3 DEF OutcomeOf
    <3> QED BY <1>4, <3>3, <3>4
  <2>2. CASE ~Owns(Host[w], cur[w])
    BY <1>4, <2>2 DEF WriteFailure, IncrementRetry, MarkAsDeadLettered, GiveUp, OutcomeOf
  <2> QED BY <2>1, <2>2
<1>5. ASSUME NEW w \in Worker,
             \/ ReleaseExpiredLocks \/ UNCHANGED row
             \/ \E ms \in SUBSET Message : LockNextBatch(Host[w], skip[w], ms)
             \/ step[w] = "trylock" /\ TryLockById(Host[w], cur[w])
      PROVE  OutcomeOf' = OutcomeOf
  <2>1. \A m \in Message : Outcome(row'[m]) = Outcome(row[m])
    <3>1. CASE ReleaseExpiredLocks
      <4>1. \A m \in Message : \/ row'[m] = row[m]
                              \/ /\ row[m].status = "Processing"
                                 /\ row'[m] = Unlocked(row[m], "Pending")
        BY <3>1 DEF ReleaseExpiredLocks, ExpiredLocks
      <4>2. \A r \in Row : Unlocked(r, "Pending").status = "Pending"
        BY DEF Unlocked, Row
      <4> QED BY <1>0, <4>1, <4>2 DEF Outcome
    <3>2. ASSUME NEW ms \in SUBSET Message, LockNextBatch(Host[w], skip[w], ms)
          PROVE  \A m \in Message : Outcome(row'[m]) = Outcome(row[m])
      <4>1. \A m \in ms : LockableByScan(row[m])
        BY <3>2 DEF LockNextBatch, IsOldestOf, Eligible
      <4> QED BY <1>0, <3>2, <4>1 DEF LockNextBatch, LockableByScan, Locked, Outcome, Row
    <3>3. CASE step[w] = "trylock" /\ TryLockById(Host[w], cur[w])
      BY <1>0, <3>3 DEF TryLockById, LockableById, Locked, Outcome, Row
    <3>4. CASE UNCHANGED row
      BY <3>4
    <3> QED BY <1>5, <3>1, <3>2, <3>3, <3>4
  <2> QED BY <2>1 DEF OutcomeOf
<1>6. ASSUME NEW w \in Worker, WorkerStep(w) \/ MarkThrows(w) \/ StatementFails(w)
      PROVE  \/ ReleaseExpiredLocks \/ UNCHANGED row
             \/ \E ms \in SUBSET Message : LockNextBatch(Host[w], skip[w], ms)
             \/ step[w] = "trylock" /\ TryLockById(Host[w], cur[w])
             \/ step[w] = "mark" /\ queue' = queue /\ MarkAsProcessed(Host[w], cur[w])
             \/ step[w] = "failure" /\ queue' = queue /\ WriteFailure(w)
  <2>1. CASE ReleaseLocks(w) \/ LockBatch(w) \/ LockHinted(w)
    BY <2>1 DEF ReleaseLocks, LockBatch, LockHinted
  <2>2. CASE NextMessage(w) \/ Publish(w) \/ PublishThrows(w) \/ DeliverDirectly(w)
    BY <2>2 DEF NextMessage, Publish, PublishThrows, DeliverDirectly
  <2>3. CASE Mark(w) \/ HandleMessageFailure(w)
    BY <2>3 DEF Mark, HandleMessageFailure
  <2>4. CASE MarkThrows(w) \/ StatementFails(w)
    BY <2>4 DEF MarkThrows, StatementFails
  <2> QED BY <1>6, <2>1, <2>2, <2>3, <2>4 DEF WorkerStep
<1>7. ASSUME NEW w \in Worker, NEW m \in Message, TakeHint(w, m) PROVE OutcomeOf' = OutcomeOf
  BY <1>7 DEF TakeHint, OutcomeOf
<1>8. ASSUME NEW i \in Instance, Crash(i) PROVE OutcomeOf' = OutcomeOf
  BY <1>8 DEF Crash, OutcomeOf
<1>9. ASSUME NEW m \in Message, Expire(m) \/ BecomeDue(m) PROVE OutcomeOf' = OutcomeOf
  <2>1. \A n \in Message : row'[n].status = row[n].status
    BY <1>0, <1>9 DEF Expire, BecomeDue, LeaseExpires, RetryDue, Row
  <2> QED BY <2>1 DEF OutcomeOf, Outcome
<1> QED BY <1>1, <1>3, <1>4, <1>5, <1>6, <1>7, <1>8, <1>9 DEF Next

LEMMA StepKeepsPromise ==
  ASSUME QueueInv, MarkSent, Next
  PROVE  [Promise!PromiseNext]_(Promise!promise)
<1> USE DEF Promise!promise
<1>0. LoopsOK
  BY QueueInvSplit
<1>1. hasPublisher' = hasPublisher
  BY <1>0, QueueStep DEF vars
<1>2. ASSUME NEW w \in Worker, step[w] = "publish", cur[w] \in Message, Sent(cur[w]), row' = row
      PROVE  [Promise!PromiseNext]_(Promise!promise)
  <2>1. OutcomeOf' = OutcomeOf
    BY <1>2 DEF OutcomeOf
  <2>2. AckedOf' = [AckedOf EXCEPT ![cur[w]] = @ \cup {"queue"}]
    <3>1. \A m \in Message : queue'[m] = 0 <=> queue[m] = 0 /\ m # cur[w]
      BY <1>0, <1>2 DEF Sent, LoopsOK
    <3>2. AckedOf[cur[w]] \cup {"queue"} = {"queue"}
      BY <1>2 DEF AckedOf
    <3> QED BY <1>2, <3>1, <3>2 DEF AckedOf
  <2>3. Promise!Acknowledge(cur[w], "queue")
    BY <1>1, <2>1, <2>2 DEF Promise!Acknowledge, OutcomeOf, AckedOf
  <2> QED BY <1>2, <2>3 DEF Promise!PromiseNext
<1>3. CASE queue' = queue /\ OutcomeOf' = OutcomeOf
  BY <1>1, <1>3 DEF OutcomeOf
<1>4. ASSUME NEW w \in Worker, NEW o \in {"delivered", "dead"}, cur[w] \in Message,
             Outcome(row[cur[w]]) = "open", o = "delivered" => step[w] = "mark",
             OutcomeOf' = [OutcomeOf EXCEPT ![cur[w]] = o], queue' = queue
      PROVE  [Promise!PromiseNext]_(Promise!promise)
  <2>1. o = "delivered" /\ hasPublisher => AckedOf[cur[w]] = {"queue"}
    BY <1>0, <1>4 DEF MarkSent, AckedOf, LoopsOK
  <2>2. AckedOf' = AckedOf
    BY <1>4 DEF AckedOf
  <2>3. Promise!Settle(cur[w], o)
    BY <1>1, <1>4, <2>1, <2>2 DEF Promise!Settle, OutcomeOf, AckedOf
  <2> QED BY <1>4, <2>3 DEF Promise!PromiseNext
<1> QED BY <1>0, <1>2, <1>3, <1>4, QueueStep, OutcomeStep

\* Outcomes are final and Delivered follows the queue's acknowledgement: queue-
\* mediated processing implements the safety part of OutboxPromise.
THEOREM QueuePromiseOutcomes == Spec => Promise!PromiseSafety
<1>1. Init => Promise!PromiseInit
  BY DEF Init, Promise!PromiseInit, NewRow, Outcome
<1>2. QueueInv /\ MarkSent /\ [Next]_vars => [Promise!PromiseNext]_(Promise!promise)
  <2>1. UNCHANGED vars => UNCHANGED Promise!promise
    BY DEF vars, Promise!promise
  <2> QED BY <2>1, StepKeepsPromise
<1> QED BY <1>1, <1>2, SentInvariant, PTL DEF Spec, Promise!PromiseSafety

-----------------------------------------------------------------------------
(* 5. Nobody's locks *)

\* A held lock is the lock of a worker that has the message.  Another worker, whose
\* own lock expired, may have it too, so the owner is part of the invariant.
Tended(m) ==
  faults = 0 /\ hasPublisher /\ LockHeld(row[m]) =>
    \E w \in Worker : Has(w, m) /\ Owns(Host[w], m)

\* The lock is the old one, and its worker keeps the message.
LEMMA StillTended ==
  ASSUME NEW m \in Message, Tended(m), hasPublisher' = hasPublisher,
         faults' = 0 => faults = 0,
         LockHeld(row'[m]) => SameLock(row[m], row'[m]),
         \A w \in Worker : Has(w, m) /\ Owns(Host[w], m) /\ LockHeld(row'[m]) => Has(w, m)'
  PROVE  Tended(m)'
BY DEF Tended, LockHeld, SameLock, Owns

LEMMA TendedByLocking ==
  ASSUME QueueInv, NEW w \in Worker, NEW m \in Message, Tended(m),
         ReleaseLocks(w) \/ LockBatch(w) \/ LockHinted(w)
  PROVE  Tended(m)'
<1>0. LoopsOK /\ StoreInv /\ row \in [Message -> Row] /\ row[m] \in Row /\ NoMessage # m
  BY QueueInvSplit, QueueAssumption DEF StoreInv, StoreTypeOK
<1>1. UNCHANGED <<faults, hasPublisher>> /\ step[w] \in {"idle", "lock", "trylock"}
  BY DEF ReleaseLocks, LockBatch, LockHinted, budget
<1>2. ~Has(w, m)
  BY <1>0, <1>1 DEF Has, LoopsOK, WorkerOK
<1>3. \A v \in Worker \ {w} : Has(v, m) => Has(v, m)'
  BY <1>0 DEF ReleaseLocks, LockBatch, LockHinted, Goto, Has, LoopsOK
<1>4. CASE LockHeld(row'[m]) => SameLock(row[m], row'[m])
  BY <1>1, <1>2, <1>3, <1>4, StillTended
<1>5. ASSUME row'[m] = Locked(row[m], Host[w]), Has(w, m)' PROVE Tended(m)'
  <2>1. Owns(Host[w], m)'
    BY <1>0, <1>5 DEF Owns, Locked, Row
  <2> QED BY <1>5, <2>1 DEF Tended
<1>6. CASE ReleaseLocks(w)
  <2>1. LockHeld(row'[m]) => row'[m] = row[m]
    BY <1>0, <1>6 DEF ReleaseLocks, ReleaseExpiredLocks, Unlocked, LockHeld, Row
  <2> QED BY <1>4, <2>1 DEF SameLock
<1>7. CASE LockBatch(w)
  <2>1. PICK ms \in SUBSET Message :
          /\ LockNextBatch(Host[w], skip[w], ms)
          /\ rest' = [rest EXCEPT ![w] = ms]
    BY <1>7 DEF LockBatch
  <2>2. CASE m \in ms
    <3>1. m \in rest'[w]
      BY <1>0, <2>1, <2>2 DEF LoopsOK
    <3> QED BY <1>5, <2>1, <2>2, <3>1 DEF LockNextBatch, Has
  <2>3. CASE m \notin ms
    BY <1>4, <2>1, <2>3 DEF LockNextBatch, SameLock
  <2> QED BY <2>2, <2>3
<1>8. CASE LockHinted(w)
  <2> DEFINE c == cur[w]
  <2>1. TryLockById(Host[w], c)
        /\ rest' = [rest EXCEPT ![w] = IF hasPublisher /\ LockableById(row[c]) THEN {c} ELSE {}]
    BY <1>8 DEF LockHinted
  <2>2. CASE c = m /\ LockableById(row[m])
    <3>1. row'[m] = Locked(row[m], Host[w])
      BY <1>0, <2>1, <2>2 DEF TryLockById
    <3>2. hasPublisher => m \in rest'[w]
      BY <1>0, <2>1, <2>2 DEF LoopsOK
    <3>3. CASE hasPublisher
      BY <1>5, <3>1, <3>2, <3>3 DEF Has
    <3> QED BY <1>1, <3>3 DEF Tended
  <2>3. CASE ~(c = m /\ LockableById(row[m]))
    BY <1>0, <1>4, <2>1, <2>3 DEF TryLockById, SameLock
  <2> QED BY <2>2, <2>3
<1> QED BY <1>6, <1>7, <1>8

LEMMA TendedByFinishing ==
  ASSUME QueueInv, NEW w \in Worker, NEW m \in Message, Tended(m),
         Mark(w) \/ HandleMessageFailure(w)
  PROVE  Tended(m)'
<1> USE DEF WriteFailure
<1>0. LoopsOK /\ row \in [Message -> Row] /\ row[m] \in Row /\ UNCHANGED <<faults, hasPublisher>>
  BY QueueInvSplit DEF StoreInv, StoreTypeOK, Mark, HandleMessageFailure, budget
<1>1. Done(w) /\ cur[w] \in Message
  BY <1>0 DEF Mark, HandleMessageFailure, LoopsOK, WorkerOK
<1>2. \A v \in Worker : Has(v, m) => Has(v, m)' \/ (v = w /\ cur[w] = m)
  BY <1>0, <1>1 DEF Done, Goto, Has, LoopsOK
<1>3. ~Owns(Host[w], cur[w]) => row' = row
  BY DEF Mark, HandleMessageFailure, MarkAsProcessed, MarkAsDeadLettered, IncrementRetry, GiveUp
<1>4. CASE cur[w] = m /\ Owns(Host[w], m)
  <2>1. /\ ~LockHeld(Unlocked(row[m], "Delivered"))
        /\ ~LockHeld(Unlocked(row[m], "DeadLettered"))
        /\ ~LockHeld([Unlocked(row[m], "Pending") EXCEPT !.retryCount = @ + 1, !.due = FALSE])
    BY <1>0 DEF LockHeld, Unlocked, Row
  <2>2. ~LockHeld(row'[m])
    BY <1>0, <1>4, <2>1 DEF Mark, HandleMessageFailure, MarkAsProcessed, MarkAsDeadLettered,
                            IncrementRetry, GiveUp
  <2> QED BY <2>2 DEF Tended
<1>5. CASE ~(cur[w] = m /\ Owns(Host[w], m))
  <2>1. row'[m] = row[m]
    <3>1. CASE cur[w] # m
      BY <1>0, <3>1 DEF Mark, HandleMessageFailure, MarkAsProcessed, MarkAsDeadLettered,
                        IncrementRetry, GiveUp
    <3> QED BY <1>3, <1>5, <3>1
  <2>2. \A v \in Worker : Has(v, m) /\ Owns(Host[v], m) => Has(v, m)'
    BY <1>2, <1>5
  <2> QED BY <1>0, <2>1, <2>2, StillTended DEF SameLock
<1> QED BY <1>4, <1>5

LEMMA TendedStep ==
  ASSUME QueueInv, [Next]_vars, NEW m \in Message, Tended(m)
  PROVE  Tended(m)'
<1>0. LoopsOK /\ row \in [Message -> Row] /\ hasPublisher' = hasPublisher
  BY QueueInvSplit, QueueStep DEF StoreInv, StoreTypeOK
<1>1. ASSUME NEW w \in Worker,
             NextMessage(w) \/ Publish(w) \/ PublishThrows(w) \/ DeliverDirectly(w)
      PROVE  Tended(m)'
  <2>1. UNCHANGED <<row, faults>>
    BY <1>1 DEF NextMessage, Publish, PublishThrows, DeliverDirectly, budget
  <2>2. \A v \in Worker : Has(v, m) => Has(v, m)'
    <3>1. CASE NextMessage(w)
      <4>1. PICK n \in rest[w] :
              cur' = [cur EXCEPT ![w] = n] /\ rest' = [rest EXCEPT ![w] = @ \ {n}]
        BY <3>1 DEF NextMessage
      <4>2. /\ step[w] = "next" /\ cur[w] = NoMessage
            /\ step' = [step EXCEPT ![w] = IF hasPublisher THEN "publish" ELSE "direct"]
        BY <1>0, <3>1 DEF NextMessage, Goto, LoopsOK, WorkerOK
      <4> QED BY <1>0, <4>1, <4>2, QueueAssumption DEF Has, LoopsOK
    <3>2. CASE Publish(w) \/ PublishThrows(w) \/ DeliverDirectly(w)
      BY <1>0, <3>2 DEF Publish, PublishThrows, DeliverDirectly, Goto, Has, LoopsOK
    <3> QED BY <1>1, <3>1, <3>2
  <2> QED BY <1>0, <2>1, <2>2, StillTended DEF SameLock
<1>2. ASSUME NEW w \in Worker, WorkerStep(w) PROVE Tended(m)'
  BY <1>1, <1>2, TendedByLocking, TendedByFinishing DEF WorkerStep
<1>3. ASSUME Fault PROVE Tended(m)'
  BY <1>0, <1>3 DEF Fault, Tended, LoopsOK
<1>4. ASSUME NEW w \in Worker, NEW n \in Message, TakeHint(w, n) PROVE Tended(m)'
  <2>1. UNCHANGED <<row, faults>>
    BY <1>4 DEF TakeHint, budget
  <2>2. \A v \in Worker : Has(v, m) => Has(v, m)'
    BY <1>0, <1>4, QueueAssumption DEF TakeHint, Goto, Has, LoopsOK, WorkerOK
  <2> QED BY <1>0, <2>1, <2>2, StillTended DEF SameLock
<1>5. ASSUME NEW n \in Message, Expire(n) \/ BecomeDue(n) PROVE Tended(m)'
  <2>1. UNCHANGED <<faults, step, rest, cur>>
    BY <1>5 DEF Expire, BecomeDue, worker, budget
  <2>2. LockHeld(row'[m]) => SameLock(row[m], row'[m])
    BY <1>0, <1>5 DEF Expire, BecomeDue, LeaseExpires, RetryDue, LockHeld, SameLock, Row
  <2>3. \A v \in Worker : Has(v, m) => Has(v, m)'
    BY <2>1 DEF Has
  <2> QED BY <1>0, <2>1, <2>2, <2>3, StillTended
<1>6. CASE UNCHANGED vars
  BY <1>6 DEF vars, worker, budget, Tended, Has, Owns
<1>7. /\ \A w \in Worker : MarkThrows(w) \/ StatementFails(w) => Fault
      /\ \A i \in Instance : Crash(i) => Fault
  BY DEF MarkThrows, StatementFails, Crash
<1> QED BY <1>2, <1>3, <1>4, <1>5, <1>6, <1>7 DEF Next

\* No lock is left to its expiry unless a statement failed or a process stopped: the
\* failure of one message does not cost the rest of a batch (ProcessQueueMediatedAsync).
THEOREM LocksAreTended == Spec => []LockedIsWorkedOn
<1>1. Init => \A m \in Message : Tended(m)
  BY DEF Init, Tended, LockHeld, NewRow
<1>2. QueueInv /\ (\A m \in Message : Tended(m)) /\ [Next]_vars => (\A m \in Message : Tended(m))'
  BY TendedStep
<1>3. (\A m \in Message : Tended(m)) => LockedIsWorkedOn
  BY DEF Tended, LockedIsWorkedOn, LocksStartDelivery
<1> QED BY <1>1, <1>2, <1>3, QueueInvariant, PTL DEF Spec
=============================================================================
