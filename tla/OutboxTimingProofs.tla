-------------------------- MODULE OutboxTimingProofs --------------------------
(***************************************************************************)
(* Four facts about the instants of OutboxTiming, for every number of      *)
(* messages and invocations, every clock skew and every duration:          *)
(*   - the throttle of ReleaseExpiredLocksAsync holds;                     *)
(*   - OutboxStore's view of time is one that the timestamps implement;    *)
(*   - a retry waits for its delay, give or take the jitter;               *)
(*   - a lock outlives the job it was taken for, when VisibilityTimeout is *)
(*     WorstCase or more.  The argument is the schedule of c workers that  *)
(*     share b items of at most d ticks: while items are left to begin,    *)
(*     c * k of them are over after k rounds of d ticks (Paced).  It is    *)
(*     used twice, for the subscriptions of a message and for the messages *)
(*     of a batch.                                                         *)
(***************************************************************************)
EXTENDS OutboxTiming, FiniteSetTheorems, TLAPS

USE TimingAssumption

-----------------------------------------------------------------------------
(* The throttle *)

Throttle == [phase : {"idle", "read", "cas", "release", "lock", "work"},
             nowTicks : Int, lastTicks : Int]

\* What an invocation that is about to compare and exchange knows: the value it
\* will put there is ReleaseInterval past the one it expects to find.
MayRelease(c) == c.phase = "cas" => c.nowTicks - c.lastTicks >= ReleaseInterval

ThrottleInv ==
  /\ now \in Nat /\ skew \in Int /\ last \in Int
  /\ call \in [Invocation -> Throttle]
  /\ \A w \in Invocation : MayRelease(call[w])

LEMMA NoCallFits == NoCall \in Throttle /\ MayRelease(NoCall)
BY DEF NoCall, Throttle, MayRelease, Null

\* The invocation moves on to a phase that is not "cas".
LEMMA GotoKeeps ==
  ASSUME ThrottleInv, NEW w \in Invocation, NEW p \in {"idle", "release", "lock", "work"},
         call' = [call EXCEPT ![w] = [NoCall EXCEPT !.phase = p]]
  PROVE  /\ call' \in [Invocation -> Throttle]
         /\ \A v \in Invocation : MayRelease(call'[v])
<1>1. [NoCall EXCEPT !.phase = p] \in Throttle /\ MayRelease([NoCall EXCEPT !.phase = p])
  BY DEF NoCall, Throttle, MayRelease, Null
<1> QED BY <1>1 DEF ThrottleInv

LEMMA ThrottleInvInit == Init => ThrottleInv
BY NoCallFits DEF Init, ThrottleInv, Never

LEMMA ThrottleInvStep ==
  ASSUME ThrottleInv, [Next]_vars
  PROVE  ThrottleInv'
<1> SUFFICES /\ now' \in Nat /\ skew' \in Int /\ last' \in Int
             /\ call' \in [Invocation -> Throttle]
             /\ \A w \in Invocation : MayRelease(call'[w])
  BY DEF ThrottleInv, MayRelease
<1> USE DEF ThrottleInv
<1>1. ASSUME NEW w \in Invocation, ReadClock(w)
      PROVE  /\ call' \in [Invocation -> Throttle]
             /\ \A v \in Invocation : MayRelease(call'[v])
  <2> DEFINE c == [NoCall EXCEPT !.phase = "read", !.nowTicks = AppNow]
  <2>1. NoCall \in Throttle /\ AppNow \in Int
    BY NoCallFits DEF AppNow
  <2>2. c \in Throttle /\ MayRelease(c)
    BY <2>1 DEF Throttle, MayRelease
  <2>3. call' = [call EXCEPT ![w] = c]
    BY <1>1 DEF ReadClock
  <2> QED BY <2>2, <2>3
<1>2. ASSUME NEW w \in Invocation, ReadLast(w)
      PROVE  /\ call' \in [Invocation -> Throttle]
             /\ \A v \in Invocation : MayRelease(call'[v])
  <2>1. CASE call[w].nowTicks - last >= ReleaseInterval
    <3> DEFINE c == [call[w] EXCEPT !.phase = "cas", !.lastTicks = last]
    <3>1. c \in Throttle /\ MayRelease(c)
      BY <2>1 DEF Throttle, MayRelease
    <3>2. call' = [call EXCEPT ![w] = c]
      BY <1>2, <2>1 DEF ReadLast
    <3> QED BY <3>1, <3>2
  <2>2. CASE ~(call[w].nowTicks - last >= ReleaseInterval)
    <3>1. call' = [call EXCEPT ![w] = [NoCall EXCEPT !.phase = "lock"]]
      BY <1>2, <2>2 DEF ReadLast
    <3> QED BY <3>1, GotoKeeps
  <2> QED BY <2>1, <2>2
<1>3. ASSUME NEW w \in Invocation, CompareExchange(w)
      PROVE  /\ last' \in Int
             /\ call' \in [Invocation -> Throttle]
             /\ \A v \in Invocation : MayRelease(call'[v])
  <2>1. \E p \in {"release", "lock"} : call' = [call EXCEPT ![w] = [NoCall EXCEPT !.phase = p]]
    BY <1>3 DEF CompareExchange, Goto
  <2>2. last' \in {last, call[w].nowTicks}
    BY <1>3 DEF CompareExchange
  <2>3. last' \in Int
    BY <2>2 DEF Throttle
  <2> QED BY <2>1, <2>3, GotoKeeps
<1>4. ASSUME NEW w \in Invocation, ReleaseExpiredLocks(w) \/ LockBatch(w)
      PROVE  /\ call' \in [Invocation -> Throttle]
             /\ \A v \in Invocation : MayRelease(call'[v])
  <2>1. \/ call' = [call EXCEPT ![w] = [NoCall EXCEPT !.phase = "lock"]]
        \/ call' = [call EXCEPT ![w] = [NoCall EXCEPT !.phase = "work"]]
        \/ call' = [call EXCEPT ![w] = NoCall]
    BY <1>4 DEF ReleaseExpiredLocks, LockBatch, Goto
  <2>2. NoCall = [NoCall EXCEPT !.phase = "idle"]
    BY DEF NoCall
  <2> QED BY <2>1, <2>2, GotoKeeps
<1>5. ASSUME NEW w \in Invocation, NEW m \in Message, JobStep(w, m)
      PROVE  /\ UNCHANGED <<now, skew, last>>
             /\ call' \in [Invocation -> Throttle]
             /\ \A v \in Invocation : MayRelease(call'[v])
  <2>1. /\ UNCHANGED <<now, skew, last>>
        /\ call' = call \/ call' = [call EXCEPT ![w] = NoCall]
    BY <1>5 DEF JobStep, StartJob, EndDelivery, FinishJob
  <2> QED BY <2>1, NoCallFits
<1>6. ASSUME Tick
      PROVE  now' \in Nat /\ UNCHANGED <<skew, last, call>>
  <2>1. now' = now + 1 /\ UNCHANGED <<skew, last, call>>
    BY <1>6, Zenon DEF Tick
  <2> QED BY <2>1
<1>7. ASSUME Stop
      PROVE  /\ UNCHANGED <<now, skew>> /\ last' \in Int
             /\ call' \in [Invocation -> Throttle]
             /\ \A v \in Invocation : MayRelease(call'[v])
  BY <1>7, NoCallFits DEF Stop, Never
<1>8. CASE Next
  BY <1>1, <1>2, <1>3, <1>4, <1>5, <1>6, <1>7, <1>8
  DEF Next, CallStep, ReadClock, ReadLast, CompareExchange, ReleaseExpiredLocks, LockBatch
<1>9. CASE UNCHANGED vars
  BY <1>9 DEF vars
<1> QED BY <1>8, <1>9

LEMMA ThrottleInvariant == Spec => []ThrottleInv
BY ThrottleInvInit, ThrottleInvStep, PTL DEF Spec

\* However many invocations race for _lastLockReleaseTicks and however slow they
\* are between Interlocked.Read and CompareExchange, two releases of one process
\* are ReleaseInterval apart.
THEOREM ReleasesAreSpaced == Spec => ReleasesSpaced
<1>1. ASSUME ThrottleInv, [Next]_vars, last' \notin {last, Never}
      PROVE  last' - last >= ReleaseInterval
  <2>0. /\ Tick \/ Stop => last' \in {last, Never}
        /\ \A w \in Invocation :
             ReadClock(w) \/ ReadLast(w) \/ ReleaseExpiredLocks(w) \/ LockBatch(w) => last' = last
        /\ \A w \in Invocation, m \in Message : JobStep(w, m) => last' = last
    <3>1. Tick \/ Stop => last' \in {last, Never}
      BY DEF Tick, Stop
    <3>2. \A w \in Invocation :
            ReadClock(w) \/ ReadLast(w) \/ ReleaseExpiredLocks(w) \/ LockBatch(w) => last' = last
      BY DEF ReadClock, ReadLast, ReleaseExpiredLocks, LockBatch
    <3>3. \A w \in Invocation, m \in Message : JobStep(w, m) => last' = last
      BY DEF JobStep, StartJob, EndDelivery, FinishJob
    <3> QED BY <3>1, <3>2, <3>3
  <2>1. PICK w \in Invocation : CompareExchange(w)
    BY <1>1, <2>0 DEF Next, vars, CallStep
  <2>2. last' = call[w].nowTicks /\ last = call[w].lastTicks /\ call[w].phase = "cas"
    BY <1>1, <2>1 DEF CompareExchange, Phase
  <2>3. MayRelease(call[w])
    BY <1>1 DEF ThrottleInv
  <2> QED BY <1>1, <2>2, <2>3 DEF MayRelease
<1>2. ThrottleInv /\ [Next]_vars =>
        [last' \notin {last, Never} => last' - last >= ReleaseInterval]_vars
  BY <1>1
<1> QED BY <1>2, ThrottleInvariant, PTL DEF Spec, ReleasesSpaced

-----------------------------------------------------------------------------
(* The instants and the store *)

StampedRow == [status      : {"Pending", "Processing", "Delivered", "DeadLettered"},
               lockedUntil : Int, nextRetryAt : Int, retryCount : Nat]

StampInv ==
  /\ now \in Nat /\ skew \in Int /\ table \in [Message -> StampedRow]
  /\ \A m \in Message : table[m].status = "Processing" => table[m].lockedUntil \in Nat

\* What Column makes of a row r at the instant t.
ColumnOf(r, t) ==
  [status     |-> r.status,
   lockedBy   |-> IF r.status = "Processing" THEN "process" ELSE "nobody",
   lease      |-> IF r.lockedUntil = Null THEN "none" ELSE
                  IF r.lockedUntil < t THEN "expired" ELSE "held",
   due        |-> r.nextRetryAt = Null \/ r.nextRetryAt <= t,
   retryCount |-> r.retryCount]

LEMMA ColumnIs ==
  ASSUME NEW m \in Message
  PROVE  Column(m) = ColumnOf(table[m], now) /\ Column(m)' = ColumnOf(table'[m], now')
BY DEF Column, ColumnOf

\* A row as a batch leaves it.
TakenRow(r) ==
  [r EXCEPT !.status = "Processing", !.lockedUntil = now + WholeSeconds(VisibilityTimeout)]

\* A row whose lock has been given up, with another status.
FreedRow(r, s) == [r EXCEPT !.lockedUntil = Null, !.status = s]

RetriedRow(r, at) ==
  [r EXCEPT !.lockedUntil = Null, !.status = "Pending", !.retryCount = @ + 1, !.nextRetryAt = at]

\* Cutting a duration to whole seconds leaves a natural number.
LEMMA WholeSecondsNat == WholeSeconds(VisibilityTimeout) \in Nat
<1>1. VisibilityTimeout \div Second \in Nat
  BY DEF TimingAssumption
<1> QED BY <1>1 DEF WholeSeconds

\* The fields of the rows that the statements write.
LEMMA RowFields ==
  ASSUME NEW r \in StampedRow, NEW at \in Int, NEW s
  PROVE  /\ TakenRow(r).status = "Processing"
         /\ TakenRow(r).lockedUntil = now + WholeSeconds(VisibilityTimeout)
         /\ TakenRow(r).nextRetryAt = r.nextRetryAt /\ TakenRow(r).retryCount = r.retryCount
         /\ FreedRow(r, s).status = s /\ FreedRow(r, s).lockedUntil = Null
         /\ FreedRow(r, s).nextRetryAt = r.nextRetryAt
         /\ FreedRow(r, s).retryCount = r.retryCount
         /\ RetriedRow(r, at).status = "Pending" /\ RetriedRow(r, at).lockedUntil = Null
         /\ RetriedRow(r, at).nextRetryAt = at
         /\ RetriedRow(r, at).retryCount = r.retryCount + 1
BY DEF StampedRow, TakenRow, FreedRow, RetriedRow

LEMMA RetriedFields ==
  ASSUME NEW r \in StampedRow, NEW at \in Int
  PROVE  /\ RetriedRow(r, at).status = "Pending" /\ RetriedRow(r, at).lockedUntil = Null
         /\ RetriedRow(r, at).nextRetryAt = at
BY DEF StampedRow, RetriedRow

\* Changing one column keeps the type of a row.
LEMMA StampUpdates ==
  ASSUME NEW r \in StampedRow
  PROVE  /\ \A st \in {"Pending", "Processing", "Delivered", "DeadLettered"} :
              [r EXCEPT !.status = st] \in StampedRow
         /\ \A t \in Int : [r EXCEPT !.lockedUntil = t] \in StampedRow
         /\ \A t \in Int : [r EXCEPT !.nextRetryAt = t] \in StampedRow
         /\ \A n \in Nat : [r EXCEPT !.retryCount = n] \in StampedRow
BY DEF StampedRow

\* The rows that the statements write have their type.
LEMMA RowsKeepType ==
  ASSUME StampInv, NEW r \in StampedRow, NEW at \in Int
  PROVE  /\ TakenRow(r) \in StampedRow
         /\ \A s \in {"Pending", "Delivered", "DeadLettered"} : FreedRow(r, s) \in StampedRow
         /\ RetriedRow(r, at) \in StampedRow
<1>1. TakenRow(r) \in StampedRow
  <2>1. PICK r1 : r1 = [r EXCEPT !.status = "Processing"]
    OBVIOUS
  <2>2. r1 \in StampedRow
    BY <2>1, StampUpdates
  <2>3. now + WholeSeconds(VisibilityTimeout) \in Int
    BY WholeSecondsNat DEF StampInv
  <2>4. TakenRow(r) = [r1 EXCEPT !.lockedUntil = now + WholeSeconds(VisibilityTimeout)]
    BY <2>1 DEF TakenRow
  <2> QED BY <2>2, <2>3, <2>4, StampUpdates
<1>2. PICK r0 : r0 = [r EXCEPT !.lockedUntil = Null]
  OBVIOUS
<1>3. r0 \in StampedRow /\ r0.retryCount = r.retryCount
  BY <1>2, StampUpdates DEF Null, StampedRow
<1>4. ASSUME NEW s \in {"Pending", "Delivered", "DeadLettered"}
      PROVE  FreedRow(r, s) \in StampedRow
  <2>1. FreedRow(r, s) = [r0 EXCEPT !.status = s]
    BY <1>2 DEF FreedRow
  <2> QED BY <1>3, <1>4, <2>1 DEF StampedRow
<1>5. RetriedRow(r, at) \in StampedRow
  <2>1. PICK r1 : r1 = [r0 EXCEPT !.status = "Pending"]
    OBVIOUS
  <2>2. r1 \in StampedRow
    BY <1>3, <2>1, StampUpdates
  <2>3. PICK r2 : r2 = [r1 EXCEPT !.retryCount = r.retryCount + 1]
    OBVIOUS
  <2>4. r2 \in StampedRow
    BY <2>2, <2>3, StampUpdates DEF StampedRow
  <2>5. RetriedRow(r, at) = [r2 EXCEPT !.nextRetryAt = at]
    BY <1>2, <2>1, <2>3 DEF RetriedRow, StampedRow
  <2> QED BY <2>4, <2>5 DEF StampedRow
<1> QED BY <1>1, <1>4, <1>5

\* Updating one field of the columns.
LEMMA ColumnUpdates ==
  ASSUME NEW st, NEW lb, NEW le, NEW du, NEW rc, NEW x
  PROVE  LET C(a, b, c, d, e) ==
               [status |-> a, lockedBy |-> b, lease |-> c, due |-> d, retryCount |-> e] IN
         /\ [C(st, lb, le, du, rc) EXCEPT !.status = x] = C(x, lb, le, du, rc)
         /\ [C(st, lb, le, du, rc) EXCEPT !.lockedBy = x] = C(st, x, le, du, rc)
         /\ [C(st, lb, le, du, rc) EXCEPT !.lease = x] = C(st, lb, x, du, rc)
         /\ [C(st, lb, le, du, rc) EXCEPT !.due = x] = C(st, lb, le, x, rc)
         /\ [C(st, lb, le, du, rc) EXCEPT !.retryCount = x] = C(st, lb, le, du, x)
OBVIOUS

\* A row of the store after IncrementRetry.
AfterRetry(c, d) == [Store!Unlocked(c, "Pending") EXCEPT !.retryCount = @ + 1, !.due = d]

\* A record of the five columns.
IsColumn(c) ==
  c = [status |-> c.status, lockedBy |-> c.lockedBy, lease |-> c.lease, due |-> c.due,
       retryCount |-> c.retryCount]

\* Columns are the record of their fields.
LEMMA ColumnOfFields == ASSUME NEW r, NEW t PROVE IsColumn(ColumnOf(r, t))
BY DEF ColumnOf, IsColumn

\* What OutboxStore's statements make of the columns.
LEMMA StatementsOnColumns ==
  ASSUME NEW c, IsColumn(c), NEW s, NEW d
  PROVE  /\ Store!Locked(c, "process") =
              [status |-> "Processing", lockedBy |-> "process", lease |-> "held",
               due |-> c.due, retryCount |-> c.retryCount]
         /\ Store!Unlocked(c, s) =
              [status |-> s, lockedBy |-> "nobody", lease |-> "none", due |-> c.due,
               retryCount |-> c.retryCount]
         /\ [Store!Unlocked(c, s) EXCEPT !.retryCount = @ + 1, !.due = d] =
              [status |-> s, lockedBy |-> "nobody", lease |-> "none", due |-> d,
               retryCount |-> c.retryCount + 1]
<1>1. PICK st, lb, le, du, rc :
        /\ st = c.status /\ lb = c.lockedBy /\ le = c.lease /\ du = c.due /\ rc = c.retryCount
  OBVIOUS
<1>2. c = [status |-> st, lockedBy |-> lb, lease |-> le, due |-> du, retryCount |-> rc]
  BY <1>1 DEF IsColumn
<1>3. Store!Locked(c, "process") =
        [status |-> "Processing", lockedBy |-> "process", lease |-> "held",
         due |-> du, retryCount |-> rc]
  <2>1. PICK c1 : c1 = [c EXCEPT !.status = "Processing"]
    OBVIOUS
  <2>2. PICK c2 : c2 = [c1 EXCEPT !.lockedBy = "process"]
    OBVIOUS
  <2>3. c1 = [status |-> "Processing", lockedBy |-> lb, lease |-> le, due |-> du,
              retryCount |-> rc]
    BY <1>2, <2>1, ColumnUpdates
  <2>4. c2 = [status |-> "Processing", lockedBy |-> "process", lease |-> le, due |-> du,
              retryCount |-> rc]
    BY <2>2, <2>3, ColumnUpdates
  <2>5. Store!Locked(c, "process") = [c2 EXCEPT !.lease = "held"]
    BY <2>1, <2>2 DEF Store!Locked
  <2> QED BY <2>4, <2>5, ColumnUpdates
<1>4. Store!Unlocked(c, s) =
        [status |-> s, lockedBy |-> "nobody", lease |-> "none", due |-> du, retryCount |-> rc]
  <2>1. PICK c1 : c1 = [c EXCEPT !.status = s]
    OBVIOUS
  <2>2. PICK c2 : c2 = [c1 EXCEPT !.lockedBy = "nobody"]
    OBVIOUS
  <2>3. c1 = [status |-> s, lockedBy |-> lb, lease |-> le, due |-> du, retryCount |-> rc]
    BY <1>2, <2>1, ColumnUpdates
  <2>4. c2 = [status |-> s, lockedBy |-> "nobody", lease |-> le, due |-> du, retryCount |-> rc]
    BY <2>2, <2>3, ColumnUpdates
  <2>5. Store!Unlocked(c, s) = [c2 EXCEPT !.lease = "none"]
    BY <2>1, <2>2 DEF Store!Unlocked
  <2> QED BY <2>4, <2>5, ColumnUpdates
<1>5. [Store!Unlocked(c, s) EXCEPT !.retryCount = @ + 1, !.due = d] =
        [status |-> s, lockedBy |-> "nobody", lease |-> "none", due |-> d, retryCount |-> rc + 1]
  <2>1. PICK u : u = Store!Unlocked(c, s)
    OBVIOUS
  <2>2. PICK n : n = rc + 1
    OBVIOUS
  <2>3. PICK c1 : c1 = [u EXCEPT !.retryCount = n]
    OBVIOUS
  <2>4. u = [status |-> s, lockedBy |-> "nobody", lease |-> "none", due |-> du,
             retryCount |-> rc]
    BY <1>4, <2>1
  <2>5. c1 = [status |-> s, lockedBy |-> "nobody", lease |-> "none", due |-> du,
              retryCount |-> n]
    BY <2>3, <2>4, ColumnUpdates
  <2>6. [u EXCEPT !.retryCount = @ + 1, !.due = d] = [c1 EXCEPT !.due = d]
    BY <2>2, <2>3, <2>4
  <2>7. [c1 EXCEPT !.due = d] =
          [status |-> s, lockedBy |-> "nobody", lease |-> "none", due |-> d, retryCount |-> n]
    BY <2>5
  <2> QED BY <2>1, <2>2, <2>6, <2>7
<1> QED BY <1>1, <1>3, <1>4, <1>5

\* The columns of the rows that the statements write.
LEMMA TakenColumn ==
  ASSUME StampInv, NEW r \in StampedRow
  PROVE  ColumnOf(TakenRow(r), now) = Store!Locked(ColumnOf(r, now), "process")
<1> DEFINE c == ColumnOf(r, now)
           q == ColumnOf(TakenRow(r), now)
<1>1. IsColumn(c) /\ IsColumn(q)
  BY ColumnOfFields
<1>2. /\ ~(now + WholeSeconds(VisibilityTimeout) < now)
      /\ now + WholeSeconds(VisibilityTimeout) # Null
  BY WholeSecondsNat DEF StampInv, Null
<1>3. /\ q.status = "Processing" /\ q.lockedBy = "process"
      /\ q.lease = "held" /\ q.retryCount = c.retryCount
  BY <1>2, RowFields DEF ColumnOf
<1>4. q.due = c.due
  BY RowFields DEF ColumnOf
<1> HIDE DEF c, q
<1>5. Store!Locked(c, "process") = [status |-> "Processing", lockedBy |-> "process",
                                    lease |-> "held", due |-> c.due,
                                    retryCount |-> c.retryCount]
  BY <1>1, StatementsOnColumns
<1>6. q = Store!Locked(c, "process")
  BY <1>1, <1>3, <1>4, <1>5 DEF IsColumn
<1> QED BY <1>6 DEF c, q

LEMMA FreedColumn ==
  ASSUME StampInv, NEW r \in StampedRow, NEW s, s # "Processing"
  PROVE  ColumnOf(FreedRow(r, s), now) = Store!Unlocked(ColumnOf(r, now), s)
<1> DEFINE c == ColumnOf(r, now)
           q == ColumnOf(FreedRow(r, s), now)
<1>1. IsColumn(c) /\ IsColumn(q)
  BY ColumnOfFields
<1>2. /\ q.status = s /\ q.lockedBy = "nobody"
      /\ q.lease = "none" /\ q.retryCount = c.retryCount
  BY RowFields DEF ColumnOf
<1>3. q.due = c.due
  BY RowFields DEF ColumnOf
<1> HIDE DEF c, q
<1>4. Store!Unlocked(c, s) = [status |-> s, lockedBy |-> "nobody", lease |-> "none",
                              due |-> c.due, retryCount |-> c.retryCount]
  BY <1>1, StatementsOnColumns
<1>5. q = Store!Unlocked(c, s)
  BY <1>1, <1>2, <1>3, <1>4 DEF IsColumn
<1> QED BY <1>5 DEF c, q

LEMMA RetriedColumn ==
  ASSUME StampInv, NEW r \in StampedRow, NEW at \in Int
  PROVE  ColumnOf(RetriedRow(r, at), now) =
           AfterRetry(ColumnOf(r, now), ColumnOf(RetriedRow(r, at), now).due)
<1> DEFINE c == ColumnOf(r, now)
           q == ColumnOf(RetriedRow(r, at), now)
<1>1. IsColumn(c) /\ IsColumn(q)
  BY ColumnOfFields
<1>2. /\ q.status = "Pending" /\ q.lockedBy = "nobody"
      /\ q.lease = "none" /\ q.retryCount = c.retryCount + 1
  BY RowFields DEF ColumnOf
<1> HIDE DEF c, q
<1>3. [Store!Unlocked(c, "Pending") EXCEPT !.retryCount = @ + 1, !.due = q.due] =
        [status |-> "Pending", lockedBy |-> "nobody", lease |-> "none",
         due |-> q.due, retryCount |-> c.retryCount + 1]
  BY <1>1, StatementsOnColumns
<1>4. AfterRetry(c, q.due) = [status |-> "Pending", lockedBy |-> "nobody", lease |-> "none",
                              due |-> q.due, retryCount |-> c.retryCount + 1]
  BY <1>3 DEF AfterRetry
<1>5. q = AfterRetry(c, q.due)
  BY <1>1, <1>2, <1>4 DEF IsColumn
<1> QED BY <1>5 DEF c, q

\* The store's table, as the timestamps have it.
Columns == [m \in Message |-> Column(m)]

LEMMA ColumnsAre ==
  /\ Columns = [m \in Message |-> Column(m)]
  /\ Columns' = [m \in Message |-> Column(m)']
BY DEF Columns

\* Writing a row at the end of a job is giving the lock up.
LEMMA WriteGivesUp ==
  ASSUME StampInv, NEW m \in Message, NEW r \in StampedRow, Write(m, r), now' = now
  PROVE  Store!GiveUp("process", m, ColumnOf(r, now))
<1>1. Store!Owns("process", m) <=> table[m].status = "Processing"
  BY DEF Store!Owns, Column
<1>2. CASE table[m].status = "Processing"
  <2>1. table' = [table EXCEPT ![m] = r]
    BY <1>2 DEF Write
  <2>2. \A n \in Message : Column(n)' = IF n = m THEN ColumnOf(r, now) ELSE Column(n)
    BY <2>1, ColumnIs DEF StampInv
  <2>3. Columns' = [Columns EXCEPT ![m] = ColumnOf(r, now)]
    BY <2>2, ColumnsAre
  <2> QED BY <1>1, <1>2, <2>3 DEF Store!GiveUp, Columns
<1>3. CASE table[m].status # "Processing"
  <2>1. table' = table
    BY <1>3 DEF Write
  <2>2. \A n \in Message : Column(n)' = Column(n)
    BY <2>1, ColumnIs
  <2>3. Columns' = Columns
    BY <2>2, ColumnsAre
  <2> QED BY <1>1, <1>3, <2>3 DEF Store!GiveUp, Columns
<1> QED BY <1>2, <1>3

LEMMA ColumnOfRow == ASSUME NEW m \in Message PROVE Columns[m] = Column(m)
BY DEF Columns

\* The end of a job is a statement of the store.
LEMMA JobEndsInStore ==
  ASSUME StampInv, NEW w \in Invocation, NEW m \in Message, FinishJob(w, m)
  PROVE  Store!StoreStep \/ RetryDueAtOnce(m)
<1> DEFINE r == table[m]
<1>0. now' = now /\ r \in StampedRow /\ Column(m) = ColumnOf(r, now)
  BY ColumnIs DEF FinishJob, StampInv
<1>1. \/ Write(m, FreedRow(r, "Delivered"))
      \/ \E d \in Int : Write(m, RetriedRow(r, AppNow + d))
      \/ Write(m, FreedRow(r, "DeadLettered"))
  <2>1. \A n : NextDelays(n) \subseteq Int
    BY DEF NextDelays
  <2> QED BY <2>1 DEF FinishJob, FreedRow, RetriedRow
<1>2. CASE Write(m, FreedRow(r, "Delivered"))
  <2>1. Store!GiveUp("process", m, Store!Unlocked(Column(m), "Delivered"))
    BY <1>0, <1>2, RowsKeepType, FreedColumn, WriteGivesUp
  <2>2. Store!MarkAsProcessed("process", m)
    BY <2>1, ColumnOfRow DEF Store!MarkAsProcessed, Columns
  <2> QED BY <2>2 DEF Store!StoreStep, Store!OwnerStep
<1>3. CASE Write(m, FreedRow(r, "DeadLettered"))
  <2>1. Store!GiveUp("process", m, Store!Unlocked(Column(m), "DeadLettered"))
    BY <1>0, <1>3, RowsKeepType, FreedColumn, WriteGivesUp
  <2>2. Store!MarkAsDeadLettered("process", m)
    BY <2>1, ColumnOfRow DEF Store!MarkAsDeadLettered, Columns
  <2> QED BY <2>2 DEF Store!StoreStep, Store!OwnerStep
<1>4. ASSUME NEW d \in Int, Write(m, RetriedRow(r, AppNow + d))
      PROVE  Store!StoreStep \/ RetryDueAtOnce(m)
  <2> DEFINE at == AppNow + d
             due == ColumnOf(RetriedRow(r, at), now).due
             c == AfterRetry(Column(m), due)
  <2>1. at \in Int
    BY DEF AppNow, StampInv
  <2>2. RetriedRow(r, at) \in StampedRow /\ ColumnOf(RetriedRow(r, at), now) = c
    BY <1>0, <2>1, RowsKeepType, RetriedColumn
  <2>3. Store!GiveUp("process", m, c)
    BY <1>0, <1>4, <2>2, WriteGivesUp
  <2>4. due \in BOOLEAN
    BY DEF ColumnOf
  <2> HIDE DEF due
  <2>5. CASE ~due
    <3>1. due = FALSE
      BY <2>4, <2>5
    <3>2. Store!GiveUp("process", m, AfterRetry(Column(m), FALSE))
      BY <2>3, <3>1
    <3>3. Store!IncrementRetry("process", m)
      BY <3>2, ColumnOfRow DEF Store!IncrementRetry, Columns, AfterRetry
    <3> QED BY <3>3 DEF Store!StoreStep, Store!RetryStep
  <2>6. CASE due /\ r.status = "Processing"
    <3>1. table' = [table EXCEPT ![m] = RetriedRow(r, at)]
      BY <1>4, <2>6 DEF Write
    <3>2. \A n \in Message : Column(n)' = IF n = m THEN c ELSE Column(n)
      BY <1>0, <2>2, <3>1, ColumnIs DEF StampInv
    <3>3. due = TRUE
      BY <2>4, <2>6
    <3>4. c = [Store!Unlocked(Column(m), "Pending") EXCEPT !.retryCount = @ + 1, !.due = TRUE]
      BY <3>3 DEF AfterRetry
    <3> QED BY <2>6, <3>2, <3>4 DEF RetryDueAtOnce
  <2>7. CASE r.status # "Processing"
    <3>1. Store!GiveUp("process", m, Store!Unlocked(Column(m), "Delivered"))
      BY <2>3, <2>7 DEF Store!GiveUp, Store!Owns, Column
    <3>2. Store!MarkAsProcessed("process", m)
      BY <3>1, ColumnOfRow DEF Store!MarkAsProcessed, Columns
    <3> QED BY <3>2 DEF Store!StoreStep, Store!OwnerStep
  <2> QED BY <2>5, <2>6, <2>7
<1> QED BY <1>1, <1>2, <1>3, <1>4

LEMMA LockInStore ==
  ASSUME StampInv, NEW w \in Invocation, LockBatch(w)
  PROVE  Store!StoreStep
<1>1. PICK batch \in SUBSET Eligible :
        /\ Cardinality(batch) <= BatchSize
        /\ batch # Eligible => Cardinality(batch) = BatchSize
        /\ table' = [m \in Message |-> IF m \in batch THEN TakenRow(table[m]) ELSE table[m]]
        /\ now' = now
  BY DEF LockBatch, TakenRow
<1>2. Store!Eligible("process", {}) = Eligible
  <2>1. \A m \in Message : Store!LockableByScan(Column(m)) <=> Lockable(table[m])
    BY DEF Store!LockableByScan, Column, Lockable
  <2>2. \A m \in Message : ~Store!PartitionBusy(m)
    BY DEF Store!PartitionBusy
  <2> QED BY <2>1, <2>2 DEF Store!Eligible, Eligible
<1>3. Store!IsOldestOf(batch, Store!Eligible("process", {}))
  <2>1. batch \subseteq Eligible /\ Eligible \subseteq Message
    BY DEF Eligible
  <2>2. \A m \in batch, n \in Eligible \ batch :
          [x \in Message |-> 0][m] <= [x \in Message |-> 0][n]
    BY <2>1
  <2>3. Store!IsOldestOf(batch, Eligible)
    <3>1. Store!Cardinality(batch) = Cardinality(batch)
      BY Zenon DEF Cardinality, Store!Cardinality
    <3> QED BY <1>1, <2>1, <2>2, <3>1 DEF Store!IsOldestOf
  <2> QED BY <1>2, <2>3
<1>4. \A m \in Message :
        Column(m)' = IF m \in batch THEN Store!Locked(Column(m), "process") ELSE Column(m)
  <2> TAKE m \in Message
  <2>1. table[m] \in StampedRow
    BY DEF StampInv
  <2>2. ColumnOf(TakenRow(table[m]), now) = Store!Locked(ColumnOf(table[m], now), "process")
    BY <2>1, TakenColumn
  <2> QED BY <1>1, <2>2, ColumnIs
<1>5. Store!LockNextBatch("process", {}, batch)
  BY <1>3, <1>4 DEF Store!LockNextBatch
<1>6. batch \subseteq Message
  BY DEF Eligible
<1> QED BY <1>5, <1>6 DEF Store!StoreStep, Store!LockStep

LEMMA ReleaseInStore ==
  ASSUME StampInv, NEW w \in Invocation, ReleaseExpiredLocks(w)
  PROVE  Store!StoreStep
<1>1. /\ now' = now
      /\ table' = [m \in Message |->
           IF m \in ExpiredLocks THEN FreedRow(table[m], "Pending") ELSE table[m]]
  BY DEF ReleaseExpiredLocks, FreedRow
<1>2. Store!ExpiredLocks = ExpiredLocks
  BY DEF Store!ExpiredLocks, ExpiredLocks, Column, StampInv, Null
<1>3. \A m \in Message :
        Column(m)' = IF m \in ExpiredLocks THEN Store!Unlocked(Column(m), "Pending") ELSE Column(m)
  <2> TAKE m \in Message
  <2>1. table[m] \in StampedRow
    BY DEF StampInv
  <2>2. ColumnOf(FreedRow(table[m], "Pending"), now) =
          Store!Unlocked(ColumnOf(table[m], now), "Pending")
    BY <2>1, FreedColumn
  <2> QED BY <1>1, <2>2, ColumnIs
<1>4. Store!ReleaseExpiredLocks
  BY <1>2, <1>3 DEF Store!ReleaseExpiredLocks
<1> QED BY <1>4 DEF Store!StoreStep, Store!MaintenanceStep

LEMMA TickPasses ==
  ASSUME StampInv, Tick
  PROVE  InstantsPass
<1> SUFFICES ASSUME NEW m \in Message
             PROVE  Column(m)' \in {Column(m), [Column(m) EXCEPT !.lease = "expired"],
                                     [Column(m) EXCEPT !.due = TRUE],
                                     [Column(m) EXCEPT !.lease = "expired", !.due = TRUE]}
  BY DEF InstantsPass
<1> DEFINE r == table[m]
           c == ColumnOf(r, now)
           d == ColumnOf(r, now + 1)
<1>1. Column(m) = c /\ Column(m)' = d
  BY ColumnIs DEF Tick
<1>2. /\ d.status = c.status /\ d.lockedBy = c.lockedBy /\ d.retryCount = c.retryCount
      /\ d.lease = c.lease \/ d.lease = "expired"
      /\ d.due = c.due \/ d.due = TRUE
  <2>1. r \in StampedRow /\ now \in Nat
    BY DEF StampInv
  <2>2. d.status = c.status /\ d.lockedBy = c.lockedBy /\ d.retryCount = c.retryCount
    BY DEF ColumnOf
  <2>3. d.lease = c.lease \/ d.lease = "expired"
    BY <2>1 DEF ColumnOf, StampedRow
  <2>4. d.due \in BOOLEAN /\ c.due \in BOOLEAN
    BY DEF ColumnOf
  <2>5. CASE r.nextRetryAt = Null \/ r.nextRetryAt <= now
    <3>1. r.nextRetryAt = Null \/ r.nextRetryAt <= now + 1
      BY <2>1, <2>5 DEF StampedRow, Null
    <3>2. d.due
      BY <3>1 DEF ColumnOf
    <3> HIDE DEF c, d
    <3> QED BY <2>2, <2>3, <2>4, <3>2
  <2>6. CASE ~(r.nextRetryAt = Null \/ r.nextRetryAt <= now)
    <3>1. ~c.due
      BY <2>6 DEF ColumnOf
    <3> HIDE DEF c, d
    <3> QED BY <2>2, <2>3, <2>4, <3>1
  <2> QED BY <2>5, <2>6
<1>3. IsColumn(c) /\ IsColumn(d)
  BY ColumnOfFields
<1> HIDE DEF c, d
<1>4. PICK st, lb, le, du, rc :
        c = [status |-> st, lockedBy |-> lb, lease |-> le, due |-> du, retryCount |-> rc]
  BY <1>3 DEF IsColumn
<1>5. PICK e : e = [c EXCEPT !.lease = "expired"]
  OBVIOUS
<1>6. e = [status |-> st, lockedBy |-> lb, lease |-> "expired", due |-> du, retryCount |-> rc]
  BY <1>4, <1>5
<1>0. PICK yes : yes = TRUE
  OBVIOUS
<1>7. [c EXCEPT !.due = yes] =
        [status |-> st, lockedBy |-> lb, lease |-> le, due |-> yes, retryCount |-> rc]
  BY <1>4
<1>8. [e EXCEPT !.due = yes] =
        [status |-> st, lockedBy |-> lb, lease |-> "expired", due |-> yes, retryCount |-> rc]
  BY <1>6
<1>9. /\ c.status = st /\ c.lockedBy = lb /\ c.lease = le /\ c.due = du
      /\ c.retryCount = rc
  BY <1>4
<1>10. d = [status |-> st, lockedBy |-> lb, lease |-> d.lease, due |-> d.due, retryCount |-> rc]
  BY <1>2, <1>3, <1>9 DEF IsColumn
<1>11. d = c \/ d = e \/ d = [c EXCEPT !.due = yes] \/ d = [e EXCEPT !.due = yes]
  <2>1. CASE d.lease = c.lease /\ d.due = c.due
    BY <2>1, <1>4, <1>9, <1>10
  <2>2. CASE d.lease = "expired" /\ d.due = c.due
    BY <2>2, <1>6, <1>9, <1>10
  <2>3. CASE d.lease = c.lease /\ d.due = yes
    BY <2>3, <1>7, <1>9, <1>10
  <2>4. CASE d.lease = "expired" /\ d.due = yes
    BY <2>4, <1>8, <1>10
  <2> QED BY <1>0, <1>2, <2>1, <2>2, <2>3, <2>4
<1> QED BY <1>0, <1>1, <1>5, <1>11

StampedStep == Store!StoreStep \/ InstantsPass \/ \E m \in Message : RetryDueAtOnce(m)

\* Every step of the timestamps is a step of the store, or leaves them alone.
LEMMA StepsInStore ==
  ASSUME StampInv, Next
  PROVE  StampedStep \/ UNCHANGED <<table, now>>
<1>1. ASSUME NEW w \in Invocation, CallStep(w)
      PROVE  StampedStep \/ UNCHANGED <<table, now>>
  <2>1. \/ ReleaseExpiredLocks(w) \/ LockBatch(w)
        \/ UNCHANGED <<table, now>>
    BY <1>1 DEF CallStep, ReadClock, ReadLast, CompareExchange
  <2> QED BY <2>1, LockInStore, ReleaseInStore DEF StampedStep
<1>2. ASSUME NEW w \in Invocation, NEW m \in Message, JobStep(w, m)
      PROVE  StampedStep \/ UNCHANGED <<table, now>>
  <2>1. FinishJob(w, m) \/ UNCHANGED <<table, now>>
    BY <1>2 DEF JobStep, StartJob, EndDelivery
  <2> QED BY <2>1, JobEndsInStore DEF StampedStep
<1>3. CASE Tick
  BY <1>3, TickPasses DEF StampedStep
<1>4. CASE Stop
  BY <1>4 DEF Stop
<1> QED BY <1>1, <1>2, <1>3, <1>4 DEF Next

\* A row that a job writes, or leaves.
LEMMA WriteKeepsStamps ==
  ASSUME StampInv, NEW m \in Message, NEW r \in StampedRow, Write(m, r),
         r.status # "Processing"
  PROVE  /\ table' \in [Message -> StampedRow]
         /\ \A n \in Message : table'[n].status = "Processing" => table'[n].lockedUntil \in Nat
BY DEF Write, StampInv

LEMMA StampInvInit == Init => StampInv
BY DEF Init, StampInv, StampedRow, Null

LEMMA StampInvStep ==
  ASSUME StampInv, [Next]_vars
  PROVE  StampInv'
<1> DEFINE Stamped ==
      /\ table' \in [Message -> StampedRow]
      /\ \A m \in Message : table'[m].status = "Processing" => table'[m].lockedUntil \in Nat
<1>1. ASSUME NEW w \in Invocation, LockBatch(w)
      PROVE  Stamped
  <2>1. PICK batch \in SUBSET Message :
          table' = [m \in Message |-> IF m \in batch THEN TakenRow(table[m]) ELSE table[m]]
    BY <1>1 DEF LockBatch, TakenRow, Eligible
  <2>2. \A r \in StampedRow : TakenRow(r) \in StampedRow
    <3> TAKE r \in StampedRow
    <3>1. 0 \in Int
      OBVIOUS
    <3> QED BY <3>1, RowsKeepType
  <2>3. \A r \in StampedRow : TakenRow(r).lockedUntil \in Nat
    <3> TAKE r \in StampedRow
    <3>1. 0 \in Int
      OBVIOUS
    <3>2. TakenRow(r).lockedUntil = now + WholeSeconds(VisibilityTimeout)
      BY <3>1, RowFields
    <3> QED BY <3>2, WholeSecondsNat DEF StampInv
  <2> QED BY <2>1, <2>2, <2>3 DEF StampInv
<1>2. ASSUME NEW w \in Invocation, ReleaseExpiredLocks(w)
      PROVE  Stamped
  <2>1. table' = [m \in Message |->
          IF m \in ExpiredLocks THEN FreedRow(table[m], "Pending") ELSE table[m]]
    BY <1>2 DEF ReleaseExpiredLocks, FreedRow
  <2>2. \A r \in StampedRow :
          FreedRow(r, "Pending") \in StampedRow /\ FreedRow(r, "Pending").status = "Pending"
    <3> TAKE r \in StampedRow
    <3>1. 0 \in Int
      OBVIOUS
    <3> QED BY <3>1, RowsKeepType, RowFields
  <2> QED BY <2>1, <2>2 DEF StampInv
<1>3. ASSUME NEW w \in Invocation, NEW m \in Message, FinishJob(w, m)
      PROVE  Stamped
  <2> DEFINE r == table[m]
  <2>1. r \in StampedRow
    BY DEF StampInv
  <2>2. \/ Write(m, FreedRow(r, "Delivered"))
        \/ \E d \in Int : Write(m, RetriedRow(r, AppNow + d))
        \/ Write(m, FreedRow(r, "DeadLettered"))
    <3>1. \A n : NextDelays(n) \subseteq Int
      BY DEF NextDelays
    <3> QED BY <1>3, <3>1 DEF FinishJob, FreedRow, RetriedRow
  <2>3. ASSUME NEW at \in Int
        PROVE  /\ FreedRow(r, "Delivered") \in StampedRow
               /\ FreedRow(r, "Delivered").status # "Processing"
               /\ FreedRow(r, "DeadLettered") \in StampedRow
               /\ FreedRow(r, "DeadLettered").status # "Processing"
               /\ RetriedRow(r, at) \in StampedRow
               /\ RetriedRow(r, at).status # "Processing"
    BY <2>1, RowsKeepType, RowFields
  <2>4. \A d \in Int : AppNow + d \in Int
    BY DEF AppNow, StampInv
  <2> HIDE DEF r
  <2>5. 0 \in Int
    OBVIOUS
  <2> QED BY <2>2, <2>3, <2>4, <2>5, WriteKeepsStamps
<1>4. ASSUME UNCHANGED table
      PROVE  Stamped
  BY <1>4 DEF StampInv
<1>5. /\ \/ \E w \in Invocation : LockBatch(w) \/ ReleaseExpiredLocks(w)
         \/ \E w \in Invocation, m \in Message : FinishJob(w, m)
         \/ UNCHANGED table
      /\ now' \in {now, now + 1} /\ skew' = skew
  <2>1. ASSUME NEW w \in Invocation, CallStep(w)
        PROVE  /\ LockBatch(w) \/ ReleaseExpiredLocks(w) \/ UNCHANGED table
               /\ now' = now /\ skew' = skew
    BY <2>1 DEF CallStep, ReadClock, ReadLast, CompareExchange, ReleaseExpiredLocks, LockBatch
  <2>2. ASSUME NEW w \in Invocation, NEW m \in Message, JobStep(w, m)
        PROVE  /\ FinishJob(w, m) \/ UNCHANGED table
               /\ now' = now /\ skew' = skew
    BY <2>2 DEF JobStep, StartJob, EndDelivery, FinishJob
  <2>3. CASE Tick \/ Stop \/ UNCHANGED vars
    BY <2>3 DEF Tick, Stop, vars
  <2> QED BY <2>1, <2>2, <2>3 DEF Next
<1>6. Stamped
  <2> HIDE DEF Stamped
  <2> QED BY <1>1, <1>2, <1>3, <1>4, <1>5
<1>7. now' \in Nat /\ skew' \in Int
  BY <1>5 DEF StampInv
<1> QED BY <1>6, <1>7 DEF StampInv

LEMMA StampInvariant == Spec => []StampInv
BY StampInvInit, StampInvStep, PTL DEF Spec

\* OutboxStore's view of time is sound: with LockedUntil and NextRetryAt as instants
\* on the clocks of two machines, every statement of the processor is a statement of
\* OutboxStore on "held" and "expired", due and not, and a tick only expires locks
\* and lets retries fall due.
THEOREM InstantsImplementStore == Spec => TimestampsImplementStore
<1>1. StampInv /\ [Next]_vars => [StampedStep]_<<table, now>>
  BY StepsInStore DEF vars
<1> QED BY <1>1, StampInvariant, PTL DEF Spec, TimestampsImplementStore, StampedStep

-----------------------------------------------------------------------------
(* How long a retry waits *)

\* What a job is, whatever its bounds.
LooseJob == [phase : {"none", "queued", "running"}, retryCount : Nat, left : Nat,
             flight : [Worker -> Int]]

JobsOK == job \in [Invocation -> [Message -> LooseJob]]

\* A row and the failure it waits after: a batch that takes the row forgets the
\* failure, and a row that waits is due when the delay has passed, no sooner and no
\* later than jitter on top of MaxDelay allows.
Waits(r, f) ==
  /\ r.status = "Processing" => f = NoFailure
  /\ r.status = "Pending" /\ f # NoFailure =>
       /\ 100 * (r.nextRetryAt - (f.at + skew)) >= Capped(f.retryCount) * (100 - JitterPercent)
       /\ 100 * (r.nextRetryAt - (f.at + skew)) <= MaxDelay * (100 + JitterPercent)
       /\ r.lockedUntil = Null

WaitInv ==
  /\ JobsOK
  /\ failed \in [Message -> [at : Int, retryCount : Nat]]
  /\ \A m \in Message : Waits(table[m], failed[m])

\* The fields of the jobs that the steps make.
LEMMA JobFields ==
  ASSUME NEW j \in LooseJob, NEW s \in Worker, NEW f \in [Worker -> Int]
  PROVE  /\ Launch(j) \in LooseJob /\ Launch(j).phase = "running"
         /\ Launch(j).retryCount = j.retryCount
         /\ Launch(j).left = IF j.left < MaxConcurrentSubscriptionDeliveries THEN 0
                             ELSE j.left - MaxConcurrentSubscriptionDeliveries
         /\ Launch(j).flight = [x \in Worker |-> IF x <= j.left THEN 0 ELSE Free]
         /\ TakeNext(j, s) \in LooseJob /\ TakeNext(j, s).phase = j.phase
         /\ TakeNext(j, s).retryCount = j.retryCount
         /\ TakeNext(j, s).left = IF j.left = 0 THEN 0 ELSE j.left - 1
         /\ TakeNext(j, s).flight = [j.flight EXCEPT ![s] = IF j.left = 0 THEN Free ELSE 0]
         /\ [j EXCEPT !.flight = f] \in LooseJob /\ [j EXCEPT !.flight = f].flight = f
         /\ [j EXCEPT !.flight = f].phase = j.phase /\ [j EXCEPT !.flight = f].left = j.left
         /\ [j EXCEPT !.flight = f].retryCount = j.retryCount
<1>1. Free \in Int
  BY DEF Free
<1>2. /\ Launch(j) \in LooseJob /\ Launch(j).phase = "running"
      /\ Launch(j).retryCount = j.retryCount
      /\ Launch(j).left = IF j.left < MaxConcurrentSubscriptionDeliveries THEN 0
                          ELSE j.left - MaxConcurrentSubscriptionDeliveries
      /\ Launch(j).flight = [x \in Worker |-> IF x <= j.left THEN 0 ELSE Free]
  <2>1. PICK y : y = IF j.left < MaxConcurrentSubscriptionDeliveries THEN 0
                     ELSE j.left - MaxConcurrentSubscriptionDeliveries
    OBVIOUS
  <2>2. PICK g : g = [x \in Worker |-> IF x <= j.left THEN 0 ELSE Free]
    OBVIOUS
  <2>3. y \in Nat /\ g \in [Worker -> Int]
    BY <1>1, <2>1, <2>2 DEF LooseJob, TimingAssumption
  <2>4. PICK a : a = [j EXCEPT !.phase = "running"]
    OBVIOUS
  <2>5. PICK b : b = [a EXCEPT !.left = y]
    OBVIOUS
  <2>6. Launch(j) = [b EXCEPT !.flight = g]
    BY <2>1, <2>2, <2>4, <2>5 DEF Launch
  <2>7. a \in LooseJob /\ a.phase = "running" /\ a.retryCount = j.retryCount
    BY <2>4 DEF LooseJob
  <2>8. b \in LooseJob /\ b.phase = "running" /\ b.retryCount = j.retryCount /\ b.left = y
    BY <2>3, <2>5, <2>7 DEF LooseJob
  <2>9. [b EXCEPT !.flight = g] \in LooseJob /\ [b EXCEPT !.flight = g].phase = "running"
        /\ [b EXCEPT !.flight = g].retryCount = j.retryCount
        /\ [b EXCEPT !.flight = g].left = y /\ [b EXCEPT !.flight = g].flight = g
    BY <2>3, <2>8 DEF LooseJob
  <2> QED BY <2>1, <2>2, <2>6, <2>9
<1>3. /\ [j EXCEPT !.flight = f] \in LooseJob /\ [j EXCEPT !.flight = f].flight = f
      /\ [j EXCEPT !.flight = f].phase = j.phase /\ [j EXCEPT !.flight = f].left = j.left
      /\ [j EXCEPT !.flight = f].retryCount = j.retryCount
  BY DEF LooseJob
<1>4. /\ TakeNext(j, s) \in LooseJob /\ TakeNext(j, s).phase = j.phase
      /\ TakeNext(j, s).retryCount = j.retryCount
      /\ TakeNext(j, s).left = IF j.left = 0 THEN 0 ELSE j.left - 1
      /\ TakeNext(j, s).flight = [j.flight EXCEPT ![s] = IF j.left = 0 THEN Free ELSE 0]
  <2>1. CASE j.left = 0
    <3>1. TakeNext(j, s) = [j EXCEPT !.flight[s] = Free]
      BY <2>1 DEF TakeNext
    <3> QED BY <1>1, <2>1, <3>1 DEF LooseJob
  <2>2. CASE j.left # 0
    <3>1. PICK g : g = [j.flight EXCEPT ![s] = 0]
      OBVIOUS
    <3>2. PICK y : y = j.left - 1
      OBVIOUS
    <3>3. PICK a : a = [j EXCEPT !.flight = g]
      OBVIOUS
    <3>4. TakeNext(j, s) = [a EXCEPT !.left = y]
      BY <2>2, <3>1, <3>2, <3>3 DEF TakeNext
    <3>5. g \in [Worker -> Int] /\ y \in Nat
      BY <2>2, <3>1, <3>2 DEF LooseJob
    <3>6. a \in LooseJob /\ a.phase = j.phase /\ a.retryCount = j.retryCount /\ a.flight = g
      BY <3>3, <3>5 DEF LooseJob
    <3>7. /\ [a EXCEPT !.left = y] \in LooseJob /\ [a EXCEPT !.left = y].phase = a.phase
          /\ [a EXCEPT !.left = y].retryCount = a.retryCount
          /\ [a EXCEPT !.left = y].left = y /\ [a EXCEPT !.left = y].flight = a.flight
      BY <3>5, <3>6 DEF LooseJob
    <3> QED BY <2>2, <3>1, <3>2, <3>4, <3>6, <3>7
  <2> QED BY <2>1, <2>2
<1> QED BY <1>2, <1>3, <1>4

LEMMA JobPhases ==
  ASSUME NEW j \in LooseJob, NEW s \in Worker
  PROVE  Launch(j).phase = "running" /\ TakeNext(j, s).phase = j.phase
<1>1. PICK f : f = [x \in Worker |-> 0]
  OBVIOUS
<1>2. f \in [Worker -> Int]
  BY <1>1
<1> QED BY <1>2, JobFields

\* Multiplication, for provers that do little of it.
LEMMA TimesMono ==
  ASSUME NEW a \in Int, NEW b \in Int, NEW d \in Nat, a <= b
  PROVE  a * d <= b * d /\ a * d \in Int /\ b * d \in Int
OBVIOUS

\* The bounds of the delays are numbers, and the cap bounds what jitter makes of it.
LEMMA BoundIsInt ==
  ASSUME NEW n \in Nat
  PROVE  /\ Capped(n) * (100 - JitterPercent) \in Int
         /\ Capped(n) * (100 + JitterPercent) \in Int
         /\ MaxDelay * (100 + JitterPercent) \in Int
         /\ Capped(n) * (100 + JitterPercent) <= MaxDelay * (100 + JitterPercent)
<1>1. 2^n \in Int
  OBVIOUS
<1>2. \A x \in Int : BaseDelay * x \in Int
  BY DEF TimingAssumption
<1>3. Capped(n) \in Int
  BY <1>1, <1>2 DEF TimingAssumption, Capped
<1>4. \A x, y \in Int : x * y \in Int
  OBVIOUS
<1>5. Capped(n) <= MaxDelay /\ MaxDelay \in Int /\ 100 + JitterPercent \in Nat
  BY <1>1, <1>2 DEF TimingAssumption, Capped
<1>6. Capped(n) * (100 + JitterPercent) <= MaxDelay * (100 + JitterPercent)
  BY <1>3, <1>5, TimesMono
<1> QED BY <1>3, <1>4, <1>5, <1>6 DEF TimingAssumption

\* A job a tick later.
Aged(j) ==
  [j EXCEPT !.flight = [s \in Worker |-> IF @[s] = Free THEN Free ELSE @[s] + 1]]

LEMMA AgedFields ==
  ASSUME NEW j \in LooseJob
  PROVE  /\ Aged(j) \in LooseJob /\ Aged(j).phase = j.phase /\ Aged(j).left = j.left
         /\ \A s \in Worker :
              Aged(j).flight[s] = IF j.flight[s] = Free THEN Free ELSE j.flight[s] + 1
<1> DEFINE f == [s \in Worker |-> IF j.flight[s] = Free THEN Free ELSE j.flight[s] + 1]
<1>1. f \in [Worker -> Int] /\ 1 \in Worker
  <2>1. j.flight \in [Worker -> Int] /\ Free \in Int
    BY DEF LooseJob, Free
  <2>2. f \in [Worker -> Int]
    BY <2>1
  <2>3. 1 \in Worker
    BY DEF Worker, TimingAssumption
  <2> QED BY <2>2, <2>3
<1>2. Aged(j) = [j EXCEPT !.flight = f]
  BY DEF Aged
<1>3. \A s \in Worker : f[s] = IF j.flight[s] = Free THEN Free ELSE j.flight[s] + 1
  OBVIOUS
<1> HIDE DEF f
<1>4. /\ [j EXCEPT !.flight = f] \in LooseJob /\ [j EXCEPT !.flight = f].flight = f
      /\ [j EXCEPT !.flight = f].phase = j.phase /\ [j EXCEPT !.flight = f].left = j.left
  BY <1>1, JobFields
<1> QED BY <1>2, <1>3, <1>4

LEMMA NoJobFits == NoJob \in LooseJob
BY DEF NoJob, LooseJob, Free

\* A job as a batch makes it.
QueuedJob(m) ==
  [NoJob EXCEPT !.phase = "queued", !.retryCount = table[m].retryCount, !.left = Subscriptions]

LEMMA QueuedFits ==
  ASSUME StampInv, NEW m \in Message
  PROVE  /\ QueuedJob(m) \in LooseJob /\ QueuedJob(m).phase = "queued"
         /\ QueuedJob(m).left = Subscriptions
<1>1. table[m].retryCount \in Nat /\ Subscriptions \in Nat
  BY DEF StampInv, StampedRow, TimingAssumption
<1> QED BY <1>1, NoJobFits DEF QueuedJob, LooseJob

LEMMA JobsStep ==
  ASSUME JobsOK, StampInv, Next
  PROVE  JobsOK'
<1>1. ASSUME NEW w \in Invocation, LockBatch(w) PROVE JobsOK'
  <2>1. PICK batch \in SUBSET Message :
          job' = [job EXCEPT ![w] = [m \in Message |->
                    IF m \in batch THEN QueuedJob(m) ELSE NoJob]]
    BY <1>1 DEF LockBatch, Eligible, QueuedJob
  <2> QED BY <2>1, NoJobFits, QueuedFits DEF JobsOK
<1>2. ASSUME NEW w \in Invocation, NEW m \in Message, JobStep(w, m) PROVE JobsOK'
  <2>1. \E j \in LooseJob : job' = [job EXCEPT ![w][m] = j]
    <3> DEFINE j == job[w][m]
    <3>0. j \in LooseJob
      BY DEF JobsOK
    <3>1. CASE StartJob(w, m)
      <4>1. 1 \in Worker /\ [x \in Worker |-> 0] \in [Worker -> Int]
        BY DEF Worker, TimingAssumption
      <4>2. Launch(j) \in LooseJob
        BY <3>0, <4>1, JobFields
      <4> QED BY <3>1, <4>2 DEF StartJob
    <3>2. CASE FinishJob(w, m)
      BY <3>2, NoJobFits DEF FinishJob
    <3>3. ASSUME NEW s \in Worker, EndDelivery(w, m, s)
          PROVE  \E i \in LooseJob : job' = [job EXCEPT ![w][m] = i]
      <4>1. [x \in Worker |-> 0] \in [Worker -> Int]
        OBVIOUS
      <4>2. TakeNext(j, s) \in LooseJob
        BY <3>0, <4>1, JobFields
      <4> QED BY <3>3, <4>2 DEF EndDelivery
    <3> QED BY <1>2, <3>1, <3>2, <3>3 DEF JobStep
  <2> QED BY <2>1 DEF JobsOK
<1>3. CASE Tick
  <2>1. ASSUME NEW w \in Invocation, NEW m \in Message PROVE Aged(job[w][m]) \in LooseJob
    BY AgedFields DEF JobsOK
  <2> QED BY <1>3, <2>1 DEF Tick, JobsOK, Aged
<1>4. CASE Stop
  BY <1>4, NoJobFits DEF Stop, JobsOK
<1>5. ASSUME UNCHANGED job PROVE JobsOK'
  BY <1>5 DEF JobsOK
<1> QED BY <1>1, <1>2, <1>3, <1>4, <1>5
        DEF Next, CallStep, ReadClock, ReadLast, CompareExchange, ReleaseExpiredLocks

\* What an invocation does to the row of one message and to the failure it waits after.
RowStep(m) ==
  \/ table'[m] = table[m] /\ failed'[m] = failed[m]
  \/ table'[m] = TakenRow(table[m]) /\ failed'[m] = NoFailure /\ Lockable(table[m])
  \/ /\ \E s \in {"Pending", "Delivered", "DeadLettered"} : table'[m] = FreedRow(table[m], s)
     /\ failed'[m] = failed[m] /\ table[m].status = "Processing"
  \/ \E n \in Nat : \E d \in NextDelays(n) :
       /\ table'[m] = RetriedRow(table[m], AppNow + d)
       /\ failed'[m] = [at |-> now, retryCount |-> n]

LEMMA JobEndsARow ==
  ASSUME WaitInv, StampInv, NEW w \in Invocation, NEW m \in Message, FinishJob(w, m),
         NEW x \in Message
  PROVE  RowStep(x)
<1> DEFINE n == job[w][m].retryCount
           r == table[m]
<1>0. n \in Nat /\ DOMAIN table = Message /\ DOMAIN failed = Message
  BY DEF WaitInv, StampInv, JobsOK, LooseJob
<1>1. CASE r.status # "Processing"
  BY <1>1 DEF FinishJob, Write, RowStep
<1>2. CASE Write(m, FreedRow(r, "Delivered")) /\ UNCHANGED failed /\ r.status = "Processing"
  BY <1>0, <1>2 DEF Write, RowStep
<1>3. CASE Write(m, FreedRow(r, "DeadLettered")) /\ UNCHANGED failed /\ r.status = "Processing"
  BY <1>0, <1>3 DEF Write, RowStep
<1>4. ASSUME NEW d \in NextDelays(n), Write(m, RetriedRow(r, AppNow + d)),
             r.status = "Processing",
             failed' = [failed EXCEPT ![m] = [at |-> now, retryCount |-> n]]
      PROVE  RowStep(x)
  <2>1. table' = [table EXCEPT ![m] = RetriedRow(r, AppNow + d)]
    BY <1>4 DEF Write
  <2> HIDE DEF n
  <2> QED BY <1>0, <1>4, <2>1 DEF RowStep
<1> HIDE DEF n
<1>5. \/ Write(m, FreedRow(r, "Delivered")) /\ UNCHANGED failed
      \/ Write(m, FreedRow(r, "DeadLettered")) /\ UNCHANGED failed
      \/ /\ \E d \in NextDelays(n) : Write(m, RetriedRow(r, AppNow + d))
         /\ failed' = IF r.status = "Processing"
                      THEN [failed EXCEPT ![m] = [at |-> now, retryCount |-> n]] ELSE failed
  BY DEF FinishJob, FreedRow, RetriedRow, n
<1> QED BY <1>1, <1>2, <1>3, <1>4, <1>5

LEMMA FailureTypes ==
  ASSUME WaitInv, StampInv, Next
  PROVE  failed' \in [Message -> [at : Int, retryCount : Nat]]
<1> DEFINE F == [at : Int, retryCount : Nat]
<1>0. failed \in [Message -> F] /\ now \in Int
  BY DEF WaitInv, StampInv
<1>1. ASSUME NEW w \in Invocation, LockBatch(w) PROVE failed' \in [Message -> F]
  <2>1. NoFailure \in F
    BY DEF NoFailure, Null
  <2> QED BY <1>0, <1>1, <2>1 DEF LockBatch
<1>2. ASSUME NEW w \in Invocation, NEW n \in Message, FinishJob(w, n)
      PROVE  failed' \in [Message -> F]
  <2>1. \/ failed' = failed
        \/ failed' = [failed EXCEPT ![n] = [at |-> now, retryCount |-> job[w][n].retryCount]]
    BY <1>2 DEF FinishJob
  <2>2. [at |-> now, retryCount |-> job[w][n].retryCount] \in F
    BY <1>0 DEF WaitInv, JobsOK, LooseJob
  <2> HIDE DEF F
  <2> QED BY <1>0, <2>1, <2>2
<1>3. CASE UNCHANGED failed
  BY <1>0, <1>3
<1> QED BY <1>1, <1>2, <1>3
        DEF Next, CallStep, JobStep, ReadClock, ReadLast, CompareExchange,
            ReleaseExpiredLocks, StartJob, EndDelivery, Tick, Stop

LEMMA StepsOfRows ==
  ASSUME WaitInv, StampInv, Next, NEW m \in Message
  PROVE  RowStep(m) /\ skew' = skew
<1>0. table \in [Message -> StampedRow] /\ failed \in [Message -> [at : Int, retryCount : Nat]]
  BY DEF WaitInv, StampInv
<1>1. ASSUME NEW w \in Invocation, LockBatch(w) PROVE RowStep(m)
  <2>1. PICK batch \in SUBSET Eligible :
          /\ table' = [x \in Message |-> IF x \in batch THEN TakenRow(table[x]) ELSE table[x]]
          /\ failed' = [x \in Message |-> IF x \in batch THEN NoFailure ELSE failed[x]]
    BY <1>1 DEF LockBatch, TakenRow
  <2>2. m \in batch => Lockable(table[m])
    BY DEF Eligible
  <2> QED BY <2>1, <2>2 DEF RowStep
<1>2. ASSUME NEW w \in Invocation, ReleaseExpiredLocks(w) PROVE RowStep(m)
  BY <1>2 DEF ReleaseExpiredLocks, ExpiredLocks, RowStep, FreedRow
<1>3. ASSUME NEW w \in Invocation, CallStep(w) PROVE RowStep(m) /\ skew' = skew
  BY <1>1, <1>2, <1>3 DEF CallStep, ReadClock, ReadLast, CompareExchange, LockBatch,
                          ReleaseExpiredLocks, RowStep
<1>4. ASSUME NEW w \in Invocation, NEW n \in Message, JobStep(w, n)
      PROVE  RowStep(m) /\ skew' = skew
  <2>1. CASE FinishJob(w, n)
    BY <2>1, JobEndsARow DEF FinishJob
  <2>2. CASE ~FinishJob(w, n)
    BY <1>4, <2>2 DEF JobStep, StartJob, EndDelivery, RowStep
  <2> QED BY <2>1, <2>2
<1>5. CASE Tick \/ Stop
  BY <1>5 DEF Tick, Stop, RowStep
<1> QED BY <1>3, <1>4, <1>5 DEF Next

LEMMA WaitStep ==
  ASSUME WaitInv, StampInv, Next, NEW m \in Message
  PROVE  Waits(table[m], failed[m])'
<1> DEFINE r == table[m]
           f == failed[m]
<1>1. /\ r \in StampedRow /\ Waits(r, f) /\ RowStep(m) /\ skew' = skew
      /\ skew \in Int /\ now \in Nat
  BY StepsOfRows DEF WaitInv, StampInv
<1>2. CASE table'[m] = r /\ failed'[m] = f
  BY <1>1, <1>2 DEF Waits
<1>3. CASE table'[m] = TakenRow(r) /\ failed'[m] = NoFailure
  <2>1. 0 \in Int
    OBVIOUS
  <2>2. TakenRow(r).status = "Processing"
    BY <1>1, <2>1, RowFields
  <2> QED BY <1>3, <2>2 DEF Waits
<1>4. ASSUME NEW s \in {"Pending", "Delivered", "DeadLettered"},
             table'[m] = FreedRow(r, s), failed'[m] = f, r.status = "Processing"
      PROVE  Waits(table[m], failed[m])'
  <2>1. 0 \in Int
    OBVIOUS
  <2>2. f = NoFailure /\ FreedRow(r, s).status = s
    BY <1>1, <1>4, <2>1, RowFields DEF Waits
  <2> QED BY <1>4, <2>2 DEF Waits, NoFailure
<1>5. ASSUME NEW n \in Nat, NEW d \in NextDelays(n),
             table'[m] = RetriedRow(r, AppNow + d),
             failed'[m] = [at |-> now, retryCount |-> n]
      PROVE  Waits(table[m], failed[m])'
  <2>1. /\ d \in Int /\ 100 * d >= Capped(n) * (100 - JitterPercent)
        /\ 100 * d <= MaxDelay * (100 + JitterPercent)
    <3>1. d \in Int /\ 100 * d \in Int /\ 100 * d <= Capped(n) * (100 + JitterPercent)
      BY DEF NextDelays
    <3> QED BY <3>1, BoundIsInt DEF NextDelays
  <2>2. AppNow + d \in Int /\ (AppNow + d) - (now + skew) = d
    BY <1>1, <2>1 DEF AppNow
  <2> DEFINE q == table'[m]
             g == failed'[m]
  <2>3. /\ q.status = "Pending" /\ q.nextRetryAt = AppNow + d /\ q.lockedUntil = Null
        /\ g.at = now /\ g.retryCount = n
    <3>1. ASSUME NEW t \in Int
          PROVE  /\ RetriedRow(r, t).status = "Pending" /\ RetriedRow(r, t).lockedUntil = Null
                 /\ RetriedRow(r, t).nextRetryAt = t
      BY <1>1, RetriedFields
    <3> QED BY <1>5, <2>2, <3>1
  <2> HIDE DEF q, g
  <2>4. /\ 100 * (q.nextRetryAt - (g.at + skew)) >= Capped(g.retryCount) * (100 - JitterPercent)
        /\ 100 * (q.nextRetryAt - (g.at + skew)) <= MaxDelay * (100 + JitterPercent)
    BY <2>1, <2>2, <2>3
  <2> QED BY <1>1, <2>3, <2>4 DEF Waits, q, g
<1> QED BY <1>1, <1>2, <1>3, <1>4, <1>5 DEF RowStep

LEMMA WaitInvariant == Spec => [](StampInv /\ WaitInv)
<1>1. Init => WaitInv
  <2> SUFFICES ASSUME Init PROVE WaitInv
    OBVIOUS
  <2>1. NoFailure \in [at : Int, retryCount : Nat]
    BY DEF NoFailure, Null
  <2>2. JobsOK
    BY NoJobFits DEF Init, JobsOK
  <2> QED BY <2>1, <2>2 DEF Init, WaitInv, Waits
<1>2. StampInv /\ WaitInv /\ [Next]_vars => WaitInv'
  <2>1. WaitInv /\ UNCHANGED vars => WaitInv'
    BY DEF vars, WaitInv, JobsOK, Waits
  <2>2. StampInv /\ WaitInv /\ Next => WaitInv'
    <3> SUFFICES ASSUME StampInv, WaitInv, Next PROVE WaitInv'
      OBVIOUS
    <3>1. JobsOK'
      BY JobsStep DEF WaitInv
    <3>2. failed' \in [Message -> [at : Int, retryCount : Nat]]
      BY FailureTypes
    <3> QED BY <3>1, <3>2, WaitStep DEF WaitInv
  <2> QED BY <2>1, <2>2
<1> QED BY <1>1, <1>2, StampInvariant, PTL DEF Spec

\* A retry starts no sooner than its delay after the failure, less what the jitter may
\* take off, for every policy, every skew of the clocks and however long jobs overrun
\* their locks: HandleMessageFailureAsync and the lock statements agree on NextRetryAt.
THEOREM RetriesWait == Spec => RetryWaits
<1>1. ASSUME StampInv, WaitInv, Next, NEW m \in Message,
             table[m].status = "Pending", table'[m].status = "Processing",
             failed[m] # NoFailure
      PROVE  100 * (now - (failed[m].at + skew))
               >= Capped(failed[m].retryCount) * (100 - JitterPercent)
  <2> DEFINE r == table[m]
             at == failed[m].at
             n == failed[m].retryCount
             bound == Capped(n) * (100 - JitterPercent)
  <2>1. r \in StampedRow /\ RowStep(m)
    BY <1>1, StepsOfRows DEF StampInv
  <2>2. Lockable(r)
    <3>1. ASSUME NEW d \in Int PROVE RetriedRow(r, d).status # "Processing"
      BY <2>1, RowFields
    <3>2. ASSUME NEW k \in Nat, NEW d \in NextDelays(k)
          PROVE  RetriedRow(r, AppNow + d).status # "Processing"
      <4>1. AppNow + d \in Int
        BY <1>1 DEF NextDelays, AppNow, StampInv
      <4> QED BY <3>1, <4>1
    <3> QED BY <1>1, <2>1, <3>2 DEF RowStep
  <2>3. now \in Nat /\ skew \in Int /\ r.nextRetryAt \in Int
    BY <1>1, <2>1 DEF StampInv, StampedRow
  <2>4. r.nextRetryAt <= now
    BY <2>2, <2>3 DEF Lockable, Null
  <2>5. at \in Int /\ n \in Nat /\ 100 * (r.nextRetryAt - (at + skew)) >= bound
    BY <1>1 DEF WaitInv, Waits
  <2>6. bound \in Int
    BY <2>5, BoundIsInt
  <2> HIDE DEF r, at, n, bound
  <2>7. 100 * (now - (at + skew)) >= bound
    BY <2>3, <2>4, <2>5, <2>6
  <2> QED BY <2>7 DEF at, n, bound
<1>2. StampInv /\ WaitInv /\ [Next]_vars =>
        [\A m \in Message :
           /\ table[m].status = "Pending" /\ table'[m].status = "Processing"
           /\ failed[m] # NoFailure
           => 100 * (now - (failed[m].at + skew))
                >= Capped(failed[m].retryCount) * (100 - JitterPercent)]_vars
  BY <1>1
<1> QED BY <1>2, WaitInvariant, PTL DEF Spec, RetryWaits

\* A message whose delivery failed is lockable again once MaxDelay and the jitter on top
\* of it have passed, for every policy and skew and in every round: the cap of
\* GetNextDelay is not undone by the jitter by more than its own share, nor by a
\* stale job whose delay is that of another round.
THEOREM RetriesFallDue == Spec => []RetryIsDue
<1>1. ASSUME StampInv, WaitInv, NEW m \in Message,
             table[m].status = "Pending", failed[m] # NoFailure,
             100 * (now - (failed[m].at + skew)) >= MaxDelay * (100 + JitterPercent)
      PROVE  Lockable(table[m])
  <2> DEFINE r == table[m]
             at == failed[m].at
             bound == MaxDelay * (100 + JitterPercent)
  <2>1. now \in Int /\ skew \in Int /\ r.nextRetryAt \in Int /\ at \in Int
    BY <1>1 DEF StampInv, StampedRow, WaitInv
  <2>2. r.lockedUntil = Null /\ 100 * (r.nextRetryAt - (at + skew)) <= bound
    BY <1>1 DEF WaitInv, Waits
  <2>3. bound \in Int /\ 100 * (now - (at + skew)) >= bound
    BY <1>1, BoundIsInt
  <2> HIDE DEF at, bound
  <2>4. r.nextRetryAt <= now
    BY <2>1, <2>2, <2>3
  <2> QED BY <1>1, <2>2, <2>4 DEF Lockable
<1>2. StampInv /\ WaitInv => RetryIsDue
  BY <1>1 DEF RetryIsDue
<1> QED BY <1>2, WaitInvariant, PTL DEF Spec

-----------------------------------------------------------------------------
(* Items taken by workers: the schedule of Parallel.ForEachAsync *)

\* The successor in a product.
LEMMA TimesNext ==
  ASSUME NEW k \in Int, NEW d \in Int
  PROVE  (k + 1) * d = k * d + d /\ d * (k + 1) = d * k + d /\ k * d = d * k
OBVIOUS

LEMMA DivBounds ==
  ASSUME NEW x \in Nat, NEW d \in Nat, d > 0
  PROVE  /\ x \div d \in Nat
         /\ d * (x \div d) <= x /\ x < d * (x \div d) + d
OBVIOUS

\* That many rounds are not over while items are left.
LEMMA RoundsLeft ==
  ASSUME NEW b \in Nat, NEW c \in Nat, c > 0, NEW k \in Nat, c * (k + 1) < b
  PROVE  Rounds(b, c) \in Nat /\ k + 2 <= Rounds(b, c)
<1> DEFINE x == b + c - 1
           q == x \div c
<1>1. x \in Nat
  OBVIOUS
<1>2. q \in Nat /\ c * q <= x /\ x < c * q + c
  BY <1>1, DivBounds
<1> HIDE DEF x, q
<1>3. ASSUME q <= k + 1 PROVE FALSE
  <2>1. c * q <= c * (k + 1)
    BY <1>2, <1>3, TimesMono, TimesNext
  <2>2. c * q \in Int /\ c * (k + 1) \in Int
    BY <1>2
  <2> QED BY <1>2, <2>1, <2>2 DEF x
<1> QED BY <1>2, <1>3 DEF q, x, Rounds

LEMMA RoundsOfSome ==
  ASSUME NEW b \in Nat, NEW c \in Nat, c > 0
  PROVE  Rounds(b, c) \in Nat /\ (b > 0 => 1 <= Rounds(b, c))
<1>1. b + c - 1 \in Nat
  OBVIOUS
<1>2. /\ (b + c - 1) \div c \in Nat
      /\ b + c - 1 < c * ((b + c - 1) \div c) + c
  BY <1>1, DivBounds
<1>3. (b + c - 1) \div c = 0 => c * ((b + c - 1) \div c) = 0
  OBVIOUS
<1> QED BY <1>2, <1>3 DEF Rounds

-----------------------------------------------------------------------------
\* Workers of a Parallel.ForEachAsync that began at o with b items, at the instant t:
\* u items are not begun, run are, at the instants at[r].  There are c workers, and
\* an item takes d at most.  In the round k, after k * d and up to (k + 1) * d, all
\* that ran at its beginning and c items a round before have been begun.
Paced(u, run, at, c, d, b, o, t) ==
  /\ t = o => u + Cardinality(run) <= b
  /\ u > 0 /\ d = 0 => t = o
  /\ \A k \in Nat :
       u > 0 /\ k * d < t - o /\ t - o <= (k + 1) * d
       => u + c * (k + 1) + Cardinality({r \in run : at[r] - o > k * d}) <= b

LEMMA CardinalityOfSome ==
  ASSUME NEW run, IsFiniteSet(run), NEW some, some \subseteq run
  PROVE  /\ IsFiniteSet(some) /\ Cardinality(some) \in Nat /\ Cardinality(run) \in Nat
         /\ Cardinality(some) <= Cardinality(run)
BY FS_Subset, FS_CardinalityType

LEMMA CardinalityWithOne ==
  ASSUME NEW run, IsFiniteSet(run), NEW i
  PROVE  /\ IsFiniteSet(run \cup {i}) /\ Cardinality(run) \in Nat
         /\ Cardinality(run \cup {i}) \in Nat
         /\ Cardinality(run \cup {i}) <= Cardinality(run) + 1
<1>1. Cardinality(run) \in Nat
  BY FS_CardinalityType
<1>2. CASE i \in run
  <2>1. IsFiniteSet(run \cup {i}) /\ Cardinality(run \cup {i}) = Cardinality(run)
    BY <1>2, FS_AddElement
  <2> QED BY <1>1, <2>1
<1>3. CASE i \notin run
  <2>1. /\ IsFiniteSet(run \cup {i})
        /\ Cardinality(run \cup {i}) = Cardinality(run) + 1
    BY <1>3, FS_AddElement
  <2> QED BY <1>1, <2>1
<1> QED BY <1>2, <1>3

\* The beginning.
LEMMA PacedBegin ==
  ASSUME NEW u \in Nat, NEW run, NEW at, NEW c \in Nat, NEW d \in Nat, NEW b \in Nat,
         NEW o \in Int, u + Cardinality(run) <= b
  PROVE  Paced(u, run, at, c, d, b, o, o)
<1>1. \A k \in Nat : ~(k * d < o - o)
  OBVIOUS
<1> QED BY <1>1 DEF Paced

\* An item ends.
LEMMA PacedEnd ==
  ASSUME NEW u \in Nat, NEW run, IsFiniteSet(run), NEW at, NEW c \in Nat, NEW d \in Nat,
         NEW b \in Nat, NEW o \in Int, NEW t \in Int, Paced(u, run, at, c, d, b, o, t),
         NEW rest, rest \subseteq run, NEW now_at, \A r \in rest : now_at[r] = at[r]
  PROVE  Paced(u, rest, now_at, c, d, b, o, t)
<1>1. IsFiniteSet(rest) /\ Cardinality(rest) \in Nat /\ Cardinality(run) \in Nat
      /\ Cardinality(rest) <= Cardinality(run)
  BY CardinalityOfSome
<1>2. t = o => u + Cardinality(rest) <= b
  BY <1>1 DEF Paced
<1>3. ASSUME NEW k \in Nat, u > 0, k * d < t - o, t - o <= (k + 1) * d
      PROVE  u + c * (k + 1) + Cardinality({r \in rest : now_at[r] - o > k * d}) <= b
  <2> DEFINE new == {r \in run : at[r] - o > k * d}
             now_new == {r \in rest : now_at[r] - o > k * d}
  <2>1. now_new \subseteq new
    OBVIOUS
  <2>2. IsFiniteSet(new)
    BY CardinalityOfSome
  <2>3. u + c * (k + 1) + Cardinality(new) <= b
    BY <1>3 DEF Paced
  <2> HIDE DEF new, now_new
  <2>4. /\ Cardinality(now_new) \in Nat /\ Cardinality(new) \in Nat
        /\ Cardinality(now_new) <= Cardinality(new)
    BY <2>1, <2>2, CardinalityOfSome
  <2>5. c * (k + 1) \in Int
    OBVIOUS
  <2>6. u + c * (k + 1) + Cardinality(now_new) <= b
    BY <2>3, <2>4, <2>5
  <2> QED BY <2>6 DEF now_new
<1> QED BY <1>2, <1>3 DEF Paced

\* A worker takes the next item.
LEMMA PacedStart ==
  ASSUME NEW u \in Nat, u > 0, NEW run, IsFiniteSet(run), NEW at, NEW c \in Nat,
         NEW d \in Nat, NEW b \in Nat, NEW o \in Int, NEW t \in Int,
         Paced(u, run, at, c, d, b, o, t),
         NEW i, NEW now_at, \A r \in run : now_at[r] = at[r]
  PROVE  Paced(u - 1, run \cup {i}, now_at, c, d, b, o, t)
<1>1. /\ Cardinality(run) \in Nat /\ Cardinality(run \cup {i}) \in Nat
      /\ Cardinality(run \cup {i}) <= Cardinality(run) + 1
  BY CardinalityWithOne
<1>2. t = o => (u - 1) + Cardinality(run \cup {i}) <= b
  BY <1>1 DEF Paced
<1>3. ASSUME NEW k \in Nat, k * d < t - o, t - o <= (k + 1) * d
      PROVE  (u - 1) + c * (k + 1)
               + Cardinality({r \in run \cup {i} : now_at[r] - o > k * d}) <= b
  <2> DEFINE new == {r \in run : at[r] - o > k * d}
             now_new == {r \in run \cup {i} : now_at[r] - o > k * d}
  <2>1. now_new \subseteq new \cup {i}
    OBVIOUS
  <2>2. IsFiniteSet(new)
    BY CardinalityOfSome
  <2>3. u + c * (k + 1) + Cardinality(new) <= b
    BY <1>3 DEF Paced
  <2> HIDE DEF new, now_new
  <2>4. /\ IsFiniteSet(new \cup {i}) /\ Cardinality(new) \in Nat
        /\ Cardinality(new \cup {i}) \in Nat
        /\ Cardinality(new \cup {i}) <= Cardinality(new) + 1
    BY <2>2, CardinalityWithOne
  <2>5. Cardinality(now_new) \in Nat /\ Cardinality(now_new) <= Cardinality(new \cup {i})
    BY <2>1, <2>4, CardinalityOfSome
  <2>6. c * (k + 1) \in Int
    OBVIOUS
  <2>7. (u - 1) + c * (k + 1) + Cardinality(now_new) <= b
    BY <2>3, <2>4, <2>5, <2>6
  <2> QED BY <2>7 DEF now_new
<1>4. u - 1 > 0 => u > 0
  OBVIOUS
<1> QED BY <1>2, <1>3 DEF Paced

\* Time passes: no item has run for d, and all workers run while items are left.
LEMMA PacedTick ==
  ASSUME NEW u \in Nat, NEW run, IsFiniteSet(run), NEW at, NEW c \in Nat, c > 0,
         NEW d \in Nat, NEW b \in Nat, NEW o \in Int, NEW t \in Int, o <= t,
         Paced(u, run, at, c, d, b, o, t),
         \A r \in run : at[r] \in Int /\ at[r] <= t /\ t - at[r] < d,
         u > 0 => Cardinality(run) = c
  PROVE  Paced(u, run, at, c, d, b, o, t + 1)
<1>1. t + 1 # o
  OBVIOUS
<1>2. u > 0 => d > 0
  <2> SUFFICES ASSUME u > 0 PROVE d > 0
    OBVIOUS
  <2>1. run # {}
    BY FS_EmptySet
  <2> QED BY <2>1
<1>3. ASSUME NEW k \in Nat, u > 0, k * d < (t + 1) - o, (t + 1) - o <= (k + 1) * d
      PROVE  u + c * (k + 1) + Cardinality({r \in run : at[r] - o > k * d}) <= b
  <2>0. Cardinality(run) = c /\ d > 0 /\ k * d \in Int /\ (k + 1) * d \in Int
        /\ c * (k + 1) \in Int
    BY <1>2, <1>3
  <2>1. CASE k * d < t - o
    BY <1>3, <2>0, <2>1 DEF Paced
  <2>2. CASE k * d = t - o
    <3>1. {r \in run : at[r] - o > k * d} = {}
      BY <2>2
    <3>2. Cardinality({r \in run : at[r] - o > k * d}) = 0
      BY <3>1, FS_EmptySet
    <3>3. CASE k = 0
      <4>1. t = o
        BY <2>2, <3>3
      <4>2. u + c <= b /\ c * (k + 1) = c
        BY <2>0, <3>3, <4>1 DEF Paced
      <4> QED BY <3>2, <4>2
    <3>4. CASE k # 0
      <4> DEFINE j == k - 1
      <4>1. j \in Nat /\ (j + 1) * d = k * d /\ j * d = k * d - d /\ j * d \in Int
        BY <3>4
      <4>2. j * d < t - o /\ t - o <= (j + 1) * d
        BY <2>0, <2>2, <4>1
      <4>3. u + c * (j + 1) + Cardinality({r \in run : at[r] - o > j * d}) <= b
        BY <1>3, <4>1, <4>2 DEF Paced
      <4>4. {r \in run : at[r] - o > j * d} = run
        <5>1. \A r \in run : at[r] - o > k * d - d
          BY <2>0, <2>2
        <5> QED BY <4>1, <5>1
      <4>5. u + c * k + c <= b /\ c * (k + 1) = c * k + c
        <5>1. Cardinality({r \in run : at[r] - o > j * d}) = c
          BY <2>0, <4>4
        <5>2. c * (j + 1) = c * k
          OBVIOUS
        <5>3. c * (k + 1) = c * k + c
          BY TimesNext
        <5> QED BY <4>3, <5>1, <5>2, <5>3
      <4> QED BY <3>2, <4>5
    <3> QED BY <3>3, <3>4
  <2>3. k * d < t - o \/ k * d = t - o
    BY <1>3, <2>0
  <2> QED BY <2>1, <2>2, <2>3
<1>4. \A k \in Nat :
        u > 0 /\ k * d < (t + 1) - o /\ (t + 1) - o <= (k + 1) * d
        => u + c * (k + 1) + Cardinality({r \in run : at[r] - o > k * d}) <= b
  BY <1>3
<1>5. /\ t + 1 = o => u + Cardinality(run) <= b
      /\ u > 0 /\ d = 0 => t + 1 = o
  BY <1>1, <1>2
<1> QED BY <1>4, <1>5, ZenonT(40) DEF Paced

\* While items are left, the last round has not begun.
LEMMA PacedBound ==
  ASSUME NEW u \in Nat, u > 0, NEW run, IsFiniteSet(run), NEW at, NEW c \in Nat, c > 0,
         NEW d \in Nat, NEW b \in Nat, NEW o \in Int, NEW t \in Int, o <= t,
         Paced(u, run, at, c, d, b, o, t)
  PROVE  t - o <= (Rounds(b, c) - 1) * d
<1>1. CASE t = o
  <2>1. b > 0
    <3>1. u + Cardinality(run) <= b
      BY <1>1 DEF Paced
    <3>2. Cardinality(run) \in Nat
      BY FS_CardinalityType
    <3> QED BY <3>1, <3>2
  <2>2. Rounds(b, c) - 1 \in Nat
    <3>1. Rounds(b, c) \in Nat /\ 1 <= Rounds(b, c)
      BY <2>1, RoundsOfSome
    <3> QED BY <3>1
  <2>3. 0 * d <= (Rounds(b, c) - 1) * d
    BY <2>2, TimesMono
  <2> QED BY <1>1, <2>2, <2>3
<1>2. CASE t # o
  <2> DEFINE k == (t - o - 1) \div d
  <2>1. d > 0 /\ t - o - 1 \in Nat
    BY <1>2 DEF Paced
  <2>2. k \in Nat /\ d * k <= t - o - 1 /\ t - o - 1 < d * k + d
    BY <2>1, DivBounds
  <2> HIDE DEF k
  <2>3. k * d = d * k /\ (k + 1) * d = k * d + d /\ k * d \in Int
    BY <2>2, TimesNext
  <2>4. k * d < t - o /\ t - o <= (k + 1) * d
    BY <2>1, <2>2, <2>3
  <2> DEFINE new == {r \in run : at[r] - o > k * d}
  <2>5. u + c * (k + 1) + Cardinality(new) <= b
    BY <2>2, <2>4 DEF Paced
  <2>6. Cardinality(new) \in Nat
    BY CardinalityOfSome
  <2>7. c * (k + 1) \in Int
    BY <2>2
  <2> HIDE DEF new
  <2>8. c * (k + 1) < b
    BY <2>5, <2>6, <2>7
  <2>9. Rounds(b, c) \in Nat /\ k + 2 <= Rounds(b, c)
    BY <2>2, <2>8, RoundsLeft
  <2>10. (k + 1) * d <= (Rounds(b, c) - 1) * d /\ (Rounds(b, c) - 1) * d \in Int
    BY <2>2, <2>9, TimesMono
  <2> QED BY <2>3, <2>4, <2>10
<1> QED BY <1>1, <1>2

-----------------------------------------------------------------------------
(* How long a job takes *)

JobTime == Rounds(Subscriptions, MaxConcurrentSubscriptionDeliveries) * Timeout

Busy(j) == {s \in Worker : j.flight[s] # Free}

Since(j, t) == [s \in Busy(j) |-> t - j.flight[s]]

\* A running job that began at o, at the instant t.
OnTime(j, o, t) ==
  /\ o <= t /\ t - o <= JobTime
  /\ \A s \in Busy(j) :
       /\ 0 <= j.flight[s] /\ j.flight[s] <= Timeout /\ j.flight[s] <= t - o
       /\ t - j.flight[s] - o <= JobTime - Timeout
  /\ j.left > 0 => Busy(j) = Worker
  /\ Paced(j.left, Busy(j), Since(j, t), MaxConcurrentSubscriptionDeliveries, Timeout,
           Subscriptions, o, t)

LEMMA UpTo ==
  ASSUME NEW n \in Nat
  PROVE  IsFiniteSet(1..n) /\ Cardinality(1..n) = n
<1>1. 1 \in Int /\ n \in Int
  OBVIOUS
<1>2. IsFiniteSet(1..n) /\ Cardinality(1..n) = IF 1 > n THEN 0 ELSE n - 1 + 1
  BY <1>1, FS_Interval
<1> QED BY <1>2

LEMMA Workers ==
  /\ 1 \in Worker /\ IsFiniteSet(Worker)
  /\ Cardinality(Worker) = MaxConcurrentSubscriptionDeliveries
  /\ \A j : IsFiniteSet(Busy(j)) /\ Busy(j) \subseteq Worker
  /\ MaxConcurrentSubscriptionDeliveries \in Nat /\ MaxConcurrentSubscriptionDeliveries > 0
  /\ Timeout \in Nat /\ Timeout > 0 /\ Subscriptions \in Nat
<1>1. /\ MaxConcurrentSubscriptionDeliveries \in Nat /\ MaxConcurrentSubscriptionDeliveries > 0
      /\ Timeout \in Nat /\ Timeout > 0 /\ Subscriptions \in Nat
  BY DEF TimingAssumption
<1>2. IsFiniteSet(Worker) /\ Cardinality(Worker) = MaxConcurrentSubscriptionDeliveries
  BY <1>1, UpTo DEF Worker
<1>3. 1 \in Worker
  BY <1>1 DEF Worker
<1>4. \A j : IsFiniteSet(Busy(j)) /\ Busy(j) \subseteq Worker
  BY <1>2, FS_Subset DEF Busy
<1> QED BY <1>1, <1>2, <1>3, <1>4

LEMMA JobTimes ==
  /\ JobTime \in Nat /\ Rounds(Subscriptions, MaxConcurrentSubscriptionDeliveries) \in Nat
  /\ (Rounds(Subscriptions, MaxConcurrentSubscriptionDeliveries) - 1) * Timeout = JobTime - Timeout
  /\ Subscriptions > 0 => JobTime - Timeout >= 0
<1> DEFINE n == Rounds(Subscriptions, MaxConcurrentSubscriptionDeliveries)
<1>1. n \in Nat /\ (Subscriptions > 0 => 1 <= n) /\ Timeout \in Nat
  BY Workers, RoundsOfSome
<1> HIDE DEF n
<1>2. (n - 1) * Timeout = n * Timeout - Timeout /\ n * Timeout \in Nat
  BY <1>1
<1>3. 1 <= n => 1 * Timeout <= n * Timeout
  BY <1>1, TimesMono
<1> QED BY <1>1, <1>2, <1>3 DEF JobTime, n

\* A job begins with a delivery for every worker, as far as they go.
LEMMA JobBegins ==
  ASSUME NEW j \in LooseJob, j.left <= Subscriptions, NEW t \in Int
  PROVE  OnTime(Launch(j), t, t)
<1> DEFINE k == MaxConcurrentSubscriptionDeliveries
           i == Launch(j)
<1>0. /\ k \in Nat /\ k > 0 /\ Subscriptions \in Nat /\ Timeout \in Nat
      /\ Worker = 1..k /\ Cardinality(Worker) = k
  BY Workers DEF Worker
<1>1. /\ i.left = IF j.left < k THEN 0 ELSE j.left - k
      /\ \A s \in Worker : i.flight[s] = IF s <= j.left THEN 0 ELSE Free
      /\ i.left \in Nat /\ j.left \in Nat
  <2>1. [s \in Worker |-> 0] \in [Worker -> Int] /\ 1 \in Worker
    BY Workers
  <2>2. i \in LooseJob /\ i.left = (IF j.left < k THEN 0 ELSE j.left - k)
        /\ i.flight = [x \in Worker |-> IF x <= j.left THEN 0 ELSE Free]
    BY <2>1, JobFields
  <2> HIDE DEF i
  <2> QED BY <2>2 DEF LooseJob
<1> HIDE DEF i
<1>2. Busy(i) = {s \in Worker : s <= j.left} /\ \A s \in Busy(i) : i.flight[s] = 0
  BY <1>1 DEF Busy, Free
<1> HIDE DEF k
<1>3. /\ i.left > 0 => Busy(i) = Worker
      /\ IsFiniteSet(Busy(i)) /\ i.left + Cardinality(Busy(i)) <= Subscriptions
      /\ Busy(i) # {} => Subscriptions > 0
  <2>1. j.left \in Nat
    BY <1>1
  <2>2. PICK first : first = {s \in 1..k : s <= j.left}
    OBVIOUS
  <2>3. PICK rest : rest = IF j.left < k THEN 0 ELSE j.left - k
    OBVIOUS
  <2>4. Busy(i) = first /\ i.left = rest
    BY <1>0, <1>1, <1>2, <2>2, <2>3
  <2>5. PICK l \in Nat : l = j.left /\ l <= Subscriptions
    BY <2>1
  <2>6. /\ rest > 0 => first = 1..k
        /\ IsFiniteSet(first) /\ rest + Cardinality(first) <= Subscriptions
        /\ first # {} => Subscriptions > 0
    <3>1. k \in Nat /\ k > 0 /\ Subscriptions \in Nat
      BY <1>0
    <3>2. first = {s \in 1..k : s <= l} /\ rest = IF l < k THEN 0 ELSE l - k
      BY <2>2, <2>3, <2>5
    <3>3. CASE l < k
      <4>1. first = 1..l /\ rest = 0
        BY <2>5, <3>1, <3>2, <3>3
      <4>2. IsFiniteSet(first) /\ Cardinality(first) = l
        BY <2>5, <3>1, <4>1, UpTo
      <4>3. ASSUME NEW x \in first
            PROVE  Subscriptions > 0
        <5>1. x \in Int /\ 1 <= x /\ x <= l
          BY <2>5, <3>1, <4>1
        <5> QED BY <2>5, <3>1, <5>1
      <4>4. rest \in Nat /\ ~(rest > 0) /\ rest + l <= Subscriptions
        BY <2>5, <3>1, <4>1
      <4> QED BY <4>2, <4>3, <4>4
    <3>4. CASE ~(l < k)
      <4>1. first = 1..k
        BY <2>5, <3>1, <3>2, <3>4
      <4>2. IsFiniteSet(first) /\ Cardinality(first) = k
        BY <2>5, <3>1, <4>1, UpTo
      <4>3. rest = l - k /\ rest \in Nat /\ Subscriptions > 0
        BY <2>5, <3>1, <3>2, <3>4
      <4>4. rest + k <= Subscriptions
        BY <2>5, <3>1, <4>3
      <4> QED BY <4>1, <4>2, <4>3, <4>4
    <3> QED BY <3>3, <3>4
  <2> QED BY <1>0, <2>4, <2>6
<1>5. Paced(i.left, Busy(i), Since(i, t), k, Timeout, Subscriptions, t, t)
  BY <1>0, <1>1, <1>3, PacedBegin
<1>7. ASSUME NEW s \in Busy(i)
      PROVE  /\ 0 <= i.flight[s] /\ i.flight[s] <= Timeout /\ i.flight[s] <= t - t
             /\ t - i.flight[s] - t <= JobTime - Timeout
  <2>1. JobTime - Timeout >= 0 /\ JobTime \in Nat
    BY <1>3, JobTimes
  <2>2. i.flight[s] = 0
    BY <1>2
  <2>3. 0 <= Timeout /\ 0 <= t - t /\ t - 0 - t <= JobTime - Timeout
    BY <1>0, <2>1
  <2> QED BY <2>2, <2>3
<1>8. t <= t /\ t - t <= JobTime
  BY JobTimes
<1>9. OnTime(i, t, t)
  BY <1>3, <1>5, <1>7, <1>8 DEF OnTime, k
<1> QED BY <1>9 DEF i

\* A delivery ends, and its worker takes the next.
LEMMA JobGoesOn ==
  ASSUME NEW j \in LooseJob, NEW o \in Int, NEW t \in Int, OnTime(j, o, t),
         NEW s \in Busy(j)
  PROVE  OnTime(TakeNext(j, s), o, t)
<1> DEFINE k == MaxConcurrentSubscriptionDeliveries
           i == TakeNext(j, s)
           rest == Busy(j) \ {s}
<1>1. /\ i.left = IF j.left = 0 THEN 0 ELSE j.left - 1
      /\ \A x \in Worker : i.flight[x] = IF x # s THEN j.flight[x]
                                        ELSE IF j.left = 0 THEN Free ELSE 0
      /\ i.left \in Nat /\ j.left \in Nat /\ \A x \in Worker : j.flight[x] \in Int
  <2>1. [x \in Worker |-> 0] \in [Worker -> Int] /\ s \in Worker
    BY Workers
  <2>2. i \in LooseJob /\ i.left = (IF j.left = 0 THEN 0 ELSE j.left - 1)
        /\ i.flight = [j.flight EXCEPT ![s] = IF j.left = 0 THEN Free ELSE 0]
    BY <2>1, JobFields
  <2> HIDE DEF i
  <2> QED BY <2>1, <2>2 DEF LooseJob
<1> HIDE DEF i
<1>2. /\ IsFiniteSet(rest) /\ rest \subseteq Busy(j) /\ rest \subseteq Worker
      /\ IsFiniteSet(Busy(j)) /\ s \in Worker
      /\ k \in Nat /\ Timeout \in Nat /\ Subscriptions \in Nat
  BY Workers, FS_Subset
<1>3. Paced(j.left, Busy(j), Since(j, t), k, Timeout, Subscriptions, o, t)
  BY DEF OnTime
<1>4. CASE j.left = 0
  <2>1. Busy(i) = rest
    BY <1>1, <1>2, <1>4 DEF Busy
  <2>2. \A x \in rest : Since(i, t)[x] = Since(j, t)[x]
    BY <1>1, <1>2, <2>1 DEF Since
  <2>3. Paced(0, rest, Since(i, t), k, Timeout, Subscriptions, o, t)
    <3>1. Paced(0, Busy(j), Since(j, t), k, Timeout, Subscriptions, o, t)
      BY <1>3, <1>4
    <3> QED BY <1>2, <2>2, <3>1, PacedEnd
  <2>4. \A x \in rest : i.flight[x] = j.flight[x]
    BY <1>1, <1>2
  <2>5. /\ o <= t /\ t - o <= JobTime
        /\ \A x \in Busy(i) :
             /\ 0 <= i.flight[x] /\ i.flight[x] <= Timeout /\ i.flight[x] <= t - o
             /\ t - i.flight[x] - o <= JobTime - Timeout
    BY <1>2, <2>1, <2>4 DEF OnTime
  <2>6. i.left = 0
    BY <1>1, <1>4
  <2> QED BY <2>1, <2>3, <2>5, <2>6 DEF OnTime, i
<1>5. CASE j.left > 0
  <2>1. Busy(i) = Worker /\ Busy(j) = Worker
    BY <1>1, <1>2, <1>5 DEF OnTime, Busy, Free
  <2>2. \A x \in rest : Since(i, t)[x] = Since(j, t)[x]
    BY <1>1, <1>2, <2>1 DEF Since
  <2>3. Paced(j.left - 1, rest \cup {s}, Since(i, t), k, Timeout, Subscriptions, o, t)
    <3>1. Paced(j.left, rest, Since(i, t), k, Timeout, Subscriptions, o, t)
      BY <1>1, <1>2, <1>3, <2>2, PacedEnd
    <3> QED BY <1>1, <1>2, <1>5, <3>1, PacedStart
  <2>4. Paced(i.left, Busy(i), Since(i, t), k, Timeout, Subscriptions, o, t)
    <3>1. rest \cup {s} = Busy(i) /\ i.left = j.left - 1
      BY <1>1, <1>2, <1>5, <2>1
    <3> QED BY <2>3, <3>1
  <2>5. o <= t /\ t - o <= JobTime
    BY DEF OnTime
  <2>6. t - o <= (Rounds(Subscriptions, k) - 1) * Timeout
    BY <1>1, <1>2, <1>3, <1>5, <2>5, Workers, PacedBound
  <2>7. \A x \in Busy(i) :
          /\ 0 <= i.flight[x] /\ i.flight[x] <= Timeout /\ i.flight[x] <= t - o
          /\ t - i.flight[x] - o <= JobTime - Timeout
    <3> SUFFICES ASSUME NEW x \in Worker
                 PROVE  /\ 0 <= i.flight[x] /\ i.flight[x] <= Timeout /\ i.flight[x] <= t - o
                        /\ t - i.flight[x] - o <= JobTime - Timeout
      BY <2>1
    <3>1. CASE x = s
      BY <1>1, <1>5, <2>5, <2>6, <3>1, JobTimes, Workers
    <3>2. CASE x # s
      <4>1. /\ 0 <= j.flight[x] /\ j.flight[x] <= Timeout /\ j.flight[x] <= t - o
            /\ t - j.flight[x] - o <= JobTime - Timeout
        BY <2>1 DEF OnTime
      <4>2. i.flight[x] = j.flight[x]
        BY <1>1, <3>2
      <4> QED BY <4>1, <4>2
    <3> QED BY <3>1, <3>2
  <2>8. i.left > 0 => Busy(i) = Worker
    BY <2>1
  <2> QED BY <2>4, <2>5, <2>7, <2>8 DEF OnTime, i
<1> QED BY <1>1, <1>4, <1>5

\* A tick: some delivery is out, and none for as long as its timeout.
LEMMA JobAges ==
  ASSUME NEW j \in LooseJob, NEW o \in Int, NEW t \in Int, OnTime(j, o, t),
         Busy(j) # {}, \A s \in Worker : j.flight[s] # Timeout
  PROVE  t - o < JobTime /\ OnTime(Aged(j), o, t + 1)
<1> DEFINE k == MaxConcurrentSubscriptionDeliveries
           i == Aged(j)
<1>1. /\ i.left = j.left /\ j.left \in Nat
      /\ \A s \in Worker : i.flight[s] = IF j.flight[s] = Free THEN Free ELSE j.flight[s] + 1
      /\ \A s \in Worker : j.flight[s] \in Int
  BY AgedFields DEF LooseJob
<1> HIDE DEF i
<1>2. \A s \in Busy(j) :
        /\ s \in Worker /\ 0 <= j.flight[s] /\ j.flight[s] < Timeout /\ j.flight[s] <= t - o
        /\ t - j.flight[s] - o <= JobTime - Timeout
  <2> TAKE s \in Busy(j)
  <2>1. s \in Worker /\ j.flight[s] # Timeout
    BY Workers
  <2>2. /\ 0 <= j.flight[s] /\ j.flight[s] <= Timeout /\ j.flight[s] <= t - o
        /\ t - j.flight[s] - o <= JobTime - Timeout
    BY DEF OnTime
  <2> QED BY <1>1, <2>1, <2>2, Workers
<1>3. t - o < JobTime
  <2>1. PICK s \in Busy(j) : TRUE
    OBVIOUS
  <2> QED BY <1>1, <1>2, <2>1, JobTimes, Workers
<1>4. Busy(i) = Busy(j)
  BY <1>1, <1>2, Workers DEF Busy, Free
<1>5. Since(i, t + 1) = Since(j, t)
  <2>1. \A s \in Busy(j) : (t + 1) - i.flight[s] = t - j.flight[s]
    <3> TAKE s \in Busy(j)
    <3>1. s \in Worker /\ j.flight[s] # Free
      BY DEF Busy
    <3>2. i.flight[s] = j.flight[s] + 1 /\ j.flight[s] \in Int
      BY <1>1, <3>1
    <3> QED BY <3>2
  <2>2. [s \in Busy(j) |-> (t + 1) - i.flight[s]] = [s \in Busy(j) |-> t - j.flight[s]]
    BY <2>1
  <2> QED BY <1>4, <2>2 DEF Since
<1>6. Paced(j.left, Busy(j), Since(j, t), k, Timeout, Subscriptions, o, t + 1)
  <2>1. /\ Paced(j.left, Busy(j), Since(j, t), k, Timeout, Subscriptions, o, t)
        /\ j.left > 0 => Busy(j) = Worker
        /\ o <= t
    BY DEF OnTime
  <2>2. \A s \in Busy(j) :
          Since(j, t)[s] \in Int /\ Since(j, t)[s] <= t /\ t - Since(j, t)[s] < Timeout
    BY <1>1, <1>2 DEF Since
  <2> QED BY <1>1, <2>1, <2>2, Workers, PacedTick
<1>7. \A s \in Busy(i) :
        /\ 0 <= i.flight[s] /\ i.flight[s] <= Timeout /\ i.flight[s] <= (t + 1) - o
        /\ (t + 1) - i.flight[s] - o <= JobTime - Timeout
  BY <1>1, <1>2, <1>4, JobTimes, Workers DEF Busy
<1>8. o <= t /\ (j.left > 0 => Busy(j) = Worker)
  BY DEF OnTime
<1>9. OnTime(i, o, t + 1)
  <2>1. o <= t + 1 /\ (t + 1) - o <= JobTime
    BY <1>3, <1>8, JobTimes
  <2>2. i.left > 0 => Busy(i) = Worker
    BY <1>1, <1>4, <1>8
  <2>3. Paced(i.left, Busy(i), Since(i, t + 1), k, Timeout, Subscriptions, o, t + 1)
    BY <1>1, <1>4, <1>5, <1>6
  <2> QED BY <1>7, <2>1, <2>2, <2>3 DEF OnTime
<1> QED BY <1>3, <1>9 DEF i

-----------------------------------------------------------------------------
(* How long a batch takes, and its locks *)

LockTime == WholeSeconds(VisibilityTimeout)

Queue(jobs) == {m \in Message : jobs[m].phase = "queued"}
Runs(jobs) == {m \in Message : jobs[m].phase = "running"}

\* The jobs of a batch locked at the instant o, as the clock shows t: job m has run
\* since begun[m], and no job begins later than one round before the end.
Timely(jobs, o, begun, rows, t) ==
  /\ o <= t /\ Cardinality(Runs(jobs)) <= MaxConcurrentDeliveries
  /\ Paced(Cardinality(Queue(jobs)), Runs(jobs), begun, MaxConcurrentDeliveries, JobTime,
           BatchSize, o, t)
  /\ \A m \in Queue(jobs) : jobs[m].left = Subscriptions
  /\ \A m \in Runs(jobs) :
       /\ o <= begun[m] /\ OnTime(jobs[m], begun[m], t)
       /\ begun[m] - o <= WorstCase - JobTime
  /\ \A m \in Message : jobs[m].phase # "none" =>
       rows[m].status = "Processing" /\ rows[m].lockedUntil = o + LockTime

LEMMA BatchTimes ==
  /\ BatchSize \in Nat /\ MaxConcurrentDeliveries \in Nat /\ MaxConcurrentDeliveries > 0
  /\ WorstCase \in Nat /\ LockTime \in Nat /\ WorstCase - JobTime >= 0
  /\ (Rounds(BatchSize, MaxConcurrentDeliveries) - 1) * JobTime = WorstCase - JobTime
<1> DEFINE q == Rounds(BatchSize, MaxConcurrentDeliveries)
           r == Rounds(Subscriptions, MaxConcurrentSubscriptionDeliveries)
<1>1. /\ BatchSize \in Nat /\ BatchSize > 0
      /\ MaxConcurrentDeliveries \in Nat /\ MaxConcurrentDeliveries > 0
  BY DEF TimingAssumption
<1>2. q \in Nat /\ 1 <= q /\ r \in Nat /\ Timeout \in Nat
  BY <1>1, RoundsOfSome, JobTimes, Workers
<1> HIDE DEF q, r
<1>3. q * r * Timeout = q * (r * Timeout) /\ r * Timeout \in Nat
  BY <1>2
<1>4. WorstCase = q * JobTime /\ JobTime \in Nat
  BY <1>3, JobTimes DEF WorstCase, JobTime, q, r
<1> HIDE DEF JobTime, WorstCase
<1>5. (q - 1) * JobTime = q * JobTime - JobTime /\ q * JobTime \in Nat
  BY <1>2, <1>4
<1>6. 1 * JobTime <= q * JobTime
  BY <1>2, <1>4, TimesMono
<1> QED BY <1>1, <1>4, <1>5, <1>6, WholeSecondsNat DEF q, LockTime

LEMMA JobSets ==
  ASSUME NEW jobs
  PROVE  /\ IsFiniteSet(Runs(jobs)) /\ IsFiniteSet(Queue(jobs))
         /\ Cardinality(Runs(jobs)) \in Nat /\ Cardinality(Queue(jobs)) \in Nat
         /\ Cardinality(Queue(jobs)) > 0 <=> Queue(jobs) # {}
<1>1. IsFiniteSet(Runs(jobs)) /\ IsFiniteSet(Queue(jobs))
  BY FS_Subset DEF TimingAssumption, Runs, Queue
<1>2. Cardinality(Runs(jobs)) \in Nat /\ Cardinality(Queue(jobs)) \in Nat
  BY <1>1, FS_CardinalityType
<1>3. Cardinality(Queue(jobs)) = 0 <=> Queue(jobs) = {}
  BY <1>1, FS_EmptySet
<1> QED BY <1>1, <1>2, <1>3

\* The locks of a batch outlive its jobs.
LEMMA TimelyLocks ==
  ASSUME NEW jobs \in [Message -> LooseJob], NEW o \in Int, NEW begun \in [Message -> Int],
         NEW rows, NEW t \in Int, Timely(jobs, o, begun, rows, t), LockTime >= WorstCase,
         NEW m \in Message, jobs[m].phase # "none"
  PROVE  rows[m].status = "Processing" /\ rows[m].lockedUntil >= t
<1>1. rows[m].status = "Processing" /\ rows[m].lockedUntil = o + LockTime
  BY DEF Timely
<1>2. t - o <= WorstCase
  <2>1. CASE m \in Runs(jobs)
    <3>1. begun[m] - o <= WorstCase - JobTime /\ t - begun[m] <= JobTime
      BY <2>1 DEF Timely, OnTime
    <3>2. begun[m] \in Int
      OBVIOUS
    <3> QED BY <3>1, <3>2, JobTimes, BatchTimes
  <2>2. CASE m \in Queue(jobs)
    <3>1. Cardinality(Queue(jobs)) > 0 /\ IsFiniteSet(Runs(jobs))
      BY <2>2, JobSets
    <3>2. /\ Paced(Cardinality(Queue(jobs)), Runs(jobs), begun, MaxConcurrentDeliveries,
                   JobTime, BatchSize, o, t)
          /\ o <= t
      BY DEF Timely
    <3>3. t - o <= (Rounds(BatchSize, MaxConcurrentDeliveries) - 1) * JobTime
      BY <3>1, <3>2, JobSets, JobTimes, BatchTimes, PacedBound
    <3> QED BY <3>3, JobTimes, BatchTimes
  <2>3. jobs[m].phase \in {"queued", "running"}
    BY DEF LooseJob
  <2> QED BY <2>1, <2>2, <2>3 DEF Runs, Queue
<1> QED BY <1>1, <1>2, BatchTimes

\* Only what becomes of the rows of the batch matters.
LEMMA TimelyRows ==
  ASSUME NEW jobs, NEW o, NEW begun, NEW rows, NEW t, Timely(jobs, o, begun, rows, t),
         NEW others, \A m \in Message : jobs[m].phase # "none" => others[m] = rows[m]
  PROVE  Timely(jobs, o, begun, others, t)
BY DEF Timely

\* A batch without jobs.
LEMMA TimelyIdle ==
  ASSUME NEW rows, NEW t \in Int, NEW begun
  PROVE  Timely([m \in Message |-> NoJob], t, begun, rows, t)
<1> DEFINE jobs == [m \in Message |-> NoJob]
<1>1. \A m \in Message : jobs[m].phase = "none"
  BY DEF NoJob
<1> HIDE DEF jobs
<1>2. Runs(jobs) = {} /\ Queue(jobs) = {}
  BY <1>1 DEF Runs, Queue
<1>3. Cardinality(Runs(jobs)) = 0 /\ Cardinality(Queue(jobs)) = 0
  BY <1>2, FS_EmptySet
<1>4. Paced(Cardinality(Queue(jobs)), Runs(jobs), begun, MaxConcurrentDeliveries, JobTime,
            BatchSize, t, t)
  <2>1. Cardinality(Queue(jobs)) + Cardinality(Runs(jobs)) <= BatchSize
    BY <1>3, BatchTimes
  <2> QED BY <1>3, <2>1, BatchTimes, JobTimes, PacedBegin
<1>5. 0 <= MaxConcurrentDeliveries /\ t <= t
  BY BatchTimes
<1>6. Timely(jobs, t, begun, rows, t)
  BY <1>1, <1>2, <1>3, <1>4, <1>5 DEF Timely
<1> QED BY <1>6 DEF jobs

\* A batch is locked.
LEMMA TimelyBegins ==
  ASSUME StampInv, NEW batch \in SUBSET Message, Cardinality(batch) <= BatchSize,
         NEW rows, \A m \in batch : /\ rows[m].status = "Processing"
                                     /\ rows[m].lockedUntil = now + LockTime,
         NEW begun
  PROVE  Timely([m \in Message |-> IF m \in batch THEN QueuedJob(m) ELSE NoJob],
                now, begun, rows, now)
<1> DEFINE jobs == [m \in Message |-> IF m \in batch THEN QueuedJob(m) ELSE NoJob]
<1>1. \A m \in batch : jobs[m].phase = "queued" /\ jobs[m].left = Subscriptions
  <2> TAKE m \in batch
  <2>1. QueuedJob(m).phase = "queued" /\ QueuedJob(m).left = Subscriptions
    BY QueuedFits
  <2>2. jobs[m] = QueuedJob(m)
    OBVIOUS
  <2> HIDE DEF jobs
  <2> QED BY <2>1, <2>2
<1>2. \A m \in Message : m \notin batch => jobs[m].phase = "none"
  <2> SUFFICES ASSUME NEW m \in Message, m \notin batch PROVE jobs[m].phase = "none"
    OBVIOUS
  <2>1. NoJob.phase = "none"
    BY DEF NoJob
  <2>2. jobs[m] = NoJob
    OBVIOUS
  <2> HIDE DEF jobs
  <2> QED BY <2>1, <2>2
<1> HIDE DEF jobs
<1>3. Runs(jobs) = {} /\ Queue(jobs) = batch
  <2>1. \A m \in Message : jobs[m].phase # "running" /\ (jobs[m].phase = "queued" <=> m \in batch)
    BY <1>1, <1>2
  <2>2. batch \subseteq Message
    OBVIOUS
  <2>3. Queue(jobs) = batch
    BY <2>1, <2>2 DEF Queue
  <2> QED BY <2>1, <2>3 DEF Runs
<1>4. Cardinality(Runs(jobs)) = 0 /\ Cardinality(Queue(jobs)) <= BatchSize
      /\ Cardinality(Queue(jobs)) \in Nat
  BY <1>3, FS_EmptySet, JobSets
<1>5. Paced(Cardinality(Queue(jobs)), Runs(jobs), begun, MaxConcurrentDeliveries, JobTime,
            BatchSize, now, now)
  <2>1. Cardinality(Queue(jobs)) + Cardinality(Runs(jobs)) <= BatchSize
    BY <1>4, BatchTimes
  <2>2. now \in Int
    BY DEF StampInv
  <2> QED BY <1>4, <2>1, <2>2, BatchTimes, JobTimes, PacedBegin
<1>6. 0 <= MaxConcurrentDeliveries /\ now <= now
  BY BatchTimes DEF StampInv
<1>7. \A m \in Message : jobs[m].phase # "none" =>
         rows[m].status = "Processing" /\ rows[m].lockedUntil = now + LockTime
  <2>1. \A m \in Message : jobs[m].phase # "none" => m \in batch
    BY <1>2
  <2> QED BY <2>1
<1>8. \A m \in Queue(jobs) : jobs[m].left = Subscriptions
  BY <1>1, <1>3
<1>9. Timely(jobs, now, begun, rows, now)
  BY <1>3, <1>4, <1>5, <1>6, <1>7, <1>8 DEF Timely
<1> QED BY <1>9 DEF jobs

\* A job begins.
LEMMA TimelyStart ==
  ASSUME NEW jobs \in [Message -> LooseJob], NEW o \in Int, NEW begun \in [Message -> Int],
         NEW rows, NEW t \in Int, Timely(jobs, o, begun, rows, t),
         NEW m \in Queue(jobs), Cardinality(Runs(jobs)) < MaxConcurrentDeliveries,
         NEW more, more = [jobs EXCEPT ![m] = Launch(jobs[m])],
         NEW starts, starts = [begun EXCEPT ![m] = t]
  PROVE  Timely(more, o, starts, rows, t)
<1>0. m \in Message /\ jobs[m] \in LooseJob /\ jobs[m].phase = "queued"
  BY DEF Queue
<1>1. Launch(jobs[m]).phase = "running"
  <2>1. [s \in Worker |-> 0] \in [Worker -> Int] /\ 1 \in Worker
    BY Workers
  <2> QED BY <1>0, <2>1, JobFields
<1>2. /\ more[m] = Launch(jobs[m]) /\ \A n \in Message \ {m} : more[n] = jobs[n]
      /\ starts[m] = t /\ \A n \in Message \ {m} : starts[n] = begun[n]
  BY <1>0
<1>3. Runs(more) = Runs(jobs) \cup {m} /\ Queue(more) = Queue(jobs) \ {m} /\ m \notin Runs(jobs)
  BY <1>0, <1>1, <1>2 DEF Runs, Queue
<1>4. /\ Cardinality(Runs(more)) <= MaxConcurrentDeliveries
      /\ Cardinality(Queue(more)) = Cardinality(Queue(jobs)) - 1
      /\ Cardinality(Queue(jobs)) \in Nat /\ Cardinality(Queue(jobs)) > 0
  <2>1. Cardinality(Runs(more)) <= Cardinality(Runs(jobs)) + 1
        /\ Cardinality(Runs(more)) \in Nat /\ Cardinality(Runs(jobs)) \in Nat
    BY <1>3, JobSets, CardinalityWithOne
  <2>2. Cardinality(Queue(more)) = Cardinality(Queue(jobs)) - 1
    <3>1. IsFiniteSet(Queue(jobs)) /\ m \in Queue(jobs)
      BY JobSets
    <3>2. Cardinality(Queue(jobs) \ {m}) = Cardinality(Queue(jobs)) - 1
      BY <3>1, FS_RemoveElement, Zenon
    <3> QED BY <1>3, <3>2
  <2>3. Cardinality(Queue(jobs)) \in Nat /\ Cardinality(Queue(jobs)) > 0
    BY JobSets
  <2> QED BY <2>1, <2>2, <2>3, BatchTimes
<1>5. Paced(Cardinality(Queue(jobs)), Runs(jobs), begun, MaxConcurrentDeliveries, JobTime,
            BatchSize, o, t) /\ o <= t
  BY DEF Timely
<1>6. Paced(Cardinality(Queue(more)), Runs(more), starts, MaxConcurrentDeliveries, JobTime,
            BatchSize, o, t)
  <2>1. \A n \in Runs(jobs) : starts[n] = begun[n]
    BY <1>2, <1>3 DEF Runs
  <2>2. Paced(Cardinality(Queue(jobs)) - 1, Runs(jobs) \cup {m}, starts,
              MaxConcurrentDeliveries, JobTime, BatchSize, o, t)
    BY <1>4, <1>5, <2>1, JobSets, JobTimes, BatchTimes, PacedStart
  <2> QED BY <1>3, <1>4, <2>2
<1>7. t - o <= WorstCase - JobTime
  <2>1. t - o <= (Rounds(BatchSize, MaxConcurrentDeliveries) - 1) * JobTime
    BY <1>4, <1>5, JobSets, JobTimes, BatchTimes, PacedBound
  <2> QED BY <2>1, BatchTimes
<1>8. OnTime(more[m], t, t)
  <2>1. jobs[m].left <= Subscriptions
    BY Workers DEF Timely
  <2> QED BY <1>0, <1>2, <2>1, JobBegins
<1>9. \A n \in Runs(more) :
        /\ o <= starts[n] /\ OnTime(more[n], starts[n], t) /\ starts[n] - o <= WorstCase - JobTime
  <2> TAKE n \in Runs(more)
  <2>1. CASE n = m
    BY <1>2, <1>5, <1>7, <1>8, <2>1
  <2>2. CASE n # m
    <3>1. n \in Runs(jobs) /\ more[n] = jobs[n] /\ starts[n] = begun[n]
      BY <1>2, <1>3, <2>2 DEF Runs
    <3> QED BY <3>1 DEF Timely
  <2> QED BY <2>1, <2>2
<1>10. \A n \in Queue(more) : more[n].left = Subscriptions
  BY <1>2, <1>3 DEF Timely, Queue
<1>11. \A n \in Message : more[n].phase # "none" =>
         rows[n].status = "Processing" /\ rows[n].lockedUntil = o + LockTime
  BY <1>0, <1>2 DEF Timely
<1> QED BY <1>4, <1>5, <1>6, <1>9, <1>10, <1>11 DEF Timely

\* A delivery of a job ends.
LEMMA TimelyGoesOn ==
  ASSUME NEW jobs \in [Message -> LooseJob], NEW o \in Int, NEW begun \in [Message -> Int],
         NEW rows, NEW t \in Int, Timely(jobs, o, begun, rows, t),
         NEW m \in Runs(jobs), NEW s \in Busy(jobs[m]),
         NEW more, more = [jobs EXCEPT ![m] = TakeNext(jobs[m], s)]
  PROVE  Timely(more, o, begun, rows, t)
<1>0. m \in Message /\ jobs[m] \in LooseJob /\ jobs[m].phase = "running"
  BY DEF Runs
<1>1. TakeNext(jobs[m], s).phase = "running"
  <2>1. s \in Worker
    BY DEF Busy
  <2> QED BY <1>0, <2>1, JobPhases
<1>2. more[m] = TakeNext(jobs[m], s) /\ \A n \in Message \ {m} : more[n] = jobs[n]
  BY <1>0
<1>3. Runs(more) = Runs(jobs) /\ Queue(more) = Queue(jobs)
  BY <1>0, <1>1, <1>2 DEF Runs, Queue
<1>4. \A n \in Runs(more) : OnTime(more[n], begun[n], t)
  <2> TAKE n \in Runs(more)
  <2>1. OnTime(jobs[n], begun[n], t) /\ n \in Message /\ begun[n] \in Int
    BY <1>3 DEF Timely, Runs
  <2>2. CASE n = m
    <3>1. OnTime(TakeNext(jobs[m], s), begun[m], t)
      BY <1>0, <2>1, <2>2, JobGoesOn
    <3> QED BY <1>2, <2>2, <3>1
  <2>3. CASE n # m
    BY <1>2, <2>1, <2>3
  <2> QED BY <2>2, <2>3
<1>5. \A n \in Queue(more) : more[n].left = Subscriptions
  BY <1>0, <1>2, <1>3 DEF Timely, Queue
<1>6. \A n \in Message : more[n].phase # "none" =>
         rows[n].status = "Processing" /\ rows[n].lockedUntil = o + LockTime
  BY <1>0, <1>2 DEF Timely
<1> QED BY <1>3, <1>4, <1>5, <1>6 DEF Timely

\* A job ends, with whatever becomes of its row.
LEMMA TimelyEnds ==
  ASSUME NEW jobs \in [Message -> LooseJob], NEW o \in Int, NEW begun \in [Message -> Int],
         NEW rows, NEW t \in Int, Timely(jobs, o, begun, rows, t),
         NEW m \in Runs(jobs),
         NEW more, more = [jobs EXCEPT ![m] = NoJob],
         NEW others, \A n \in Message \ {m} : others[n] = rows[n]
  PROVE  Timely(more, o, begun, others, t)
<1>0. m \in Message /\ NoJob.phase = "none"
  BY DEF Runs, NoJob
<1>2. more[m] = NoJob /\ \A n \in Message \ {m} : more[n] = jobs[n]
  BY <1>0
<1>3. Runs(more) = Runs(jobs) \ {m} /\ Queue(more) = Queue(jobs)
  BY <1>0, <1>2 DEF Runs, Queue
<1>4. Cardinality(Runs(more)) <= Cardinality(Runs(jobs))
      /\ Cardinality(Runs(more)) \in Nat /\ Cardinality(Runs(jobs)) \in Nat
  BY <1>3, JobSets, CardinalityOfSome
<1>5. Paced(Cardinality(Queue(jobs)), Runs(jobs), begun, MaxConcurrentDeliveries, JobTime,
            BatchSize, o, t) /\ o <= t /\ Cardinality(Runs(jobs)) <= MaxConcurrentDeliveries
  BY DEF Timely
<1>6. Paced(Cardinality(Queue(more)), Runs(more), begun, MaxConcurrentDeliveries, JobTime,
            BatchSize, o, t)
  <2>1. Runs(more) \subseteq Runs(jobs)
    BY <1>3
  <2>2. Paced(Cardinality(Queue(jobs)), Runs(more), begun, MaxConcurrentDeliveries, JobTime,
              BatchSize, o, t)
    BY <1>5, <2>1, JobSets, JobTimes, BatchTimes, PacedEnd
  <2> QED BY <1>3, <2>2
<1>7. \A n \in Runs(more) :
        /\ o <= begun[n] /\ OnTime(more[n], begun[n], t) /\ begun[n] - o <= WorstCase - JobTime
  BY <1>2, <1>3 DEF Timely, Runs
<1>8. \A n \in Queue(more) : more[n].left = Subscriptions
  BY <1>0, <1>2, <1>3 DEF Timely, Queue
<1>9. \A n \in Message : more[n].phase # "none" =>
         others[n].status = "Processing" /\ others[n].lockedUntil = o + LockTime
  BY <1>0, <1>2 DEF Timely
<1>10. Cardinality(Runs(more)) <= MaxConcurrentDeliveries
  BY <1>4, <1>5, BatchTimes
<1> QED BY <1>5, <1>6, <1>7, <1>8, <1>9, <1>10 DEF Timely

\* A tick: no job waits that may start, none is over, no delivery has timed out.
LEMMA TimelyTick ==
  ASSUME NEW jobs \in [Message -> LooseJob], NEW o \in Int, NEW begun \in [Message -> Int],
         NEW rows, NEW t \in Int, Timely(jobs, o, begun, rows, t),
         Queue(jobs) # {} => ~(Cardinality(Runs(jobs)) < MaxConcurrentDeliveries),
         \A m \in Runs(jobs) : Busy(jobs[m]) # {},
         \A m \in Message : \A s \in Worker : jobs[m].flight[s] # Timeout,
         NEW more, more = [m \in Message |-> Aged(jobs[m])]
  PROVE  Timely(more, o, begun, rows, t + 1)
<1>1. \A m \in Message : more[m].phase = jobs[m].phase /\ more[m].left = jobs[m].left
  BY AgedFields
<1>2. Runs(more) = Runs(jobs) /\ Queue(more) = Queue(jobs)
  BY <1>1 DEF Runs, Queue
<1>3. \A m \in Runs(jobs) :
        /\ begun[m] \in Int /\ begun[m] <= t /\ t - begun[m] < JobTime
        /\ OnTime(more[m], begun[m], t + 1)
  <2> TAKE m \in Runs(jobs)
  <2>1. m \in Message /\ OnTime(jobs[m], begun[m], t) /\ more[m] = Aged(jobs[m])
    BY DEF Timely, Runs
  <2>2. begun[m] \in Int /\ jobs[m] \in LooseJob
    BY <2>1
  <2>3. Busy(jobs[m]) # {} /\ \A s \in Worker : jobs[m].flight[s] # Timeout
    BY <2>1
  <2>4. t - begun[m] < JobTime /\ OnTime(Aged(jobs[m]), begun[m], t + 1)
    BY <2>1, <2>2, <2>3, JobAges
  <2>5. begun[m] <= t
    BY <2>1 DEF OnTime
  <2> QED BY <2>1, <2>2, <2>4, <2>5
<1>4. Paced(Cardinality(Queue(jobs)), Runs(jobs), begun, MaxConcurrentDeliveries, JobTime,
            BatchSize, o, t) /\ o <= t /\ Cardinality(Runs(jobs)) <= MaxConcurrentDeliveries
  BY DEF Timely
<1>5. Cardinality(Queue(jobs)) > 0 => Cardinality(Runs(jobs)) = MaxConcurrentDeliveries
  BY <1>4, JobSets, BatchTimes
<1>6. Paced(Cardinality(Queue(jobs)), Runs(jobs), begun, MaxConcurrentDeliveries, JobTime,
            BatchSize, o, t + 1)
  BY <1>3, <1>4, <1>5, JobSets, JobTimes, BatchTimes, PacedTick
<1>7. o <= t + 1
  BY <1>4
<1>8. \A n \in Runs(more) :
        /\ o <= begun[n] /\ OnTime(more[n], begun[n], t + 1)
        /\ begun[n] - o <= WorstCase - JobTime
  BY <1>2, <1>3 DEF Timely
<1>9. \A n \in Queue(more) : more[n].left = Subscriptions
  BY <1>1, <1>2 DEF Timely, Queue
<1>10. \A n \in Message : more[n].phase # "none" =>
         rows[n].status = "Processing" /\ rows[n].lockedUntil = o + LockTime
  BY <1>1 DEF Timely
<1> QED BY <1>2, <1>4, <1>6, <1>7, <1>8, <1>9, <1>10 DEF Timely

\* Only a running job has deliveries out.
Quiet ==
  \A w \in Invocation : \A m \in Message :
    job[w][m].phase # "running" => \A s \in Worker : job[w][m].flight[s] = Free

LEMMA MadeQuiet ==
  ASSUME NEW m, NEW s \in Worker
  PROVE  NoJob.flight[s] = Free /\ QueuedJob(m).flight[s] = Free
BY DEF NoJob, QueuedJob

LEMMA QuietStep ==
  ASSUME StampInv, JobsOK, Quiet, Next
  PROVE  Quiet'
<1>1. ASSUME NEW w \in Invocation, LockBatch(w) PROVE Quiet'
  <2>1. PICK batch \in SUBSET Eligible : job' = [job EXCEPT ![w] =
          [m \in Message |-> IF m \in batch THEN QueuedJob(m) ELSE NoJob]]
    BY <1>1 DEF LockBatch, QueuedJob
  <2>2. \A v \in Invocation : \A m \in Message :
          job'[v][m] \in {job[v][m], QueuedJob(m), NoJob}
    BY <2>1 DEF JobsOK
  <2> QED BY <2>2, MadeQuiet DEF Quiet
<1>2. ASSUME NEW w \in Invocation, NEW m \in Message, JobStep(w, m) PROVE Quiet'
  <2>1. ASSUME NEW j, job' = [job EXCEPT ![w][m] = j],
               j.phase # "running" => \A s \in Worker : j.flight[s] = Free
        PROVE  Quiet'
    <3>1. \A v \in Invocation : \A n \in Message :
            job'[v][n] = IF v = w /\ n = m THEN j ELSE job[v][n]
      BY <2>1 DEF JobsOK
    <3>2. ASSUME NEW v \in Invocation, NEW n \in Message, job'[v][n].phase # "running",
                 NEW s \in Worker
          PROVE  job'[v][n].flight[s] = Free
      <4>1. CASE v = w /\ n = m
        BY <2>1, <3>1, <3>2, <4>1
      <4>2. CASE ~(v = w /\ n = m)
        BY <3>1, <3>2, <4>2 DEF Quiet
      <4> QED BY <4>1, <4>2
    <3> QED BY <3>2 DEF Quiet
  <2>2. job[w][m] \in LooseJob /\ 1 \in Worker /\ [s \in Worker |-> 0] \in [Worker -> Int]
    BY Workers DEF JobsOK
  <2>3. CASE StartJob(w, m)
    <3>1. Launch(job[w][m]).phase = "running"
      BY <2>2, JobFields
    <3> QED BY <2>1, <2>3, <3>1 DEF StartJob
  <2>4. ASSUME NEW s \in Worker, EndDelivery(w, m, s) PROVE Quiet'
    <3>1. job[w][m].phase = "running"
      BY <2>4 DEF EndDelivery, Quiet
    <3>2. TakeNext(job[w][m], s).phase = "running"
      BY <2>2, <3>1, JobFields
    <3> QED BY <2>1, <2>4, <3>2 DEF EndDelivery
  <2>5. CASE FinishJob(w, m)
    BY <2>1, <2>5, MadeQuiet DEF FinishJob
  <2> QED BY <1>2, <2>3, <2>4, <2>5 DEF JobStep
<1>3. CASE Tick
  <2>1. \A w \in Invocation : \A m \in Message : job'[w][m] = Aged(job[w][m])
    BY <1>3 DEF Tick, Aged
  <2>2. \A w \in Invocation : \A m \in Message : job[w][m] \in LooseJob
    BY DEF JobsOK
  <2> QED BY <2>1, <2>2, AgedFields DEF Quiet
<1>4. CASE Stop
  BY <1>4, MadeQuiet DEF Stop, Quiet
<1>5. ASSUME UNCHANGED job PROVE Quiet'
  BY <1>5 DEF Quiet
<1> QED BY <1>1, <1>2, <1>3, <1>4, <1>5
        DEF Next, CallStep, ReadClock, ReadLast, CompareExchange, ReleaseExpiredLocks

\* Each invocation works on a batch that keeps its schedule, and no two on one message.
OnSchedule(w) ==
  \E o \in Int : \E begun \in [Message -> Int] : Timely(job[w], o, begun, table, now)

Alone ==
  \A v, w \in Invocation : \A m \in Message : v # w => ~(AtWork(v, m) /\ AtWork(w, m))

ScheduleInv ==
  /\ JobsOK /\ Quiet
  /\ LockTime >= WorstCase => (\A w \in Invocation : OnSchedule(w)) /\ Alone

\* While the batches keep their schedule, the rows of their messages are locked.
LEMMA WorkIsHeld ==
  ASSUME StampInv, JobsOK, LockTime >= WorstCase,
         NEW w \in Invocation, OnSchedule(w), NEW m \in Message, AtWork(w, m)
  PROVE  Held(m) /\ ~Lockable(table[m]) /\ m \notin ExpiredLocks
<1>1. PICK o \in Int : \E begun \in [Message -> Int] : Timely(job[w], o, begun, table, now)
  BY DEF OnSchedule
<1>2. PICK begun \in [Message -> Int] : Timely(job[w], o, begun, table, now)
  BY <1>1
<1>3. job[w] \in [Message -> LooseJob] /\ now \in Int /\ job[w][m].phase # "none"
  BY DEF JobsOK, StampInv, AtWork
<1>4. table[m].status = "Processing" /\ table[m].lockedUntil >= now
  BY <1>2, <1>3, TimelyLocks
<1>5. now >= 0 /\ now \in Int /\ table[m].lockedUntil \in Int
  BY DEF StampInv, StampedRow
<1>6. table[m].lockedUntil # Null /\ ~(table[m].lockedUntil < now)
  BY <1>4, <1>5 DEF Null
<1> QED BY <1>4, <1>6 DEF Held, Lockable, ExpiredLocks

\* A step that moves no job and touches no row that is worked on.
LEMMA NoneMoves ==
  ASSUME JobsOK, \A w \in Invocation : OnSchedule(w), Alone,
         job' = job, now' = now,
         \A w \in Invocation : \A m \in Message : AtWork(w, m) => table'[m] = table[m]
  PROVE  (\A w \in Invocation : OnSchedule(w)') /\ Alone'
<1>1. ASSUME NEW w \in Invocation PROVE OnSchedule(w)'
  <2>1. PICK o \in Int : \E begun \in [Message -> Int] : Timely(job[w], o, begun, table, now)
    BY DEF OnSchedule
  <2>2. PICK begun \in [Message -> Int] : Timely(job[w], o, begun, table, now)
    BY <2>1
  <2>3. \A m \in Message : job[w][m].phase # "none" => table'[m] = table[m]
    BY DEF AtWork
  <2>4. Timely(job[w], o, begun, table', now)
    BY <2>2, <2>3, TimelyRows
  <2>5. Timely(job'[w], o, begun, table', now')
    BY <2>4
  <2> QED BY <2>5 DEF OnSchedule
<1>2. Alone'
  BY DEF Alone, AtWork
<1> QED BY <1>1, <1>2

\* A step of one invocation, which touches no row that another works on.
LEMMA OneMoves ==
  ASSUME JobsOK, \A v \in Invocation : OnSchedule(v), Alone,
         NEW w \in Invocation, NEW more, job' = [job EXCEPT ![w] = more], now' = now,
         \A v \in Invocation \ {w} : \A m \in Message :
           AtWork(v, m) => table'[m] = table[m] /\ more[m].phase = "none",
         NEW o \in Int, NEW begun \in [Message -> Int], Timely(more, o, begun, table', now)
  PROVE  (\A v \in Invocation : OnSchedule(v)') /\ Alone'
<1>1. job'[w] = more /\ \A v \in Invocation \ {w} : job'[v] = job[v]
  BY DEF JobsOK
<1>2. OnSchedule(w)'
  <2>1. Timely(job'[w], o, begun, table', now')
    BY <1>1
  <2> QED BY <2>1 DEF OnSchedule
<1>3. ASSUME NEW v \in Invocation \ {w} PROVE OnSchedule(v)'
  <2>1. PICK x \in Int : \E at \in [Message -> Int] : Timely(job[v], x, at, table, now)
    BY DEF OnSchedule
  <2>2. PICK at \in [Message -> Int] : Timely(job[v], x, at, table, now)
    BY <2>1
  <2>3. \A m \in Message : job[v][m].phase # "none" => table'[m] = table[m]
    BY DEF AtWork
  <2>4. Timely(job[v], x, at, table', now)
    BY <2>2, <2>3, TimelyRows
  <2>5. Timely(job'[v], x, at, table', now')
    BY <1>1, <2>4
  <2> QED BY <2>5 DEF OnSchedule
<1>4. Alone'
  <2>1. \A v \in Invocation : \A m \in Message :
          AtWork(v, m)' <=> IF v = w THEN more[m].phase # "none" ELSE AtWork(v, m)
    BY <1>1 DEF AtWork
  <2>2. \A v \in Invocation \ {w} : \A m \in Message : AtWork(v, m) => more[m].phase = "none"
    OBVIOUS
  <2>3. \A u, v \in Invocation : \A m \in Message :
          u # v => ~(AtWork(u, m)' /\ AtWork(v, m)')
    <3> SUFFICES ASSUME NEW u \in Invocation, NEW v \in Invocation, NEW m \in Message, u # v
                 PROVE  ~(AtWork(u, m)' /\ AtWork(v, m)')
      OBVIOUS
    <3>1. CASE u = w
      BY <2>1, <2>2, <3>1
    <3>2. CASE v = w
      BY <2>1, <2>2, <3>2
    <3>3. CASE u # w /\ v # w
      BY <2>1, <3>3 DEF Alone
    <3> QED BY <3>1, <3>2, <3>3
  <2> QED BY <2>3 DEF Alone
<1> QED BY <1>2, <1>3, <1>4

\* A batch: what it takes is not worked on.
LEMMA BatchIsTimely ==
  ASSUME StampInv, JobsOK, LockTime >= WorstCase,
         \A v \in Invocation : OnSchedule(v), Alone,
         NEW w \in Invocation, LockBatch(w)
  PROVE  (\A v \in Invocation : OnSchedule(v)') /\ Alone'
<1>1. PICK batch \in SUBSET Eligible :
        /\ Cardinality(batch) <= BatchSize
        /\ table' = [m \in Message |-> IF m \in batch THEN TakenRow(table[m]) ELSE table[m]]
        /\ job' = [job EXCEPT ![w] =
             [m \in Message |-> IF m \in batch THEN QueuedJob(m) ELSE NoJob]]
  BY DEF LockBatch, TakenRow, QueuedJob
<1>2. now' = now /\ now \in Int
  <2>1. now' = now
    BY DEF LockBatch
  <2>2. now \in Int
    BY DEF StampInv
  <2> QED BY <2>1, <2>2
<1>3. batch \in SUBSET Message /\ \A m \in batch : Lockable(table[m])
  BY DEF Eligible
<1>4. PICK more : more = [m \in Message |-> IF m \in batch THEN QueuedJob(m) ELSE NoJob]
  OBVIOUS
<1>5. PICK begun \in [Message -> Int] : TRUE
  <2>1. [m \in Message |-> 0] \in [Message -> Int]
    OBVIOUS
  <2> QED BY <2>1
<1>6. \A m \in batch : table'[m].status = "Processing" /\ table'[m].lockedUntil = now + LockTime
  <2> TAKE m \in batch
  <2>1. m \in Message /\ table[m] \in StampedRow /\ 0 \in Int
    BY <1>3 DEF StampInv
  <2>2. /\ TakenRow(table[m]).status = "Processing"
        /\ TakenRow(table[m]).lockedUntil = now + WholeSeconds(VisibilityTimeout)
    BY <2>1, RowFields
  <2>3. table'[m] = TakenRow(table[m])
    BY <1>1, <2>1
  <2> QED BY <2>2, <2>3 DEF LockTime
<1>7. Timely(more, now, begun, table', now)
  BY <1>1, <1>3, <1>4, <1>6, TimelyBegins
<1>8. ASSUME NEW v \in Invocation \ {w}, NEW m \in Message, AtWork(v, m)
      PROVE  table'[m] = table[m] /\ more[m].phase = "none"
  <2>1. m \notin batch
    BY <1>3, <1>8, WorkIsHeld
  <2>2. table'[m] = table[m]
    BY <1>1, <2>1
  <2>3. more[m] = NoJob
    BY <1>4, <2>1
  <2> QED BY <2>2, <2>3 DEF NoJob
<1> QED BY <1>1, <1>2, <1>4, <1>5, <1>7, <1>8, OneMoves

\* The steps of a job.
LEMMA JobIsTimely ==
  ASSUME StampInv, JobsOK, Quiet, LockTime >= WorstCase,
         \A v \in Invocation : OnSchedule(v), Alone,
         NEW w \in Invocation, NEW m \in Message, JobStep(w, m)
  PROVE  (\A v \in Invocation : OnSchedule(v)') /\ Alone'
<1>1. PICK o \in Int : \E begun \in [Message -> Int] : Timely(job[w], o, begun, table, now)
  BY DEF OnSchedule
<1>2. PICK begun \in [Message -> Int] : Timely(job[w], o, begun, table, now)
  BY <1>1
<1>3. job[w] \in [Message -> LooseJob] /\ now \in Int /\ now' = now
  <2>1. job[w] \in [Message -> LooseJob] /\ now \in Int
    BY DEF JobsOK, StampInv
  <2>2. now' = now
    BY DEF JobStep, StartJob, EndDelivery, FinishJob
  <2> QED BY <2>1, <2>2
<1>4. \A v \in Invocation \ {w} : \A n \in Message : AtWork(v, n) => job[w][n].phase = "none"
  BY DEF Alone, AtWork
<1>5. CASE StartJob(w, m)
  <2>1. m \in Queue(job[w]) /\ Cardinality(Runs(job[w])) < MaxConcurrentDeliveries
    BY <1>5 DEF StartJob, MayStart, InPhase, Queue, Runs
  <2>2. PICK more : more = [job[w] EXCEPT ![m] = Launch(job[w][m])]
    OBVIOUS
  <2>3. PICK starts : starts = [begun EXCEPT ![m] = now]
    OBVIOUS
  <2>4. starts \in [Message -> Int]
    BY <1>3, <2>3
  <2>5. Timely(more, o, starts, table, now)
    BY <1>2, <1>3, <2>1, <2>2, <2>3, TimelyStart
  <2>6. job' = [job EXCEPT ![w] = more] /\ table' = table
    BY <1>5, <2>2 DEF StartJob, JobsOK
  <2>7. \A v \in Invocation \ {w} : \A n \in Message :
          AtWork(v, n) => table'[n] = table[n] /\ more[n].phase = "none"
    <3> SUFFICES ASSUME NEW v \in Invocation \ {w}, NEW n \in Message, AtWork(v, n)
                 PROVE  more[n].phase = "none"
      BY <2>6
    <3>1. job[w][n].phase = "none" /\ job[w][m].phase = "queued"
      BY <1>4, <2>1 DEF Queue
    <3>2. more[n] = job[w][n]
      BY <1>3, <2>2, <3>1
    <3> QED BY <3>1, <3>2
  <2>8. Timely(more, o, starts, table', now)
    BY <2>5, <2>6
  <2> QED BY <1>3, <2>4, <2>6, <2>7, <2>8, OneMoves
<1>6. ASSUME NEW s \in Worker, EndDelivery(w, m, s)
      PROVE  (\A v \in Invocation : OnSchedule(v)') /\ Alone'
  <2>1. m \in Runs(job[w]) /\ s \in Busy(job[w][m])
    BY <1>6 DEF EndDelivery, Quiet, Runs, Busy
  <2>2. PICK more : more = [job[w] EXCEPT ![m] = TakeNext(job[w][m], s)]
    OBVIOUS
  <2>3. Timely(more, o, begun, table, now)
    BY <1>2, <1>3, <2>1, <2>2, TimelyGoesOn
  <2>4. job' = [job EXCEPT ![w] = more] /\ table' = table
    BY <1>6, <2>2 DEF EndDelivery, JobsOK
  <2>5. \A v \in Invocation \ {w} : \A n \in Message :
          AtWork(v, n) => table'[n] = table[n] /\ more[n].phase = "none"
    <3> SUFFICES ASSUME NEW v \in Invocation \ {w}, NEW n \in Message, AtWork(v, n)
                 PROVE  more[n].phase = "none"
      BY <2>4
    <3>1. job[w][n].phase = "none" /\ job[w][m].phase = "running"
      BY <1>4, <2>1 DEF Runs
    <3>2. more[n] = job[w][n]
      BY <1>3, <2>2, <3>1
    <3> QED BY <3>1, <3>2
  <2>6. Timely(more, o, begun, table', now)
    BY <2>3, <2>4
  <2> QED BY <1>2, <1>3, <2>4, <2>5, <2>6, OneMoves
<1>7. CASE FinishJob(w, m)
  <2>1. m \in Runs(job[w])
    BY <1>7 DEF FinishJob, AllOver, InPhase, Runs
  <2>2. PICK more : more = [job[w] EXCEPT ![m] = NoJob]
    OBVIOUS
  <2>3. \A n \in Message \ {m} : table'[n] = table[n]
    BY <1>7 DEF FinishJob, Write, StampInv
  <2>4. Timely(more, o, begun, table', now)
    BY <1>2, <1>3, <2>1, <2>2, <2>3, TimelyEnds
  <2>5. job' = [job EXCEPT ![w] = more]
    BY <1>7, <2>2 DEF FinishJob, JobsOK
  <2>6. \A v \in Invocation \ {w} : \A n \in Message :
          AtWork(v, n) => table'[n] = table[n] /\ more[n].phase = "none"
    <3> SUFFICES ASSUME NEW v \in Invocation \ {w}, NEW n \in Message, AtWork(v, n)
                 PROVE  table'[n] = table[n] /\ more[n].phase = "none"
      OBVIOUS
    <3>1. job[w][n].phase = "none" /\ job[w][m].phase = "running"
      BY <1>4, <2>1 DEF Runs
    <3>2. n # m /\ more[n] = job[w][n]
      BY <1>3, <2>2, <3>1
    <3> QED BY <2>3, <3>1, <3>2
  <2> QED BY <1>2, <1>3, <2>4, <2>5, <2>6, OneMoves
<1> QED BY <1>5, <1>6, <1>7 DEF JobStep

\* A tick comes when nothing is left to do at its instant.
LEMMA TickIsTimely ==
  ASSUME StampInv, JobsOK, \A v \in Invocation : OnSchedule(v), Alone, Tick
  PROVE  (\A v \in Invocation : OnSchedule(v)') /\ Alone'
<1>1. /\ now' = now + 1 /\ table' = table
      /\ \A w \in Invocation, m \in Message : ~Urgent(w, m)
      /\ job' = [w \in Invocation |-> [m \in Message |-> Aged(job[w][m])]]
  BY DEF Tick, Aged
<1>2. ASSUME NEW w \in Invocation PROVE OnSchedule(w)'
  <2>1. PICK o \in Int : \E begun \in [Message -> Int] : Timely(job[w], o, begun, table, now)
    BY DEF OnSchedule
  <2>2. PICK begun \in [Message -> Int] : Timely(job[w], o, begun, table, now)
    BY <2>1
  <2>3. job[w] \in [Message -> LooseJob] /\ now \in Int
    BY DEF JobsOK, StampInv
  <2>4. \A m \in Message :
          /\ ~MayStart(w, m) /\ ~AllOver(w, m) /\ \A s \in Worker : job[w][m].flight[s] # Timeout
    BY <1>1 DEF Urgent
  <2>5. Queue(job[w]) # {} => ~(Cardinality(Runs(job[w])) < MaxConcurrentDeliveries)
    BY <2>4 DEF MayStart, InPhase, Queue, Runs
  <2>6. \A m \in Runs(job[w]) : Busy(job[w][m]) # {}
    BY <2>4 DEF AllOver, InPhase, Busy, Runs
  <2>7. PICK more : more = [m \in Message |-> Aged(job[w][m])]
    OBVIOUS
  <2>8. Timely(more, o, begun, table, now + 1)
    BY <2>2, <2>3, <2>4, <2>5, <2>6, <2>7, TimelyTick
  <2>9. Timely(job'[w], o, begun, table', now')
    BY <1>1, <2>7, <2>8
  <2> QED BY <2>9 DEF OnSchedule
<1>3. Alone'
  <2>1. \A w \in Invocation : \A m \in Message : job'[w][m].phase = job[w][m].phase
    <3> TAKE w \in Invocation
    <3> TAKE m \in Message
    <3>1. job'[w][m] = Aged(job[w][m]) /\ job[w][m] \in LooseJob
      BY <1>1 DEF JobsOK
    <3> QED BY <3>1, AgedFields
  <2> QED BY <2>1 DEF Alone, AtWork
<1> QED BY <1>2, <1>3

\* Invocations without batches.
LEMMA IdleIsTimely ==
  ASSUME now \in Int, job = [w \in Invocation |-> [m \in Message |-> NoJob]]
  PROVE  (\A w \in Invocation : OnSchedule(w)) /\ Alone
<1>1. PICK begun \in [Message -> Int] : TRUE
  <2>1. [m \in Message |-> 0] \in [Message -> Int]
    OBVIOUS
  <2> QED BY <2>1
<1>2. ASSUME NEW w \in Invocation PROVE OnSchedule(w)
  <2>1. Timely([m \in Message |-> NoJob], now, begun, table, now)
    BY TimelyIdle
  <2>2. Timely(job[w], now, begun, table, now)
    BY <2>1
  <2> QED BY <1>1, <2>2 DEF OnSchedule
<1>3. Alone
  BY DEF Alone, AtWork, NoJob
<1> QED BY <1>2, <1>3

LEMMA ScheduleStep ==
  ASSUME StampInv, JobsOK, Quiet, LockTime >= WorstCase,
         \A v \in Invocation : OnSchedule(v), Alone, [Next]_vars
  PROVE  (\A v \in Invocation : OnSchedule(v)') /\ Alone'
<1>1. ASSUME NEW w \in Invocation, LockBatch(w)
      PROVE  (\A v \in Invocation : OnSchedule(v)') /\ Alone'
  BY <1>1, BatchIsTimely
<1>2. ASSUME NEW w \in Invocation, NEW m \in Message, JobStep(w, m)
      PROVE  (\A v \in Invocation : OnSchedule(v)') /\ Alone'
  BY <1>2, JobIsTimely
<1>3. CASE Tick
  BY <1>3, TickIsTimely
<1>4. ASSUME UNCHANGED <<job, now>>, UNCHANGED table \/ \E w \in Invocation : ReleaseExpiredLocks(w)
      PROVE  (\A v \in Invocation : OnSchedule(v)') /\ Alone'
  <2>1. \A w \in Invocation : \A m \in Message : AtWork(w, m) => table'[m] = table[m]
    <3> SUFFICES ASSUME NEW w \in Invocation, NEW m \in Message, AtWork(w, m)
                 PROVE  table'[m] = table[m]
      OBVIOUS
    <3>1. m \notin ExpiredLocks
      BY WorkIsHeld
    <3> QED BY <1>4, <3>1 DEF ReleaseExpiredLocks
  <2> QED BY <1>4, <2>1, NoneMoves
<1>5. CASE Stop
  <2>1. job' = [w \in Invocation |-> [m \in Message |-> NoJob]] /\ now' = now /\ table' = table
    BY <1>5 DEF Stop
  <2>2. now' \in Int
    BY <2>1 DEF StampInv
  <2>3. PICK begun \in [Message -> Int] : TRUE
    <3>1. [m \in Message |-> 0] \in [Message -> Int]
      OBVIOUS
    <3> QED BY <3>1
  <2>4. ASSUME NEW w \in Invocation PROVE OnSchedule(w)'
    <3>1. Timely([m \in Message |-> NoJob], now', begun, table', now')
      BY <2>2, TimelyIdle
    <3>2. Timely(job'[w], now', begun, table', now')
      BY <2>1, <3>1
    <3> QED BY <2>2, <2>3, <3>2 DEF OnSchedule
  <2>5. Alone'
    BY <2>1 DEF Alone, AtWork, NoJob
  <2> QED BY <2>4, <2>5
<1>6. CASE UNCHANGED vars
  BY <1>4, <1>6 DEF vars
<1>7. ASSUME NEW w \in Invocation, CallStep(w)
      PROVE  (\A v \in Invocation : OnSchedule(v)') /\ Alone'
  <2>1. CASE LockBatch(w)
    BY <1>1, <2>1
  <2>2. CASE ~LockBatch(w)
    <3>1. UNCHANGED <<job, now>> /\ (UNCHANGED table \/ ReleaseExpiredLocks(w))
      BY <1>7, <2>2 DEF CallStep, ReadClock, ReadLast, CompareExchange, ReleaseExpiredLocks
    <3> QED BY <1>4, <3>1
  <2> QED BY <2>1, <2>2
<1> QED BY <1>2, <1>3, <1>5, <1>6, <1>7 DEF Next

LEMMA ScheduleInvariant == Spec => [](StampInv /\ ScheduleInv)
<1>1. Init => ScheduleInv
  <2> SUFFICES ASSUME Init PROVE ScheduleInv
    OBVIOUS
  <2>1. JobsOK
    BY NoJobFits DEF Init, JobsOK
  <2>2. (\A w \in Invocation : OnSchedule(w)) /\ Alone
    BY IdleIsTimely DEF Init
  <2>3. Quiet
    BY MadeQuiet DEF Init, Quiet
  <2> QED BY <2>1, <2>2, <2>3 DEF ScheduleInv
<1>2. StampInv /\ ScheduleInv /\ [Next]_vars => ScheduleInv'
  <2> SUFFICES ASSUME StampInv, ScheduleInv, [Next]_vars PROVE ScheduleInv'
    OBVIOUS
  <2>1. JobsOK' /\ Quiet'
    <3>1. CASE Next
      BY <3>1, JobsStep, QuietStep DEF ScheduleInv
    <3>2. CASE UNCHANGED vars
      BY <3>2 DEF vars, ScheduleInv, JobsOK, Quiet
    <3> QED BY <3>1, <3>2
  <2>2. LockTime >= WorstCase => (\A w \in Invocation : OnSchedule(w)') /\ Alone'
    BY ScheduleStep DEF ScheduleInv
  <2> QED BY <2>1, <2>2 DEF ScheduleInv, LockTime, WholeSeconds, WorstCase, Rounds
<1> QED BY <1>1, <1>2, StampInvariant, PTL DEF Spec

\* When VisibilityTimeout, cut to whole seconds, is at least the rounds of a batch times
\* the rounds of a message times the timeout of a subscription, no lock expires under the
\* job that took it, jobs that wait for their slot included, and no message is processed
\* twice at a time: the two levels of Parallel.ForEachAsync keep within the time that
\* DefaultVisibilityTimeout must cover.
THEOREM LocksOutliveJobs == Spec => []LockOutlivesJob
<1>1. StampInv /\ ScheduleInv => LockOutlivesJob
  <2> SUFFICES ASSUME StampInv, ScheduleInv, LockTime >= WorstCase,
                      NEW w \in Invocation, NEW m \in Message, AtWork(w, m)
               PROVE  Held(m) /\ \A v \in Invocation \ {w} : ~AtWork(v, m)
    BY DEF LockOutlivesJob, LockTime
  <2>1. JobsOK /\ OnSchedule(w) /\ Alone
    BY DEF ScheduleInv
  <2>2. Held(m)
    BY <2>1, WorkIsHeld
  <2> QED BY <2>1, <2>2 DEF Alone
<1> QED BY <1>1, ScheduleInvariant, PTL
=============================================================================
