------------------------ MODULE OutboxRetentionProofs ------------------------
(***************************************************************************)
(* Proofs about the pipeline next to the purges (RetentionSpec).           *)
(*                                                                         *)
(*   1. What the pipeline takes for granted survives the purges: types,    *)
(*      idle pollers, the lock gate and what jobs have seen acknowledged.  *)
(*   2. A purged message leaves nothing behind.                            *)
(*   3. Exactly once, for messages whose attempts are not forgotten while  *)
(*      they are open: the ledger and OnceInv hold for those alone.        *)
(*   4. The refinement of the safety part of OutboxPromise.                *)
(***************************************************************************)
EXTENDS OutboxRetention, OutboxPipelineProofs

-----------------------------------------------------------------------------
(* 1. The invariants of the pipeline *)

FateOK == fate \in [Message -> {"open", "delivered", "dead"}]

\* The inductive invariants of direct delivery that retention leaves intact.
HostInv == TypeInv /\ IdleInv /\ GateInv /\ AckInv

PurgeStep == \E m \in Message : PurgeOldAttempts(m) \/ PurgeMessages(CreatedAt[m] + 1)

\* What both purges have in common.
LEMMA PurgeFrame ==
  ASSUME TypeInv, PurgeStep
  PROVE  /\ UNCHANGED <<active, hint, pc, skip, stopped, job, cancelled, faults, overruns,
                        acks, disturbed>>
         /\ \A m \in Message : attempts'[m] \in SUBSET attempts[m]
         /\ attempts' = [m \in Message |-> attempts'[m]]
         /\ \A m \in Message :
              row'[m] = row[m] \/ (/\ row[m].status \in {"Delivered", "DeadLettered"}
                                   /\ row'[m] = [row[m] EXCEPT !.status = "Purged"])
<1>1. ASSUME NEW n \in Message, PurgeOldAttempts(n)
      PROVE  /\ \A m \in Message : attempts'[m] \in SUBSET attempts[m] /\ row'[m] = row[m]
             /\ attempts' = [m \in Message |-> attempts'[m]]
  <2>1. PICK old : attempts' = [attempts EXCEPT ![n] = @ \ old]
    BY <1>1 DEF PurgeOldAttempts
  <2> QED BY <1>1, <2>1 DEF PurgeOldAttempts, TypeInv, AttemptsOK
<1>2. ASSUME NEW c, PurgeMessages(c)
      PROVE  /\ \A m \in Message : attempts'[m] \in SUBSET attempts[m]
             /\ attempts' = [m \in Message |-> attempts'[m]]
             /\ \A m \in Message :
                  row'[m] = row[m] \/ (/\ row[m].status \in {"Delivered", "DeadLettered"}
                                       /\ row'[m] = [row[m] EXCEPT !.status = "Purged"])
  BY <1>2 DEF PurgeMessages, PurgeProcessedMessages
<1>3. UNCHANGED <<active, hint, poll, work, budget, history>>
  BY DEF PurgeStep, PurgeOldAttempts, PurgeMessages
<1> QED BY <1>1, <1>2, <1>3 DEF PurgeStep, poll, work, budget, history

\* A purge is a step of the store, or leaves the table alone.
LEMMA PurgeIsStoreStep == ASSUME PurgeStep PROVE [StoreStep]_row
BY DEF PurgeStep, PurgeOldAttempts, PurgeMessages, StoreStep, MaintenanceStep

LEMMA PurgeKeepsTypes == ASSUME TypeInv, PurgeStep PROVE TypeInv'
<1>1. StoreInv'
  BY PurgeIsStoreStep, StoreInvKept DEF TypeInv
<1>2. AttemptsOK'
  <2>1. \A m \in Message : attempts'[m] \in SUBSET attempts[m] /\ IsFiniteSet(attempts[m])
                           /\ attempts[m] \in SUBSET Attempt
    BY PurgeFrame DEF TypeInv, AttemptsOK
  <2>2. \A m \in Message : IsFiniteSet(attempts'[m])
    BY <2>1, FS_Subset
  <2>3. \A m \in Message : attempts'[m] \in SUBSET Attempt
    BY <2>1
  <2> QED BY <2>2, <2>3, PurgeFrame DEF AttemptsOK
<1>3. JobsOK' /\ PollOK' /\ HistoryOK'
  BY PurgeFrame DEF TypeInv, JobsOK, PollOK, HistoryOK
<1> QED BY <1>1, <1>2, <1>3 DEF TypeInv

\* A row somebody works on is not purged: its lock is held.
LEMMA PurgeKeepsGate == ASSUME TypeInv, GateInv, PurgeStep PROVE GateInv'
<1> SUFFICES ASSUME NEW m \in Message, Guarded(m)' PROVE Gate(m)'
  BY DEF GateInv
<1>1. Gate(m) /\ UNCHANGED job
  BY PurgeFrame DEF GateInv, Guarded
<1>2. CASE row'[m] = row[m]
  BY <1>1, <1>2 DEF Gate, Working, IsLockHeld, Owns, LockHeld
<1>3. CASE row[m].status \in {"Delivered", "DeadLettered"}
  BY <1>1, <1>3 DEF Gate, Working, IsLockHeld, LockHeld
<1> QED BY <1>2, <1>3, PurgeFrame

LEMMA PurgeKeepsAcks == ASSUME TypeInv, AckInv, PurgeStep PROVE AckInv'
<1>1. RecordsAcked'
  BY PurgeFrame DEF AckInv, RecordsAcked
<1>2. JobsAcked'
  BY PurgeFrame DEF AckInv, JobsAcked
<1>3. DeliveredMeansAcknowledged'
  <2>1. \A m \in Message : row'[m].status = "Delivered" => row[m].status = "Delivered"
    BY PurgeFrame DEF TypeInv, StoreInv, StoreTypeOK, Row
  <2> QED BY <2>1, PurgeFrame DEF AckInv, DeliveredMeansAcknowledged
<1> QED BY <1>1, <1>2, <1>3 DEF AckInv

LEMMA HostInvKept == HostInv /\ [RetentionNext]_<<vars, retention>> => HostInv'
<1> SUFFICES ASSUME HostInv, [RetentionNext]_<<vars, retention>> PROVE HostInv'
  OBVIOUS
<1>1. TypeInv /\ IdleInv /\ GateInv /\ AckInv
  BY DEF HostInv
<1>2. CASE [Next]_vars
  BY <1>1, <1>2, TypeInvKept, IdleInvKept, GateInvKept, AckInvKept DEF HostInv
<1>3. CASE PurgeStep
  <2>1. IdleInv'
    BY <1>1, <1>3, PurgeFrame DEF IdleInv, Idle, Busy
  <2> QED BY <1>1, <1>3, <2>1, PurgeKeepsTypes, PurgeKeepsGate, PurgeKeepsAcks DEF HostInv
<1> QED BY <1>2, <1>3 DEF RetentionNext, PurgeStep

LEMMA HostInvariant == RetentionSpec => []HostInv
<1>1. RetentionInit => HostInv
  BY TypeInvInit, GateStarts, AckStarts DEF RetentionInit, HostInv, Init, IdleInv
<1> QED BY <1>1, HostInvKept, PTL DEF RetentionSpec

\* The store guards its own rows against the purges too: retention adds no way to
\* write the table that the store does not offer.
THEOREM RetentionUsesStore == RetentionSpec => [][StoreStep]_row
<1>1. HostInv /\ [RetentionNext]_<<vars, retention>> => [StoreStep]_row
  <2>1. HostInv => TypeOK
    BY TypeInvIsTypeOK DEF HostInv
  <2>2. UNCHANGED <<vars, retention>> => UNCHANGED row
    BY DEF vars, tables
  <2> QED BY <2>1, <2>2, NextIsStoreStep, PurgeIsStoreStep DEF RetentionNext, PurgeStep
<1> QED BY <1>1, HostInvariant, PTL DEF RetentionSpec

\* No two jobs work on one message while it is purged from or purged.
THEOREM RetentionKeepsGate == RetentionSpec => []LockGate
<1>1. HostInv => LockGate
  BY DEF HostInv, GateInv, Guarded, Gate, LockGate
<1> QED BY <1>1, HostInvariant, PTL

-----------------------------------------------------------------------------
(* 2. No orphans *)

\* Direct delivery neither purges a row nor brings one back.
LEMMA NextNeverPurges ==
  ASSUME TypeInv, IdleInv, Next, NEW m \in Message
  PROVE  /\ row'[m].status = "Purged" <=> row[m].status = "Purged"
         /\ row[m].status \in Terminal \cup {"Purged"} => row'[m].status = row[m].status
<1>0. row \in [Message -> Row] /\ row[m] \in Row
  BY DEF TypeInv, StoreInv, StoreTypeOK
<1>1. row'[m].status = row[m].status \/ row'[m].status \notin {"Purged"}
  <2>1. CASE \E w \in Worker : LockTaken(w, m)
    BY <1>0, <2>1 DEF LockTaken, Locked, Row
  <2>2. CASE LockReleased(m)
    BY <1>0, <2>2 DEF LockReleased, Unlocked, Row
  <2>3. ASSUME NEW w \in Worker, IsStatusWrite(w, m)
        PROVE  row'[m].status = row[m].status \/ row'[m].status # "Purged"
    <3>1. ASSUME NEW r, r.status # "Purged", GiveUp(Host[w], m, r)
          PROVE  row'[m].status = row[m].status \/ row'[m].status # "Purged"
      BY <1>0, <3>1 DEF GiveUp
    <3>2. \A s \in {"Delivered", "DeadLettered", "Pending"} : Unlocked(row[m], s).status = s
      BY <1>0 DEF Unlocked, Row
    <3>3. [Unlocked(row[m], "Pending") EXCEPT !.retryCount = @ + 1, !.due = FALSE].status = "Pending"
      BY <1>0 DEF Unlocked, Row
    <3> QED BY <2>3, <3>1, <3>2, <3>3 DEF IsStatusWrite, Processed, HandleMessageFailure,
              DeadLetter, MarkAsProcessed, MarkAsDeadLettered, IncrementRetry
  <2>4. CASE Expire(m) \/ BecomeDue(m)
    BY <1>0, <2>4 DEF Expire, LeaseExpires, BecomeDue, RetryDue, Row
  <2> QED BY <2>1, <2>2, <2>3, <2>4, MessageSteps, AttemptStepFrame DEF MessageStep
<1>2. row'[m] = row[m] \/ Final(row[m], row'[m])
  BY NextIsStoreStep, TypeInvIsTypeOK, InvariantStep, RowStepIsFinal DEF TypeInv
<1>3. row[m].status \in Terminal =>
        row'[m].status \in {row[m].status, "Purged"}
  BY <1>0, <1>2 DEF Final, Row
<1> QED BY <1>1, <1>2, <1>3 DEF Final, Terminal

\* A job past the death of its message has its INSERT refused.
LEMMA PurgedStaysEmpty ==
  ASSUME TypeInv, IdleInv, NoOrphanAttempts, Next
  PROVE  NoOrphanAttempts'
<1> SUFFICES ASSUME NEW m \in Message, row'[m].status = "Purged" PROVE attempts'[m] = {}
  BY DEF NoOrphanAttempts
<1>1. row[m].status = "Purged" /\ attempts[m] = {}
  BY NextNeverPurges DEF NoOrphanAttempts
<1>2. CASE \A w \in Worker : ~AttemptStep(w, m)
  BY <1>1, <1>2, RecordsStep
<1>3. ASSUME NEW w \in Worker, AttemptStep(w, m) PROVE attempts'[m] = {}
  <2>1. InsertRejected(m, job[w][m].new)
    BY <1>1 DEF InsertRejected
  <2>2. UNCHANGED attempts
    BY <1>3, <2>1 DEF AttemptStep, ReadStates, Deliver, SaveAttempts, tables
  <2> QED BY <1>1, <2>2
<1> QED BY <1>2, <1>3

\* A deleted message leaves no attempts behind, whatever job outlived it.
THEOREM PurgedLeavesNothing == RetentionSpec => []NoOrphanAttempts
<1>1. RetentionInit => NoOrphanAttempts
  BY DEF RetentionInit, Init, NoOrphanAttempts, NewRow
<1>2. ASSUME TypeInv, NoOrphanAttempts, PurgeStep PROVE NoOrphanAttempts'
  <2> SUFFICES ASSUME NEW m \in Message, row'[m].status = "Purged" PROVE attempts'[m] = {}
    BY DEF NoOrphanAttempts
  <2>1. ASSUME NEW n \in Message, PurgeOldAttempts(n) PROVE attempts'[m] = {}
    <3>1. attempts[m] = {}
      BY <1>2, <2>1 DEF PurgeOldAttempts, NoOrphanAttempts
    <3> QED BY <1>2, <3>1, PurgeFrame
  <2>2. ASSUME NEW c, PurgeMessages(c) PROVE attempts'[m] = {}
    BY <1>2, <2>2 DEF PurgeMessages, NoOrphanAttempts
  <2> QED BY <1>2, <2>1, <2>2 DEF PurgeStep
<1>3. HostInv /\ NoOrphanAttempts /\ [RetentionNext]_<<vars, retention>> => NoOrphanAttempts'
  <2>1. NoOrphanAttempts /\ UNCHANGED <<vars, retention>> => NoOrphanAttempts'
    BY DEF NoOrphanAttempts, vars, tables
  <2> QED BY <1>2, <2>1, PurgedStaysEmpty DEF HostInv, RetentionNext, PurgeStep
<1> QED BY <1>1, <1>3, HostInvariant, PTL DEF RetentionSpec

-----------------------------------------------------------------------------
(* 3. Exactly once *)

\* A message that is settled is not delivered any more; an open one whose attempts
\* were not purged has them complete.
OnceUnlessForgotten(m) ==
  /\ \A s \in Subscription : acks[m][s] # 2
  /\ ~Settled(m) => Ledger(m) /\ Once(m)

ForgottenInv == \A m \in Message : m \notin disturbed \cup forgotten => OnceUnlessForgotten(m)

LEMMA SettledIsQuiet ==
  ASSUME TypeInv, IdleInv, Next, NEW m \in Message, Gate(m), Settled(m)
  PROVE  acks'[m] = acks[m] /\ Settled(m)'
<1>1. \A w \in Worker : ~Working(w, m)
  BY DEF Gate, IsLockHeld, LockHeld, Settled, Terminal
<1>2. \A w \in Worker : ~AttemptStep(w, m)
  BY <1>1, AttemptStepFrame DEF Working
<1>3. Settled(m)'
  BY NextNeverPurges DEF Settled
<1> QED BY <1>2, <1>3, RecordsStep

LEMMA NextKeepsOnce ==
  ASSUME HostInv, ForgottenInv, Next, UNCHANGED retention
  PROVE  ForgottenInv'
<1> SUFFICES ASSUME NEW m \in Message, m \notin disturbed', m \notin forgotten
             PROVE  OnceUnlessForgotten(m)'
  BY DEF ForgottenInv, retention
<1>0. TypeInv /\ IdleInv /\ GateInv
  BY DEF HostInv
<1>1. m \notin disturbed /\ Gate(m) /\ OnceUnlessForgotten(m)
  BY <1>0, DisturbedGrows DEF GateInv, Guarded, ForgottenInv
<1>2. CASE Settled(m)
  BY <1>0, <1>1, <1>2, SettledIsQuiet DEF OnceUnlessForgotten
<1>3. CASE ~Settled(m)
  <2>1. Ledger(m)' /\ Once(m)'
    BY <1>0, <1>1, <1>3, LedgerKept, OnceKept DEF OnceUnlessForgotten
  <2> QED BY <2>1 DEF OnceUnlessForgotten, Once
<1> QED BY <1>2, <1>3

\* A purge of its attempts makes an open message a forgotten one, and the purge of
\* a message concerns settled ones.
LEMMA PurgeKeepsOnce ==
  ASSUME TypeInv, ForgottenInv, PurgeStep
  PROVE  ForgottenInv'
<1> SUFFICES ASSUME NEW m \in Message, m \notin disturbed', m \notin forgotten'
             PROVE  OnceUnlessForgotten(m)'
  BY DEF ForgottenInv
<1>0. UNCHANGED <<disturbed, acks, job>> /\ row \in [Message -> Row]
  BY PurgeFrame DEF TypeInv, StoreInv, StoreTypeOK
<1>1. ASSUME OnceUnlessForgotten(m), row'[m] = row[m], attempts'[m] = attempts[m]
      PROVE  OnceUnlessForgotten(m)'
  BY <1>0, <1>1 DEF OnceUnlessForgotten, Settled, Ledger, Once
<1>2. ASSUME OnceUnlessForgotten(m), Settled(m)' PROVE OnceUnlessForgotten(m)'
  BY <1>0, <1>2 DEF OnceUnlessForgotten
<1>3. ASSUME NEW n \in Message, PurgeOldAttempts(n) PROVE OnceUnlessForgotten(m)'
  <2>1. UNCHANGED row /\ m \notin forgotten /\ (n = m => Settled(m))
    BY <1>3 DEF PurgeOldAttempts
  <2>2. OnceUnlessForgotten(m)
    BY <1>0, <2>1 DEF ForgottenInv
  <2>3. CASE n = m
    BY <1>2, <2>1, <2>2, <2>3 DEF Settled
  <2>4. CASE n # m
    <3>1. attempts'[m] = attempts[m]
      BY <1>3, <2>4 DEF PurgeOldAttempts, TypeInv, AttemptsOK
    <3> QED BY <1>1, <2>1, <2>2, <3>1
  <2> QED BY <2>3, <2>4
<1>4. ASSUME NEW c, PurgeMessages(c) PROVE OnceUnlessForgotten(m)'
  <2>1. OnceUnlessForgotten(m)
    BY <1>0, <1>4 DEF PurgeMessages, ForgottenInv
  <2>2. CASE row'[m] = row[m]
    BY <1>1, <1>4, <2>1, <2>2 DEF PurgeMessages
  <2>3. CASE row'[m] # row[m]
    <3>0. row[m] \in Row /\ row'[m] = [row[m] EXCEPT !.status = "Purged"]
      BY <1>0, <2>3, PurgeFrame
    <3>1. row'[m].status = "Purged"
      BY <3>0 DEF Row
    <3> QED BY <1>2, <2>1, <3>1 DEF Settled
  <2> QED BY <2>2, <2>3
<1> QED BY <1>3, <1>4 DEF PurgeStep

\* Exactly once under retention: beyond what disturbs the pipeline anyway, a
\* second acknowledgement takes a purge of attempts of a message that is open.
\* Purges of settled messages repeat no delivery.
THEOREM NoDuplicateUnforgotten == RetentionSpec => []DuplicateOnlyIfForgotten
<1>1. RetentionInit => ForgottenInv
  BY LedgerStarts, OnceStarts DEF RetentionInit, ForgottenInv, OnceUnlessForgotten, Once
<1>2. HostInv /\ ForgottenInv /\ [RetentionNext]_<<vars, retention>> => ForgottenInv'
  <2>1. ForgottenInv /\ UNCHANGED <<vars, retention>> => ForgottenInv'
    BY DEF vars, tables, work, history, retention, ForgottenInv, OnceUnlessForgotten, Settled,
           Ledger, Once
  <2> QED BY <2>1, NextKeepsOnce, PurgeKeepsOnce DEF HostInv, RetentionNext, PurgeStep
<1>3. ForgottenInv => DuplicateOnlyIfForgotten
  BY DEF ForgottenInv, OnceUnlessForgotten, DuplicateOnlyIfForgotten
<1> QED BY <1>1, <1>2, <1>3, HostInvariant, PTL DEF RetentionSpec

-----------------------------------------------------------------------------
(* 4. The promise outlives the purges *)

KeptOutcome == [m \in Message |-> IF row[m].status = "Purged" THEN fate[m] ELSE OutcomeOf[m]]

\* What the pipeline does to the promise (StepKeepsPromise) it does to the promise
\* that remembers the fate of purged messages: it does not touch those.
LEMMA NextKeepsKept ==
  ASSUME HostInv, Next, UNCHANGED retention
  PROVE  [Kept!PromiseNext]_(Kept!promise)
<1>0. TypeInv /\ IdleInv /\ AckInv /\ fate' = fate
  BY DEF HostInv, retention
<1> DEFINE Same == KeptOutcome' = KeptOutcome
<1>1. \A m \in Message : row'[m].status = "Purged" <=> row[m].status = "Purged"
  BY <1>0, NextNeverPurges
<1>2. ASSUME OutcomeOf' = OutcomeOf PROVE Same
  BY <1>0, <1>1, <1>2 DEF KeptOutcome
<1>3. KeptOutcome = [m \in Message |-> IF row[m].status = "Purged" THEN fate[m] ELSE Outcome(row[m])]
  BY DEF KeptOutcome, OutcomeOf
<1>4. KeptOutcome' = [m \in Message |-> IF row'[m].status = "Purged" THEN fate'[m] ELSE Outcome(row'[m])]
  BY DEF KeptOutcome, OutcomeOf
<1>5. CASE UNCHANGED (Promise!promise)
  <2>1. OutcomeOf' = OutcomeOf /\ AckedOf' = AckedOf /\ active' = active
    BY <1>5 DEF Promise!promise, OutcomeOf, AckedOf
  <2> QED BY <1>2, <1>3, <1>4, <2>1 DEF Kept!promise, AckedOf
<1>6. ASSUME NEW m \in Message, NEW s \in Subscription, Promise!Acknowledge(m, s)
      PROVE  [Kept!PromiseNext]_(Kept!promise)
  <2>1. OutcomeOf' = OutcomeOf /\ AckedOf' = [AckedOf EXCEPT ![m] = @ \cup {s}] /\ active' = active
    BY <1>6 DEF Promise!Acknowledge, OutcomeOf, AckedOf
  <2>2. Kept!Acknowledge(m, s)
    BY <1>2, <1>3, <1>4, <2>1 DEF Kept!Acknowledge, AckedOf
  <2> QED BY <2>2 DEF Kept!PromiseNext
<1>7. ASSUME NEW s \in Subscription, Promise!Unsubscribe(s)
      PROVE  [Kept!PromiseNext]_(Kept!promise)
  <2>1. OutcomeOf' = OutcomeOf /\ AckedOf' = AckedOf /\ active' = active \ {s}
    BY <1>7 DEF Promise!Unsubscribe, OutcomeOf, AckedOf
  <2>2. Kept!Unsubscribe(s)
    BY <1>2, <1>3, <1>4, <2>1 DEF Kept!Unsubscribe, AckedOf
  <2> QED BY <2>2 DEF Kept!PromiseNext
<1>8. ASSUME NEW m \in Message, NEW o \in {"delivered", "dead"}, Promise!Settle(m, o)
      PROVE  [Kept!PromiseNext]_(Kept!promise)
  <2>1. /\ OutcomeOf[m] = "open" /\ (o = "delivered" => active \subseteq AckedOf[m])
        /\ OutcomeOf' = [OutcomeOf EXCEPT ![m] = o] /\ AckedOf' = AckedOf /\ active' = active
    BY <1>8 DEF Promise!Settle, OutcomeOf, AckedOf
  <2>2. Outcome(row'[m]) = o
    BY <2>1 DEF OutcomeOf
  <2>3. row[m].status # "Purged" /\ row'[m].status # "Purged"
    BY <1>1, <2>2 DEF Outcome
  <2>4. KeptOutcome[m] = "open" /\ KeptOutcome' = [KeptOutcome EXCEPT ![m] = o]
    <3>1. OutcomeOf'[m] = o /\ \A n \in Message \ {m} : OutcomeOf'[n] = OutcomeOf[n]
      BY <2>1 DEF OutcomeOf
    <3>2. \A n \in Message : KeptOutcome'[n] = IF n = m THEN o ELSE KeptOutcome[n]
      BY <1>0, <1>1, <2>3, <3>1 DEF KeptOutcome
    <3>3. KeptOutcome[m] = "open"
      BY <2>1, <2>3 DEF KeptOutcome
    <3> QED BY <3>2, <3>3 DEF KeptOutcome
  <2>5. Kept!Settle(m, o)
    BY <1>3, <1>4, <2>1, <2>4 DEF Kept!Settle, AckedOf
  <2> QED BY <2>5 DEF Kept!PromiseNext
<1> QED BY <1>0, <1>5, <1>6, <1>7, <1>8, StepKeepsPromise DEF Promise!PromiseNext

\* A message is deleted with the outcome it had, so a purge is a stutter.
LEMMA PurgeKeepsKept ==
  ASSUME TypeInv, FateOK, PurgeStep
  PROVE  UNCHANGED Kept!promise
<1>1. acks' = acks /\ active' = active
  BY PurgeFrame
<1>2. row \in [Message -> Row]
  BY DEF TypeInv, StoreInv, StoreTypeOK
<1>3. ASSUME NEW m \in Message
      PROVE  (IF row'[m].status = "Purged" THEN fate'[m] ELSE Outcome(row'[m]))
               = IF row[m].status = "Purged" THEN fate[m] ELSE Outcome(row[m])
  <2>1. CASE row'[m] = row[m]
    <3>1. fate'[m] = fate[m]
      BY <2>1 DEF PurgeStep, PurgeOldAttempts, PurgeMessages, FateOK
    <3> QED BY <2>1, <3>1
  <2>2. CASE row'[m] # row[m]
    <3>1. /\ row[m].status \in {"Delivered", "DeadLettered"}
          /\ row'[m] = [row[m] EXCEPT !.status = "Purged"]
      BY <2>2, PurgeFrame
    <3>2. row'[m].status = "Purged" /\ row[m].status # "Purged"
      BY <1>2, <3>1 DEF Row
    <3>3. fate'[m] = Outcome(row[m])
      BY <2>2 DEF PurgeStep, PurgeOldAttempts, PurgeMessages
    <3> QED BY <3>2, <3>3
  <2> QED BY <2>1, <2>2
<1> QED BY <1>1, <1>3 DEF Kept!promise

\* Forgotten attempts cost duplicates, never a false Delivered, and what is settled
\* stays settled when its row is gone: under retention too, every step is one that
\* the promise of the outbox allows.
THEOREM PromiseKeptUnderRetention == RetentionSpec => PromiseOutlivesPurge
<1>1. RetentionInit => Kept!PromiseInit /\ FateOK
  BY DEF RetentionInit, Init, FateOK, Kept!PromiseInit, NewRow, Outcome
<1>2. FateOK /\ HostInv /\ [RetentionNext]_<<vars, retention>> => FateOK'
  BY DEF FateOK, RetentionNext, PurgeStep, PurgeOldAttempts, PurgeMessages, retention, Outcome
<1>3. HostInv /\ FateOK /\ [RetentionNext]_<<vars, retention>> => [Kept!PromiseNext]_(Kept!promise)
  <2>1. UNCHANGED <<vars, retention>> => UNCHANGED Kept!promise
    BY DEF vars, tables, history, retention, Kept!promise
  <2> QED BY <2>1, NextKeepsKept, PurgeKeepsKept DEF HostInv, RetentionNext, PurgeStep
<1> QED BY <1>1, <1>2, <1>3, HostInvariant, PTL
     DEF RetentionSpec, PromiseOutlivesPurge, Kept!PromiseSafety
=============================================================================
