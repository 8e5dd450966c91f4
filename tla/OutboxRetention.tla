--------------------------- MODULE OutboxRetention ---------------------------
(***************************************************************************)
(* The pipeline next to the two maintenance statements a host is told to   *)
(* call periodically: PurgeOldAttemptsAsync and PurgeProcessedMessagesAsync. *)
(* The jobs read HasSuccess and AttemptCount from the table the first one  *)
(* empties, whatever the state of the message; the second one takes the    *)
(* attempts of a message with it (ON DELETE CASCADE).                      *)
(***************************************************************************)
EXTENDS OutboxPipeline

CONSTANT MaxPurges   \* bound on the calls of PurgeOldAttemptsAsync

ASSUME RetentionAssumption == MaxPurges \in Nat

VARIABLES
  purges,     \* calls of PurgeOldAttemptsAsync, of MaxPurges
  forgotten,  \* history: messages that lost attempts before they were settled
  fate        \* history: Message -> the outcome its row was deleted with

retention == <<purges, forgotten, fate>>

RetentionInit ==
  /\ Init
  /\ purges = 0 /\ forgotten = {}
  /\ fate = [m \in Message |-> "open"]

-----------------------------------------------------------------------------
Settled(m) == row[m].status \in Terminal \cup {"Purged"}

\* Timestamps grow with the number within a subscription; those of different
\* messages and subscriptions are not related.
IsOld(old, m) ==
  \A a \in old, b \in attempts[m] : a.sub = b.sub /\ b.number < a.number => b \in old

\* DELETE WHERE AttemptedAt < @OlderThan: one message at a time, as the statements
\* of a run for different messages do not meet.
PurgeOldAttempts(m) ==
  /\ purges < MaxPurges
  /\ \E old \in (SUBSET attempts[m]) \ {{}} :
       /\ IsOld(old, m)
       /\ attempts' = [attempts EXCEPT ![m] = @ \ old]
  /\ purges' = purges + 1
  /\ forgotten' = IF Settled(m) THEN forgotten ELSE forgotten \cup {m}
  /\ UNCHANGED <<row, active, hint, poll, work, budget, history, fate>>

\* Mutant: the foreign key does not cascade.
PurgeMessagesAlone(olderThan) ==
  /\ PurgeProcessedMessages(olderThan)
  /\ fate' = [m \in Message |-> IF row'[m] # row[m] THEN Outcome(row[m]) ELSE fate[m]]
  /\ UNCHANGED <<attempts, active, hint, poll, work, budget, history, purges, forgotten>>

PurgeMessages(olderThan) ==
  /\ PurgeProcessedMessages(olderThan)
  /\ attempts' = [m \in Message |-> IF row'[m] # row[m] THEN {} ELSE attempts[m]]
  /\ fate' = [m \in Message |-> IF row'[m] # row[m] THEN Outcome(row[m]) ELSE fate[m]]
  /\ UNCHANGED <<active, hint, poll, work, budget, history, purges, forgotten>>

RetentionNext ==
  \/ Next /\ UNCHANGED retention
  \/ \E m \in Message : PurgeOldAttempts(m) \/ PurgeMessages(CreatedAt[m] + 1)

\* Nobody has to purge.
RetentionSpec == RetentionInit /\ [][RetentionNext]_<<vars, retention>> /\ Fairness

-----------------------------------------------------------------------------
(* Properties *)

\* Exactly-once under retention: besides what disturbs the pipeline anyway, a
\* second 2xx takes a purge of attempts while the message was still open.
\* Purging the attempts of a settled message, or the message itself under a job
\* that still runs, repeats no delivery.
DuplicateOnlyIfForgotten ==
  \A m \in Message, s \in Subscription : acks[m][s] = 2 => m \in disturbed \cup forgotten

\* A deleted message leaves no attempts behind, and the job that outlived it
\* brings none back (foreign key of DeliveryAttempts; the job takes the refused
\* INSERT for attempts it could not save).
NoOrphanAttempts ==
  \A m \in Message : row[m].status = "Purged" => attempts[m] = {}

\* The numbers of a subscription's attempts have lost their beginning, so the next
\* number, AttemptCount + 1, may be in use.
Torn(m) ==
  \E s \in Subscription :
    {a.number : a \in AttemptsOf(m, s)} # 1..Cardinality(AttemptsOf(m, s))

\* What has been settled stays settled when its row is gone.
Kept == INSTANCE OutboxPromise WITH
  outcome <- [m \in Message |-> IF row[m].status = "Purged" THEN fate[m] ELSE Outcome(row[m])],
  acked   <- [m \in Message |-> {s \in Subscription : acks[m][s] # 0}],
  wanted  <- active

\* Forgotten attempts cost duplicates, never a false Delivered: with both purges
\* running, every step is still one the promise of the outbox allows.
PromiseOutlivesPurge == Kept!PromiseSafety

\* Purges do not keep a message from being settled, also when they forget all its
\* attempts again and again; only while its numbers are torn it may spin (each
\* INSERT meets the primary key, and with a success the job neither retries nor
\* gives up but leaves the row to the expiry of its lock).
SettledUnlessTorn == \A m \in Message : []<>(Settled(m) \/ Torn(m))

\* What one would expect instead: every message is settled.  Refuted.
SettledAnyway == \A m \in Message : <>Settled(m)
=============================================================================
