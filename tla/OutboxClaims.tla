---------------------------- MODULE OutboxClaims ----------------------------
(***************************************************************************)
(* Statements the documentation and the comments make about the pipeline   *)
(* and the code does not keep.  Each is refuted by a run of its own.       *)
(***************************************************************************)
EXTENDS OutboxPipeline

\* docs/architecture.md: "Before delivering each message, the processor verifies
\* LockedBy == instanceId AND Status == Processing AND LockedUntil > NOW."
\* A delivery shows as a growing list of new attempts.
LockVerifiedBeforeDelivery ==
  [][\A w \in Worker, m \in Message :
       /\ job[w][m].phase = "deliver"
       /\ job[w][m].new # job'[w][m].new
       /\ job'[w][m].new # {}
       => IsLockHeld(Host[w], m)]_vars

\* WebhookOptions.MaxRetries: "Maximum delivery attempts before a message is
\* dead-lettered."
AttemptsWithinMaxRetries ==
  \A m \in Message, s \in Subscription :
    Cardinality(AttemptsOf(m, s)) <= SubMaxRetries[s]

\* docs/architecture.md: "`MaxRetries` | 5 | Maximum number of retry attempts".
RetryBudgetIsExact == \A m \in Message : row[m].retryCount <= MaxRetries

\* OutboxProcessingPipeline, decision phase: "every subscription hit its per-sub
\* limit without ever succeeding."
DeadLetterOnlyIfNoneSucceeded ==
  \A w \in Worker, m \in Message :
    job[w][m].phase = "dead" => \A s \in job[w][m].subs : acks[m][s] = 0

\* OutboxProcessingPipeline, decision phase: once the success records are saved,
\* any other instance "will call GetDeliveryStatesAsync, find HasSuccess=true,
\* skip delivery, and mark processed.  No duplicate will occur."
RecordedSuccessEndsDelivery ==
  [][\A m \in Message, s \in Subscription :
       (\E a \in AttemptsOf(m, s) : a.success) => acks'[m][s] = acks[m][s]]_vars

\* README: "messages with the same (TenantId, UserId, EntityId) are processed in
\* creation order": a message is Delivered only after its predecessors settled.
ProcessedInCreationOrder ==
  \A m, n \in Message :
    /\ Partition[m] = Partition[n] /\ Partition[m] # NoPartition
    /\ CreatedAt[m] < CreatedAt[n]
    /\ row[n].status = "Delivered"
    => row[m].status \in Terminal

\* README: "No hot+cold race - in-flight hot-path IDs are excluded from the
\* cold-path SQL query": a batch never locks a message that a hot handler of the
\* same process is at work on.
NoHotColdRace ==
  [][\A w \in ColdWorker, m \in Message :
       ~Busy(w, m) /\ job'[w][m].phase = "subs" => m \notin HotInFlight(Host[w])]_vars

\* README: "The cold path runs on a fixed ColdPollingInterval (default 1 second)
\* regardless of queue activity."  Under FairSpec: each cold loop starts a batch
\* again and again.
ColdPathKeepsPolling == \A w \in ColdWorker : []<>(pc[w] = "release")

\* README: "Retries never go through the hot path."
RetriesNeverHot ==
  \A w \in HotWorker, m \in Message : Working(w, m) => job[w][m].retryCount = 0
=============================================================================
