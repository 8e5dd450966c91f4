-------------------------- MODULE MCOutboxPipeline --------------------------
(* Values for the constants of OutboxPipeline: two processes i1 and i2; cold *)
(* loops c1 (in i1) and c2 (in i2), timer invocations t1 and t2 (both in i1) *)
(* and hot handlers h1 (in i1) and h2 (in i2).                               *)
EXTENDS OutboxClaims, TLC

CONSTANTS i1, i2, c1, c2, t1, t2, h1, h2, s1, s2, m1, m2, p1

Processes == (c1 :> i1) @@ (t1 :> i1) @@ (t2 :> i1) @@ (h1 :> i1) @@ (c2 :> i2) @@ (h2 :> i2)

MCHost == [w \in Worker |-> Processes[w]]
MCServes == [i \in Instance |-> Message]
NoPartitions == [m \in Message |-> NoPartition]
OnePartition == [m \in Message |-> p1]
MCCreatedAt == [m \in Message |-> IF m = m1 THEN 1 ELSE 2]

\* Subscription s1 tolerates one retry, s2 none.
MCSubMaxRetries == [s \in Subscription |-> IF s = s1 THEN 1 ELSE 0]
=============================================================================
