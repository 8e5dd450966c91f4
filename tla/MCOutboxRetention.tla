-------------------------- MODULE MCOutboxRetention --------------------------
(* Values for OutboxRetention: one process i1 with the timer invocations t1 *)
(* and t2, or with the cold loop c1 and the hot handler h1.                 *)
EXTENDS OutboxRetention, TLC

CONSTANTS i1, t1, t2, c1, h1, s1, s2, m1

MCHost == [w \in Worker |-> i1]
MCServes == [i \in Instance |-> Message]
MCPartition == [m \in Message |-> NoPartition]
MCCreatedAt == [m \in Message |-> 1]
MCSubMaxRetries == [s \in Subscription |-> IF s = s1 THEN 1 ELSE 0]
=============================================================================
