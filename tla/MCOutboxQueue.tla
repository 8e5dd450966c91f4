---------------------------- MODULE MCOutboxQueue ----------------------------
(* Values for OutboxQueue: cold loop c1 and hot handler h1 in i1, cold loop *)
(* c2 in i2.                                                                *)
EXTENDS OutboxQueue, TLC

CONSTANTS i1, i2, c1, c2, h1, m1, m2

MCHost == [w \in Worker |-> IF w = c2 THEN i2 ELSE i1]
MCServes == [i \in Instance |-> Message]
MCPartition == [m \in Message |-> NoPartition]
MCCreatedAt == [m \in Message |-> IF m = m1 THEN 1 ELSE 2]
=============================================================================
