---------------------------- MODULE MCOutboxScan ----------------------------
(* Sessions w1 and w2 of the processes i1 and i2; rows m1 and m2 of one *)
(* partition.                                                           *)
EXTENDS OutboxScan, TLC

CONSTANTS m1, m2, m3, i1, i2, w1, w2, w3, p1

MCPartition == [m \in Message |-> IF m = m3 THEN NoPartition ELSE p1]
MCCreatedAt == [m \in Message |-> IF m = m1 THEN 1 ELSE 2]
MCPosition == [m \in Message |-> CASE m = m1 -> 1 [] m = m2 -> 2 [] OTHER -> 3]
MCServes == [i \in Instance |-> Message]
MCSessionHost == [w \in Session |-> IF w = w1 \/ i2 \notin Instance THEN i1 ELSE i2]
=============================================================================
