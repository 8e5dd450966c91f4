-------------------------- MODULE MCOutboxPublishing --------------------------
(* Values for OutboxPublishing: m1 is published in x1, m2 in x2 and m3 in   *)
(* x3; scope s1 has x1 and then x2 or x2 and then x1, s2 has x3.  i1        *)
(* publishes and polls, i2 only polls.                                     *)
EXTENDS OutboxPublishing, TLC

CONSTANTS i1, i2, m1, m2, m3, x1, x2, x3, s1, s2

MCTxOf == [m \in Message |-> IF m = m1 THEN x1 ELSE IF m = m2 THEN x2 ELSE x3]
OneScope == [t \in Transaction |-> s1]
TwoScopes == [t \in Transaction |-> IF t = x3 THEN s2 ELSE s1]
ScopeOfEach == [t \in Transaction |-> IF t = x1 THEN s1 ELSE s2]
MCPartition == [m \in Message |-> NoPartition]
MCCreatedAt == [m \in Message |-> IF m = m1 THEN 1 ELSE 2]
MCServes == [i \in Instance |-> Message]
=============================================================================
