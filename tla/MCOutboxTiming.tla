---------------------------- MODULE MCOutboxTiming ----------------------------
(* Values for OutboxTiming. *)
EXTENDS OutboxTiming, TLC

CONSTANTS m1, m2, m3, t1, t2

Interchangeable ==
  Permutations(Message) \cup Permutations(Invocation)
=============================================================================
