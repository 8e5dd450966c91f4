--------------------------- MODULE OutboxPromise ---------------------------
(***************************************************************************)
(* What the outbox promises its users, without tables, locks or retries:   *)
(* every published message is settled once and for all, and it counts as   *)
(* delivered only when every subscription still wanted has acknowledged    *)
(* it.  Acknowledgements may repeat and may come late (at-least-once).     *)
(***************************************************************************)
CONSTANTS Message, Subscription

VARIABLES
  outcome,   \* Message -> "open", "delivered" or "dead"
  acked,     \* Message -> subscriptions that have acknowledged it
  wanted     \* the active subscriptions

promise == <<outcome, acked, wanted>>

PromiseInit ==
  /\ outcome = [m \in Message |-> "open"]
  /\ acked = [m \in Message |-> {}]
  /\ wanted \subseteq Subscription

Acknowledge(m, s) ==
  /\ acked' = [acked EXCEPT ![m] = @ \cup {s}]
  /\ UNCHANGED <<outcome, wanted>>

Unsubscribe(s) ==
  /\ wanted' = wanted \ {s}
  /\ UNCHANGED <<outcome, acked>>

Settle(m, o) ==
  /\ outcome[m] = "open"
  /\ o = "delivered" => wanted \subseteq acked[m]
  /\ outcome' = [outcome EXCEPT ![m] = o]
  /\ UNCHANGED <<acked, wanted>>

PromiseNext ==
  \/ \E m \in Message, s \in Subscription : Acknowledge(m, s)
  \/ \E s \in Subscription : Unsubscribe(s)
  \/ \E m \in Message, o \in {"delivered", "dead"} : Settle(m, o)

\* Settling is the system's duty; acknowledging is up to the endpoints.
PromiseSafety == PromiseInit /\ [][PromiseNext]_promise

PromiseSpec ==
  /\ PromiseSafety
  /\ \A m \in Message : WF_promise(Settle(m, "delivered") \/ Settle(m, "dead"))
=============================================================================
