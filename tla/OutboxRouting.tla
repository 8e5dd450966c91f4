---------------------------- MODULE OutboxRouting ----------------------------
(***************************************************************************)
(* Who receives a message, and signed with which secret: the subscription  *)
(* readers, the cache of a batch by (EventType, TenantId), and the secrets *)
(* of ConfigurationTenantSecretRetriever with their cache.  OutboxPipeline *)
(* takes all of it for one read of the active subscriptions.               *)
(*                                                                         *)
(* An invocation is one call of ProcessBatchAsync or TryProcessByIdAsync   *)
(* of one process.  Administrators edit the table WebhookSubscriptions and *)
(* rotate the configured secrets meanwhile.  A secret is its owner (the    *)
(* tenant, subscription or endpoint it was made for) and a version.        *)
(***************************************************************************)
EXTENDS Integers, FiniteSets

CONSTANTS
  Message,
  Tenant, NoTenant,
  EventType, AnyEvent,   \* AnyEvent: '*'
  EventOf, TenantOf,     \* the route of a message
  Subscription,          \* Ids of the rows of WebhookSubscriptions
  InitialRow,            \* Subscription -> Row
  WrittenRow,            \* what AddAsync and UpdateAsync may write
  ConfiguredKeys,        \* keys of secrets in the configuration at first
  Invocation,
  Readers,               \* the ISubscriptionReaders that may be registered
  CacheTtl,              \* TenantSecretOptions.SecretCacheTtl, in ticks
  MaxEdits, MaxTicks     \* bounds

\* "default" may be the name of a tenant too.
Default == "default"
Global == "global"

Key == Tenant \cup Subscription       \* tenantKey
Endpoint == Tenant \cup {Default, Global}

None == [owner |-> "nobody", version |-> 0]
Secret == [owner : Key \cup Endpoint, version : 0..MaxEdits]

Row == [exists : BOOLEAN, isActive : BOOLEAN, tenant : Tenant \cup {NoTenant},
        event : EventType \cup {AnyEvent}]

ASSUME RoutingAssumption ==
  /\ NoTenant \notin Tenant /\ AnyEvent \notin EventType
  /\ Subscription # {} /\ EventType # {}
  /\ EventOf \in [Message -> EventType]
  /\ TenantOf \in [Message -> Tenant \cup {NoTenant}]
  /\ InitialRow \in [Subscription -> Row]
  /\ WrittenRow \subseteq {r \in Row : r.exists}
  /\ ConfiguredKeys \subseteq Key
  /\ Readers \subseteq {"table", Global, "perTenant", "none"}
  /\ {CacheTtl, MaxEdits, MaxTicks} \subseteq Nat

VARIABLES
  reader,     \* the reader registered; never changes
  endpoints,  \* WebhookOptions: the entries configured; read once
  sub,        \* WebhookSubscriptions: Subscription -> Row
  configured, \* IConfiguration: Key -> Secret or None
  cache,      \* IMemoryCache: Key -> Entry
  call,       \* Invocation -> Call
  now, edits, \* ticks and edits used up, of MaxTicks and MaxEdits
  seen,       \* history: the contents of the table since an invocation locked its batch
  replaced    \* history: Key -> version -> when it was replaced

vars == <<reader, endpoints, sub, configured, cache, call, now, edits, seen, replaced>>
admin == <<sub, configured, edits, replaced>>
fixed == <<reader, endpoints>>

Entry == [live : BOOLEAN, secret : Secret \cup {None}, age : 0..CacheTtl]
NoEntry == [live |-> FALSE, secret |-> None, age |-> 0]

\* What the pipeline holds of a WebhookSubscription.
Recipient == [id : Subscription \cup (Endpoint \X (Tenant \cup {NoTenant})),
              tenant : Tenant \cup {NoTenant}, secret : Secret]

Route == EventType \X (Tenant \cup {NoTenant})

Call == [phase  : {"idle", "read", "enrich", "resolved", "deliver"},
         batch  : SUBSET Message,
         subs   : [Route -> SUBSET Recipient],
         cached : SUBSET Route,              \* the keys of the dictionary
         route  : Route,                     \* the one being read
         left   : SUBSET Subscription,       \* rows whose secret is not yet looked up
         row    : Subscription,              \* "resolved": the row whose secret is known
         secret : Secret \cup {None}]        \* what Resolve returned

SomeRoute == CHOOSE r \in Route : TRUE
SomeRow == CHOOSE s \in Subscription : TRUE

NoCall == [phase |-> "idle", batch |-> {}, subs |-> [r \in Route |-> {}], cached |-> {},
           route |-> SomeRoute, left |-> {}, row |-> SomeRow, secret |-> None]

Init ==
  /\ reader \in Readers
  /\ endpoints \in SUBSET (CASE reader = Global -> {Global}
                             [] reader = "perTenant" -> Tenant \cup {Default}
                             [] OTHER -> {})
  /\ sub = InitialRow
  /\ configured = [k \in Key |->
       IF k \in ConfiguredKeys THEN [owner |-> k, version |-> 0] ELSE None]
  /\ cache = [k \in Key |-> NoEntry]
  /\ call = [w \in Invocation |-> NoCall]
  /\ now = 0 /\ edits = 0
  /\ seen = [w \in Invocation |-> {}]
  /\ replaced = [k \in Key |-> [v \in 0..MaxEdits |-> MaxTicks + 1]]

SetCall(w, c) == call' = [call EXCEPT ![w] = c]

-----------------------------------------------------------------------------
(* GetForMessageAsync *)

Matches(r, route) ==
  /\ r.exists /\ r.isActive
  /\ r.event \in {route[1], AnyEvent}
  /\ r.tenant \in {NoTenant, route[2]}

Matching(table, route) == {s \in Subscription : Matches(table[s], route)}

Stored(s) == [id |-> s, tenant |-> sub[s].tenant, secret |-> [owner |-> s, version |-> 0]]

\* ConfigSubscriptionStore: an endpoint, and the tenant its Id is derived from.
At(e, tenant) == {[id |-> <<e, tenant>>, tenant |-> tenant, secret |-> [owner |-> e, version |-> 0]]}

\* Mutant: "default" before the tenant's own entry.
ResolveForTenantDefaultFirst(tenant) ==
  IF Default \in endpoints THEN At(Default, tenant)
  ELSE IF tenant \in endpoints THEN At(tenant, tenant) ELSE {}

ResolveForTenant(tenant) ==
  IF tenant \in endpoints \ {NoTenant} THEN At(tenant, tenant)
  ELSE IF Default \in endpoints THEN At(Default, tenant) ELSE {}

Resolved(route) ==
  CASE reader = Global      -> IF Global \in endpoints THEN At(Global, NoTenant) ELSE {}
    [] reader = "perTenant" -> ResolveForTenant(route[2])
    [] reader = "none"      -> {}

(* BuildSubscriptionCacheAsync; one message is a batch of its own *)

\* Mutant: the dictionary's key is the event type alone.
RouteOfEvent(m) == <<EventOf[m], NoTenant>>

RouteOf(m) == <<EventOf[m], TenantOf[m]>>

Lock(w, batch) ==
  /\ call[w].phase = "idle" /\ batch # {}
  /\ SetCall(w, [NoCall EXCEPT !.phase = "read", !.batch = batch])
  /\ seen' = [seen EXCEPT ![w] = {sub}]
  /\ UNCHANGED <<fixed, admin, cache, now>>

\* The routes in the order of their first messages, which is left open.  The SELECT
\* is for the message that is first; RouteOf is the key of the dictionary.  Its rows are
\* those of one instant, as with READ_COMMITTED_SNAPSHOT.
ReadRoute(w, m) ==
  LET c == call[w]
      route == <<EventOf[m], TenantOf[m]>> IN
  /\ c.phase = "read"
  /\ m \in c.batch /\ RouteOf(m) \notin c.cached
  /\ SetCall(w,
       IF reader = "table"
       THEN [c EXCEPT !.subs[RouteOf(m)] = {Stored(s) : s \in Matching(sub, route)},
                      !.cached = @ \cup {RouteOf(m)}, !.route = RouteOf(m),
                      !.left = Matching(sub, route),
                      !.phase = IF Matching(sub, route) = {} THEN "read" ELSE "enrich"]
       ELSE [c EXCEPT !.subs[RouteOf(m)] = Resolved(route), !.cached = @ \cup {RouteOf(m)}])
  /\ UNCHANGED <<fixed, admin, cache, now, seen>>

\* The dictionary is complete: DeliverAsync signs with what it holds.
StartDelivery(w) ==
  /\ call[w].phase = "read"
  /\ \A m \in call[w].batch : RouteOf(m) \in call[w].cached
  /\ SetCall(w, [call[w] EXCEPT !.phase = "deliver"])
  /\ UNCHANGED <<fixed, admin, cache, now, seen>>

\* Mutant: the dictionary is kept for the next batch.
EndBatchKeepingRoutes(w) ==
  /\ call[w].phase = "deliver"
  /\ \E batch \in SUBSET Message \ {{}} :
       SetCall(w, [call[w] EXCEPT !.phase = "read", !.batch = batch])
  /\ seen' = [seen EXCEPT ![w] = {sub}]
  /\ UNCHANGED <<fixed, admin, cache, now>>

EndBatch(w) ==
  /\ call[w].phase = "deliver"
  /\ SetCall(w, NoCall)
  /\ seen' = [seen EXCEPT ![w] = {}]
  /\ UNCHANGED <<fixed, admin, cache, now>>

(* EnrichSecretsAsync and GetSecretAsync *)

\* sub.TenantId ?? sub.Id
TenantKey(r) == IF r.tenant = NoTenant THEN r.id ELSE r.tenant

RecipientOf(c, s) == CHOOSE r \in c.subs[c.route] : r.id = s

\* A null secret leaves the stored one.
Enriched(c, s, secret) ==
  LET r == RecipientOf(c, s)
      d == [c EXCEPT !.left = @ \ {s}, !.row = SomeRow, !.secret = None,
                     !.phase = IF c.left = {s} THEN "read" ELSE "enrich"] IN
  IF secret = None THEN d
  ELSE [d EXCEPT !.subs[c.route] = (@ \ {r}) \cup {[r EXCEPT !.secret = secret]}]

\* Mutant: a sliding expiration.
CachedSecretSliding(w, s) ==
  LET k == TenantKey(RecipientOf(call[w], s)) IN
  /\ call[w].phase = "enrich" /\ s \in call[w].left
  /\ cache[k].live
  /\ SetCall(w, Enriched(call[w], s, cache[k].secret))
  /\ cache' = [cache EXCEPT ![k].age = 0]
  /\ UNCHANGED <<fixed, admin, now, seen>>

CachedSecret(w, s) ==
  LET k == TenantKey(RecipientOf(call[w], s)) IN
  /\ call[w].phase = "enrich" /\ s \in call[w].left
  /\ cache[k].live
  /\ SetCall(w, Enriched(call[w], s, cache[k].secret))
  /\ UNCHANGED <<fixed, admin, cache, now, seen>>

\* The factory of GetOrCreate, or Resolve alone when nothing is cached.
Resolve(w, s) ==
  LET k == TenantKey(RecipientOf(call[w], s)) IN
  /\ call[w].phase = "enrich" /\ s \in call[w].left
  /\ ~cache[k].live
  /\ SetCall(w, [call[w] EXCEPT !.phase = "resolved", !.row = s, !.secret = configured[k]])
  /\ UNCHANGED <<fixed, admin, cache, now, seen>>

\* The entry counts its lifetime from here, and null is an entry like any other.
\* GetOrCreate holds no lock: it may replace the entry of a factory that ran meanwhile.
StoreSecret(w) ==
  LET c == call[w]
      k == TenantKey(RecipientOf(c, c.row)) IN
  /\ c.phase = "resolved"
  /\ SetCall(w, Enriched(c, c.row, c.secret))
  /\ cache' = IF CacheTtl = 0 THEN cache
              ELSE [cache EXCEPT ![k] = [live |-> TRUE, secret |-> c.secret, age |-> 0]]
  /\ UNCHANGED <<fixed, admin, now, seen>>

-----------------------------------------------------------------------------
(* Administrators, time *)

\* AddAsync, UpdateAsync (all columns, from an object of any age), DeactivateAsync.
Edit(s, r) ==
  /\ reader = "table" /\ edits < MaxEdits
  /\ edits' = edits + 1
  /\ sub' = [sub EXCEPT ![s] = r]
  /\ seen' = [w \in Invocation |->
                IF call[w].phase = "idle" THEN {} ELSE seen[w] \cup {sub'}]
  /\ UNCHANGED <<fixed, configured, cache, call, now, replaced>>

AddOrUpdate(s, r) == r # sub[s] /\ Edit(s, r)
Deactivate(s) == sub[s].isActive /\ Edit(s, [sub[s] EXCEPT !.isActive = FALSE])

\* A secret is configured, or replaced by its next version.
Rotate(k) ==
  LET v == configured[k].version IN
  /\ reader = "table" /\ edits < MaxEdits
  /\ edits' = edits + 1
  /\ configured' = [configured EXCEPT ![k] = [owner |-> k, version |-> v + 1]]
  /\ replaced' = [replaced EXCEPT ![k][v] = now]
  /\ UNCHANGED <<fixed, sub, cache, call, now, seen>>

\* Between Resolve and the entry of the cache no time passes.
Tick ==
  /\ now < MaxTicks
  /\ \A w \in Invocation : call[w].phase # "resolved"
  /\ now' = now + 1
  /\ cache' = [k \in Key |->
       IF cache[k].live /\ cache[k].age < CacheTtl
       THEN [cache[k] EXCEPT !.age = @ + 1] ELSE NoEntry]
  /\ UNCHANGED <<fixed, admin, call, seen>>

-----------------------------------------------------------------------------
SecretStep(w, s) == CachedSecret(w, s) \/ Resolve(w, s)

CallStep(w) ==
  \/ \E batch \in SUBSET Message : Lock(w, batch)
  \/ \E m \in Message : ReadRoute(w, m)
  \/ \E s \in Subscription : SecretStep(w, s)
  \/ StoreSecret(w) \/ StartDelivery(w) \/ EndBatch(w)

AdminStep ==
  \/ \E s \in Subscription : Deactivate(s) \/ \E r \in WrittenRow : AddOrUpdate(s, r)
  \/ \E k \in Key : Rotate(k)

Next == (\E w \in Invocation : CallStep(w)) \/ AdminStep \/ Tick

Spec == Init /\ [][Next]_vars

-----------------------------------------------------------------------------
(* Properties *)

RoutingTypeOK ==
  /\ reader \in Readers /\ endpoints \subseteq Endpoint
  /\ sub \in [Subscription -> Row]
  /\ configured \in [Key -> Secret \cup {None}]
  /\ cache \in [Key -> Entry]
  /\ call \in [Invocation -> Call]
  /\ now \in 0..MaxTicks /\ edits \in 0..MaxEdits
  /\ seen \in [Invocation -> SUBSET [Subscription -> Row]]
  /\ replaced \in [Key -> [0..MaxEdits -> 0..(MaxTicks + 1)]]

\* The pairs of a message and a recipient an invocation delivers to.
Deliveries(w) ==
  IF call[w].phase # "deliver" THEN {}
  ELSE UNION {{<<m, r>> : r \in call[w].subs[RouteOf(m)]} : m \in call[w].batch}

\* Tenants are kept apart, through the cache of a batch, the cache of secrets and
\* edits meanwhile: a message goes to subscriptions of its own tenant or of all, and
\* is signed with a secret made for that subscription or for the message's tenant.
TenantIsolation ==
  \A w \in Invocation : \A d \in Deliveries(w) :
    LET m == d[1] r == d[2] IN
    /\ r.tenant \in {NoTenant, TenantOf[m]}
    /\ r.secret.owner \in {r.id, TenantOf[m]} \/ r.id = <<r.secret.owner, r.tenant>>

\* A message goes to exactly the rows that matched it at one instant after its
\* lock: none that was deactivated or moved before, and none left out that was there.
RecipientsOfOneInstant ==
  reader = "table" =>
    \A w \in Invocation : call[w].phase = "deliver" =>
      \A m \in call[w].batch : \E table \in seen[w] :
        {r.id : r \in call[w].subs[RouteOf(m)]}
          = Matching(table, <<EventOf[m], TenantOf[m]>>)

\* A tenant with an endpoint of its own in the configuration uses it, and nobody
\* else does; "default" is for the others (WebhookOptions.Tenants).
OwnEndpointFirst ==
  reader = "perTenant" =>
    \A w \in Invocation : \A d \in Deliveries(w) :
      LET m == d[1] e == d[2].secret.owner IN
      e = IF TenantOf[m] \in endpoints THEN TenantOf[m] ELSE Default

\* A replaced secret is given out for CacheTtl at most, whatever the traffic and
\* however the factories of the cache interleave.
OldSecretsExpire ==
  [][\A w \in Invocation, s \in Subscription :
       /\ call[w].phase \in {"enrich", "resolved"} /\ s \in call[w].left
       /\ s \notin call'[w].left
       => LET r == RecipientOf(call[w], s)
              given == (CHOOSE q \in call'[w].subs[call[w].route] : q.id = s).secret
              v == IF given.owner = TenantKey(r) THEN given.version ELSE 0 IN
          now - replaced[TenantKey(r)][v] <= CacheTtl]_vars

\* ConfigurationTenantSecretRetriever: "only one factory invocation runs per key
\* even under concurrent access".  Refuted: GetOrCreate takes no lock.
OneFactoryPerKey ==
  \A v, w \in Invocation :
    /\ v # w /\ call[v].phase = "resolved" /\ call[w].phase = "resolved"
    => TenantKey(RecipientOf(call[v], call[v].row)) # TenantKey(RecipientOf(call[w], call[w].row))
=============================================================================
