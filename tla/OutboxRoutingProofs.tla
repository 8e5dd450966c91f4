-------------------------- MODULE OutboxRoutingProofs --------------------------
(***************************************************************************)
(* Proofs about the choice of recipients and secrets (Spec of              *)
(* OutboxRouting), for any tenants, subscriptions, edits, rotations and    *)
(* invocations that run at the same time.                                  *)
(*                                                                         *)
(* The inductive invariant speaks of the dictionary of a batch before it   *)
(* is complete: what it holds under a route was read for that route, and   *)
(* each secret, cached or on its way into the cache, was made for its key. *)
(* FreshInv adds how old a secret is that may still be given out.          *)
(***************************************************************************)
EXTENDS OutboxRouting, TLAPS

\* r may receive the messages of a route and is signed for them.
Isolated(r, route) ==
  /\ r.tenant \in {NoTenant, route[2]}
  /\ r.secret.owner \in {r.id, route[2]} \/ r.id = <<r.secret.owner, r.tenant>>

MadeFor(secret, k) == secret # None => secret.owner = k

\* The call can name the row it looks up, and knows a secret made for it.
CallOK(c) ==
  /\ \A route \in Route : \A r \in c.subs[route] : Isolated(r, route)
  /\ c.phase \in {"enrich", "resolved"} =>
       \A s \in c.left : \E r \in c.subs[c.route] : r.id = s
  /\ c.phase = "resolved" =>
       c.row \in c.left /\ MadeFor(c.secret, TenantKey(RecipientOf(c, c.row)))

SecretsOK ==
  \A k \in Key :
    /\ configured[k].version <= edits /\ MadeFor(configured[k], k)
    /\ cache[k].live => MadeFor(cache[k].secret, k)

RoutingInv == RoutingTypeOK /\ SecretsOK /\ \A w \in Invocation : CallOK(call[w])

LEMMA SecretTypes ==
  /\ \A k \in Key \cup Endpoint : [owner |-> k, version |-> 0] \in Secret
  /\ NoEntry \in Entry /\ None.version = 0
  /\ MaxEdits \in Nat /\ CacheTtl \in Nat /\ MaxTicks \in Nat
BY RoutingAssumption DEF Secret, NoEntry, Entry, None

LEMMA NoCallOK == NoCall \in Call /\ CallOK(NoCall) /\ NoCall.phase = "idle"
<1>1. SomeRow \in Subscription
  BY RoutingAssumption DEF SomeRow
<1>2. SomeRoute \in Route
  <2>1. PICK e \in EventType : TRUE
    BY RoutingAssumption
  <2>2. <<e, NoTenant>> \in Route
    BY <2>1 DEF Route
  <2> QED BY <2>2 DEF SomeRoute
<1> QED BY <1>1, <1>2 DEF NoCall, Call, CallOK

LEMMA RouteType == \A m \in Message : RouteOf(m) \in Route /\ RouteOf(m)[2] = TenantOf[m]
BY RoutingAssumption DEF RouteOf, Route

\* What the readers return may receive the messages of the route.
LEMMA StoredIsolated ==
  ASSUME RoutingTypeOK, NEW route \in Route, NEW s \in Matching(sub, route)
  PROVE  Stored(s) \in Recipient /\ Isolated(Stored(s), route) /\ Stored(s).id = s
<1>1. s \in Subscription /\ sub[s] \in Row /\ sub[s].tenant \in {NoTenant, route[2]}
  BY DEF Matching, Matches, RoutingTypeOK
<1>2. [owner |-> s, version |-> 0] \in Secret
  BY <1>1, SecretTypes DEF Key
<1> QED BY <1>1, <1>2 DEF Stored, Recipient, Isolated, Row

LEMMA AtIsolated ==
  ASSUME NEW route \in Route, NEW e \in Endpoint, NEW t \in {NoTenant, route[2]}
  PROVE  At(e, t) \subseteq Recipient /\ \A r \in At(e, t) : Isolated(r, route)
<1>1. t \in Tenant \cup {NoTenant}
  BY DEF Route
<1>2. [owner |-> e, version |-> 0] \in Secret
  BY SecretTypes
<1> QED BY <1>1, <1>2 DEF At, Recipient, Isolated

LEMMA ResolvedIsolated ==
  ASSUME RoutingTypeOK, reader # "table", NEW route \in Route
  PROVE  /\ Resolved(route) \subseteq Recipient
         /\ \A r \in Resolved(route) : Isolated(r, route)
<1>1. reader \in {Global, "perTenant", "none"} /\ endpoints \subseteq Endpoint
  BY RoutingAssumption DEF RoutingTypeOK
<1>2. CASE reader = Global
  <2>1. Global \in Endpoint
    BY DEF Endpoint
  <2>2. Resolved(route) \in {At(Global, NoTenant), {}}
    BY <1>2 DEF Resolved, Global
  <2> QED BY <2>1, <2>2, AtIsolated
<1>3. CASE reader = "perTenant"
  <2>1. Default \in Endpoint
    BY DEF Endpoint
  <2>2. Resolved(route) = ResolveForTenant(route[2])
    BY <1>3 DEF Resolved, Global
  <2> QED BY <1>1, <2>1, <2>2, AtIsolated DEF ResolveForTenant
<1>4. CASE reader = "none"
  BY <1>4 DEF Resolved, Global
<1> QED BY <1>1, <1>2, <1>3, <1>4

\* A look-up replaces the secret of one recipient by one made for it.
LEMMA EnrichedOK ==
  ASSUME NEW c \in Call, CallOK(c), c.phase \in {"enrich", "resolved"}, NEW s \in c.left,
         NEW secret \in Secret \cup {None}, MadeFor(secret, TenantKey(RecipientOf(c, s)))
  PROVE  /\ Enriched(c, s, secret) \in Call /\ CallOK(Enriched(c, s, secret))
         /\ Enriched(c, s, secret).phase # "resolved"
         /\ Enriched(c, s, secret).batch = c.batch /\ Enriched(c, s, secret).cached = c.cached
         /\ \A route \in Route : {r.id : r \in Enriched(c, s, secret).subs[route]}
                                   = {r.id : r \in c.subs[route]}
<1> DEFINE r == RecipientOf(c, s)
           e == Enriched(c, s, secret)
           q == [r EXCEPT !.secret = secret]
<1>1. c.route \in Route /\ c.left \subseteq Subscription /\ c.subs \in [Route -> SUBSET Recipient]
  BY DEF Call
<1>2. r \in c.subs[c.route] /\ r.id = s
  BY DEF RecipientOf, CallOK
<1>3. r \in Recipient /\ Isolated(r, c.route)
  BY <1>1, <1>2 DEF CallOK
<1>4. SomeRow \in Subscription
  BY RoutingAssumption DEF SomeRow
<1> HIDE DEF r
<1> DEFINE d == [c EXCEPT !.left = @ \ {s}, !.row = SomeRow, !.secret = None,
                          !.phase = IF c.left = {s} THEN "read" ELSE "enrich"]
<1>5. /\ d.subs = c.subs /\ d.batch = c.batch /\ d.cached = c.cached /\ d.route = c.route
      /\ d.left = c.left \ {s} /\ d.row = SomeRow /\ d.secret = None
      /\ d.phase = (IF c.left = {s} THEN "read" ELSE "enrich")
  BY DEF Call
<1>6. d \in Call
  BY <1>4 DEF Call
<1>7. CASE secret = None
  <2>1. e = d
    BY <1>7 DEF Enriched
  <2>2. CallOK(d)
    BY <1>5 DEF CallOK
  <2> QED BY <1>5, <1>6, <2>1, <2>2
<1>8. CASE secret # None
  <2>1. e = [d EXCEPT !.subs[c.route] = (@ \ {r}) \cup {q}]
    BY <1>8 DEF Enriched, r
  <2>2. d \in Call /\ d.subs = c.subs
    BY <1>5, <1>6
  <2>3. q \in Recipient /\ q.id = s /\ q.tenant = r.tenant /\ q.secret = secret
    BY <1>2, <1>3, <1>8 DEF Recipient
  <2>4. Isolated(q, c.route)
    BY <1>3, <1>8, <2>3 DEF Isolated, MadeFor, TenantKey, r
  <2> HIDE DEF q
  <2>5. /\ e.subs = [c.subs EXCEPT ![c.route] = (@ \ {r}) \cup {q}]
        /\ e.phase = d.phase /\ e.batch = d.batch /\ e.cached = d.cached /\ e.route = d.route
        /\ e.left = d.left /\ e.row = d.row /\ e.secret = d.secret
        /\ e = [phase |-> d.phase, batch |-> d.batch, subs |-> e.subs, cached |-> d.cached,
                route |-> d.route, left |-> d.left, row |-> d.row, secret |-> d.secret]
    BY <2>1, <2>2 DEF Call
  <2>6. e.subs \in [Route -> SUBSET Recipient]
    BY <1>1, <2>3, <2>5
  <2>7. /\ e.phase # "resolved" /\ e.batch = c.batch /\ e.cached = c.cached
        /\ e.route = c.route /\ e.left = c.left \ {s}
    BY <1>5, <2>5
  <2>8. e \in Call
    BY <2>2, <2>5, <2>6 DEF Call
  <2>9. \A route \in Route : e.subs[route] =
          IF route = c.route THEN (c.subs[c.route] \ {r}) \cup {q} ELSE c.subs[route]
    BY <1>1, <2>5
  <2>10. CallOK(e)
    <3>1. \A route \in Route : \A p \in e.subs[route] : Isolated(p, route)
      BY <2>4, <2>9 DEF CallOK
    <3>2. \A t \in e.left : \E p \in e.subs[e.route] : p.id = t
      BY <1>1, <1>2, <2>7, <2>9 DEF CallOK
    <3> QED BY <2>7, <3>1, <3>2 DEF CallOK
  <2>11. \A route \in Route : {p.id : p \in e.subs[route]} = {p.id : p \in c.subs[route]}
    BY <1>2, <2>3, <2>9
  <2> QED BY <2>7, <2>8, <2>10, <2>11
<1> QED BY <1>7, <1>8

\* A step of one call, and of the cache.
LEMMA OneCall ==
  ASSUME RoutingInv, NEW w \in Invocation, NEW c \in Call, CallOK(c), SetCall(w, c),
         UNCHANGED <<fixed, admin, now>>,
         seen' \in [Invocation -> SUBSET [Subscription -> Row]],
         cache' \in [Key -> Entry],
         \A k \in Key : cache'[k].live => MadeFor(cache'[k].secret, k)
  PROVE  RoutingInv'
<1>1. call' \in [Invocation -> Call] /\ \A v \in Invocation : CallOK(call'[v])
  BY DEF RoutingInv, RoutingTypeOK, SetCall
<1>2. SecretsOK'
  BY DEF RoutingInv, SecretsOK, admin
<1> QED BY <1>1, <1>2 DEF RoutingInv, RoutingTypeOK, fixed, admin

LEMMA ReadRouteOK ==
  ASSUME RoutingInv, NEW w \in Invocation, NEW m \in Message, ReadRoute(w, m)
  PROVE  call'[w] \in Call /\ CallOK(call'[w]) /\ SetCall(w, call'[w])
<1> DEFINE c == call[w]
           n == call'[w]
           rt == RouteOf(m)
<1>0. c \in Call /\ CallOK(c) /\ RoutingTypeOK /\ rt \in Route /\ c.phase = "read"
  BY RouteType DEF RoutingInv, RoutingTypeOK, ReadRoute
<1>1. CASE reader = "table"
  <2> DEFINE found == {Stored(s) : s \in Matching(sub, rt)}
  <2>1. /\ n = [c EXCEPT !.subs[rt] = found, !.cached = @ \cup {rt}, !.route = rt,
                         !.left = Matching(sub, rt),
                         !.phase = IF Matching(sub, rt) = {} THEN "read" ELSE "enrich"]
        /\ SetCall(w, n)
    BY <1>1 DEF ReadRoute, SetCall, RouteOf, RoutingInv, RoutingTypeOK
  <2>2. /\ found \in SUBSET Recipient /\ \A r \in found : Isolated(r, rt)
        /\ \A s \in Matching(sub, rt) : \E r \in found : r.id = s
    BY <1>0, StoredIsolated
  <2>3. Matching(sub, rt) \in SUBSET Subscription
    BY DEF Matching
  <2> HIDE DEF found
  <2>4. /\ n.subs = [c.subs EXCEPT ![rt] = found] /\ n.route = rt /\ n.left = Matching(sub, rt)
        /\ n.phase \in {"read", "enrich"}
        /\ n = [c EXCEPT !.subs = n.subs, !.cached = n.cached, !.route = n.route,
                         !.left = n.left, !.phase = n.phase]
        /\ n.cached = c.cached \cup {rt}
    BY <1>0, <2>1 DEF Call
  <2>5. n \in Call
    <3>1. n.subs \in [Route -> SUBSET Recipient] /\ n.cached \in SUBSET Route
      BY <1>0, <2>2, <2>4 DEF Call
    <3> HIDE DEF n
    <3> QED BY <1>0, <2>3, <2>4, <3>1 DEF Call
  <2>6. CallOK(n)
    BY <1>0, <2>2, <2>4 DEF CallOK, Call
  <2> QED BY <2>1, <2>5, <2>6
<1>2. CASE reader # "table"
  <2>1. /\ n = [c EXCEPT !.subs[rt] = Resolved(rt), !.cached = @ \cup {rt}]
        /\ SetCall(w, n)
    BY <1>2 DEF ReadRoute, SetCall, RouteOf, RoutingInv, RoutingTypeOK
  <2>2. Resolved(rt) \in SUBSET Recipient /\ \A r \in Resolved(rt) : Isolated(r, rt)
    BY <1>0, <1>2, ResolvedIsolated
  <2>3. /\ n.subs = [c.subs EXCEPT ![rt] = Resolved(rt)] /\ n.phase = "read"
        /\ n = [c EXCEPT !.subs = n.subs, !.cached = n.cached]
        /\ n.cached = c.cached \cup {rt}
    BY <1>0, <2>1 DEF Call
  <2>4. n \in Call
    <3>1. n.subs \in [Route -> SUBSET Recipient] /\ n.cached \in SUBSET Route
      BY <1>0, <2>2, <2>3 DEF Call
    <3> HIDE DEF n
    <3> QED BY <1>0, <2>3, <3>1 DEF Call
  <2>5. CallOK(n)
    BY <1>0, <2>2, <2>3 DEF CallOK, Call
  <2> QED BY <2>1, <2>4, <2>5
<1> QED BY <1>1, <1>2

\* The key under which the secret of a row is looked up.
LEMMA KeyOfRow ==
  ASSUME NEW c \in Call, CallOK(c), c.phase \in {"enrich", "resolved"}, NEW s \in c.left
  PROVE  TenantKey(RecipientOf(c, s)) \in Key
<1>1. RecipientOf(c, s) \in c.subs[c.route] /\ RecipientOf(c, s).id = s
  BY DEF RecipientOf, CallOK
<1>2. RecipientOf(c, s) \in Recipient /\ s \in Subscription
  BY <1>1 DEF Call
<1> QED BY <1>1, <1>2 DEF TenantKey, Recipient, Key

LEMMA CallInvStep ==
  ASSUME RoutingInv, NEW w \in Invocation, CallStep(w)
  PROVE  RoutingInv'
<1> DEFINE c == call[w]
<1>0. /\ RoutingTypeOK /\ SecretsOK /\ c \in Call /\ CallOK(c)
      /\ cache \in [Key -> Entry] /\ seen \in [Invocation -> SUBSET [Subscription -> Row]]
      /\ sub \in [Subscription -> Row] /\ configured \in [Key -> Secret \cup {None}]
  BY DEF RoutingInv, RoutingTypeOK
<1>1. ASSUME NEW batch \in SUBSET Message, Lock(w, batch) PROVE RoutingInv'
  <2> DEFINE n == [NoCall EXCEPT !.phase = "read", !.batch = batch]
  <2>1. n \in Call /\ CallOK(n)
    BY NoCallOK DEF Call, CallOK
  <2> QED BY <1>0, <1>1, <2>1, OneCall DEF Lock, SecretsOK
<1>2. ASSUME NEW m \in Message, ReadRoute(w, m) PROVE RoutingInv'
  BY <1>0, <1>2, ReadRouteOK, OneCall DEF ReadRoute, SecretsOK
<1>3. ASSUME NEW s \in Subscription, CachedSecret(w, s) PROVE RoutingInv'
  <2> DEFINE k == TenantKey(RecipientOf(c, s))
  <2>1. c.phase = "enrich" /\ s \in c.left /\ cache[k].live
        /\ SetCall(w, Enriched(c, s, cache[k].secret))
        /\ UNCHANGED <<fixed, admin, cache, now, seen>>
    BY <1>3 DEF CachedSecret
  <2>2. k \in Key
    BY <1>0, <2>1, KeyOfRow
  <2>3. cache[k].secret \in Secret \cup {None} /\ MadeFor(cache[k].secret, k)
    BY <1>0, <2>1, <2>2 DEF SecretsOK, Entry
  <2>4. Enriched(c, s, cache[k].secret) \in Call /\ CallOK(Enriched(c, s, cache[k].secret))
    BY <1>0, <2>1, <2>3, EnrichedOK
  <2> QED BY <1>0, <2>1, <2>4, OneCall DEF SecretsOK
<1>4. ASSUME NEW s \in Subscription, Resolve(w, s) PROVE RoutingInv'
  <2> DEFINE k == TenantKey(RecipientOf(c, s))
             n == [c EXCEPT !.phase = "resolved", !.row = s, !.secret = configured[k]]
  <2>1. c.phase = "enrich" /\ s \in c.left /\ SetCall(w, n)
        /\ UNCHANGED <<fixed, admin, cache, now, seen>>
    BY <1>4 DEF Resolve
  <2>2. k \in Key
    BY <1>0, <2>1, KeyOfRow
  <2>3. configured[k] \in Secret \cup {None} /\ MadeFor(configured[k], k)
    BY <1>0, <2>2 DEF SecretsOK
  <2>4. /\ n \in Call /\ n.subs = c.subs /\ n.route = c.route /\ n.left = c.left
        /\ n.row = s /\ n.secret = configured[k]
    BY <1>0, <2>3 DEF Call
  <2> HIDE DEF n
  <2>5. RecipientOf(n, s) = RecipientOf(c, s)
    BY <2>4 DEF RecipientOf
  <2>6. CallOK(n)
    BY <1>0, <2>1, <2>3, <2>4, <2>5 DEF CallOK
  <2> QED BY <1>0, <2>1, <2>4, <2>6, OneCall DEF SecretsOK
<1>5. ASSUME StoreSecret(w) PROVE RoutingInv'
  <2> DEFINE k == TenantKey(RecipientOf(c, c.row))
             entry == [live |-> TRUE, secret |-> c.secret, age |-> 0]
  <2>1. /\ c.phase = "resolved" /\ SetCall(w, Enriched(c, c.row, c.secret))
        /\ cache' = (IF CacheTtl = 0 THEN cache ELSE [cache EXCEPT ![k] = entry])
        /\ UNCHANGED <<fixed, admin, now, seen>>
    BY <1>5 DEF StoreSecret
  <2>2. c.row \in c.left /\ MadeFor(c.secret, k) /\ c.secret \in Secret \cup {None}
    BY <1>0, <2>1 DEF CallOK, Call
  <2>3. k \in Key
    BY <1>0, <2>1, <2>2, KeyOfRow
  <2>4. entry \in Entry /\ entry.live /\ entry.secret = c.secret
    BY <2>2, SecretTypes DEF Entry
  <2>5. Enriched(c, c.row, c.secret) \in Call /\ CallOK(Enriched(c, c.row, c.secret))
    BY <1>0, <2>1, <2>2, EnrichedOK
  <2> HIDE DEF entry
  <2>6. cache' \in [Key -> Entry]
    BY <1>0, <2>1, <2>4
  <2>7. \A j \in Key : cache'[j].live => MadeFor(cache'[j].secret, j)
    BY <1>0, <2>1, <2>2, <2>3, <2>4 DEF SecretsOK
  <2> QED BY <1>0, <2>1, <2>5, <2>6, <2>7, OneCall
<1>6. ASSUME StartDelivery(w) PROVE RoutingInv'
  <2> DEFINE n == [c EXCEPT !.phase = "deliver"]
  <2>1. n \in Call /\ n.subs = c.subs /\ n.phase = "deliver"
    BY <1>0 DEF Call
  <2>2. CallOK(n)
    BY <1>0, <2>1 DEF CallOK
  <2> QED BY <1>0, <1>6, <2>1, <2>2, OneCall DEF StartDelivery, SecretsOK
<1>7. ASSUME EndBatch(w) PROVE RoutingInv'
  <2>1. seen' \in [Invocation -> SUBSET [Subscription -> Row]]
    BY <1>0, <1>7 DEF EndBatch
  <2> QED BY <1>0, <1>7, <2>1, NoCallOK, OneCall DEF EndBatch, SecretsOK
<1> QED BY <1>1, <1>2, <1>3, <1>4, <1>5, <1>6, <1>7 DEF CallStep, SecretStep

LEMMA AdminInvStep ==
  ASSUME RoutingInv, AdminStep \/ Tick
  PROVE  RoutingInv'
<1>0. /\ RoutingTypeOK /\ SecretsOK
      /\ cache \in [Key -> Entry] /\ seen \in [Invocation -> SUBSET [Subscription -> Row]]
      /\ sub \in [Subscription -> Row] /\ configured \in [Key -> Secret \cup {None}]
      /\ edits \in 0..MaxEdits /\ now \in 0..MaxTicks
      /\ replaced \in [Key -> [0..MaxEdits -> 0..(MaxTicks + 1)]]
      /\ MaxEdits \in Nat /\ MaxTicks \in Nat /\ CacheTtl \in Nat
  BY SecretTypes DEF RoutingInv, RoutingTypeOK
<1>1. ASSUME NEW s \in Subscription, NEW r \in Row, Edit(s, r) PROVE RoutingInv'
  <2>1. sub' \in [Subscription -> Row]
    BY <1>0, <1>1 DEF Edit
  <2>2. seen' \in [Invocation -> SUBSET [Subscription -> Row]]
    BY <1>0, <1>1, <2>1 DEF Edit
  <2>3. edits' \in 0..MaxEdits /\ edits <= edits'
    BY <1>0, <1>1 DEF Edit
  <2>4. SecretsOK'
    <3>1. \A k \in Key : configured[k].version \in Nat
      BY <1>0, SecretTypes DEF Secret
    <3> QED BY <1>0, <1>1, <2>3, <3>1 DEF Edit, SecretsOK
  <2> QED BY <1>0, <1>1, <2>1, <2>2, <2>3, <2>4 DEF Edit, RoutingInv, RoutingTypeOK, fixed
<1>2. ASSUME NEW k \in Key, Rotate(k) PROVE RoutingInv'
  <2> DEFINE v == configured[k].version
             next == [owner |-> k, version |-> v + 1]
  <2>1. edits < MaxEdits /\ edits' = edits + 1
        /\ configured' = [configured EXCEPT ![k] = next]
        /\ replaced' = [replaced EXCEPT ![k][v] = now]
        /\ UNCHANGED <<fixed, sub, cache, call, now, seen>>
    BY <1>2 DEF Rotate
  <2>2. v \in 0..MaxEdits /\ v <= edits
    BY <1>0, SecretTypes DEF SecretsOK, Secret
  <2>3. next \in Secret /\ next.version = v + 1 /\ next.owner = k
    BY <1>0, <2>1, <2>2 DEF Secret
  <2> HIDE DEF next
  <2>4. configured' \in [Key -> Secret \cup {None}]
    BY <1>0, <2>1, <2>3
  <2>5. replaced' \in [Key -> [0..MaxEdits -> 0..(MaxTicks + 1)]]
    <3> HIDE DEF v
    <3>1. now \in 0..(MaxTicks + 1)
      BY <1>0
    <3> QED BY <1>0, <2>1, <2>2, <3>1
  <2>6. edits' \in 0..MaxEdits
    BY <1>0, <2>1
  <2>7. SecretsOK'
    <3> SUFFICES ASSUME NEW j \in Key
                 PROVE  /\ configured'[j].version <= edits' /\ MadeFor(configured'[j], j)
                        /\ cache'[j].live => MadeFor(cache'[j].secret, j)
      BY DEF SecretsOK
    <3>1. configured[j].version \in Nat /\ configured[j].version <= edits
      BY <1>0, SecretTypes DEF SecretsOK, Secret
    <3>2. CASE j = k
      BY <1>0, <2>1, <2>2, <2>3, <3>2 DEF SecretsOK, MadeFor
    <3>3. CASE j # k
      <4>1. configured'[j] = configured[j]
        BY <1>0, <2>1, <3>3
      <4> QED BY <1>0, <2>1, <3>1, <4>1 DEF SecretsOK
    <3> QED BY <3>2, <3>3
  <2> QED BY <1>0, <2>1, <2>4, <2>5, <2>6, <2>7 DEF RoutingInv, RoutingTypeOK, fixed
<1>3. CASE Tick
  <2>1. cache' \in [Key -> Entry] /\ SecretsOK'
    <3>1. \A k \in Key : cache'[k] = NoEntry
                         \/ (cache[k].live /\ cache[k].age < CacheTtl
                             /\ cache'[k] = [cache[k] EXCEPT !.age = @ + 1])
      BY <1>3 DEF Tick
    <3>2. ASSUME NEW e \in Entry, e.age < CacheTtl
          PROVE  /\ [e EXCEPT !.age = @ + 1] \in Entry
                 /\ [e EXCEPT !.age = @ + 1].secret = e.secret
      <4>1. e.age + 1 \in 0..CacheTtl
        BY <1>0, <3>2 DEF Entry
      <4> QED BY <4>1 DEF Entry
    <3>3. NoEntry \in Entry /\ ~NoEntry.live
      BY SecretTypes DEF NoEntry
    <3>4. cache' \in [Key -> Entry]
      BY <1>0, <1>3, <3>1, <3>2, <3>3 DEF Tick
    <3> QED BY <1>0, <1>3, <3>1, <3>2, <3>3, <3>4 DEF Tick, SecretsOK, admin
  <2>2. now' \in 0..MaxTicks
    BY <1>0, <1>3 DEF Tick
  <2> QED BY <1>0, <1>3, <2>1, <2>2 DEF Tick, RoutingInv, RoutingTypeOK, fixed, admin
<1>4. ASSUME NEW s \in Subscription, Deactivate(s) PROVE RoutingInv'
  <2>1. [sub[s] EXCEPT !.isActive = FALSE] \in Row
    BY <1>0 DEF Row
  <2> QED BY <1>1, <1>4, <2>1 DEF Deactivate
<1>5. ASSUME NEW s \in Subscription, NEW r \in WrittenRow, AddOrUpdate(s, r) PROVE RoutingInv'
  <2>1. r \in Row
    BY RoutingAssumption
  <2> QED BY <1>1, <1>5, <2>1 DEF AddOrUpdate
<1> QED BY <1>2, <1>3, <1>4, <1>5 DEF AdminStep

LEMMA RoutingInvInit == Init => RoutingInv
<1> SUFFICES ASSUME Init PROVE RoutingInv
  OBVIOUS
<1>1. reader \in Readers /\ endpoints \subseteq Endpoint /\ sub \in [Subscription -> Row]
  <2>1. reader \in {"table", Global, "perTenant", "none"}
    BY RoutingAssumption DEF Init
  <2> QED BY <2>1, RoutingAssumption DEF Init, Endpoint, Global
<1>2. /\ configured \in [Key -> Secret \cup {None}]
      /\ \A k \in Key : configured[k].version = 0 /\ MadeFor(configured[k], k)
  BY SecretTypes DEF Init, MadeFor
<1>3. cache \in [Key -> Entry] /\ \A k \in Key : ~cache[k].live
  BY SecretTypes DEF Init, NoEntry
<1>4. call \in [Invocation -> Call] /\ \A w \in Invocation : CallOK(call[w])
  BY NoCallOK DEF Init
<1>5. now \in 0..MaxTicks /\ edits \in 0..MaxEdits /\ edits = 0
  BY SecretTypes DEF Init
<1>6. seen \in [Invocation -> SUBSET [Subscription -> Row]]
  BY DEF Init
<1>7. replaced \in [Key -> [0..MaxEdits -> 0..(MaxTicks + 1)]]
  BY SecretTypes DEF Init
<1>8. SecretsOK
  BY <1>2, <1>3, <1>5 DEF SecretsOK
<1> QED BY <1>1, <1>2, <1>3, <1>4, <1>5, <1>6, <1>7, <1>8 DEF RoutingInv, RoutingTypeOK

LEMMA RoutingInvStep == RoutingInv /\ [Next]_vars => RoutingInv'
<1>1. ASSUME RoutingInv, UNCHANGED vars PROVE RoutingInv'
  BY <1>1 DEF RoutingInv, RoutingTypeOK, SecretsOK, vars
<1> QED BY <1>1, CallInvStep, AdminInvStep DEF Next

LEMMA RoutingInvariant == Spec => []RoutingInv
BY RoutingInvInit, RoutingInvStep, PTL DEF Spec

\* Calls, caches and tables keep their types.
THEOREM RoutingTypeCorrect == Spec => []RoutingTypeOK
<1>1. RoutingInv => RoutingTypeOK
  BY DEF RoutingInv
<1> QED BY <1>1, RoutingInvariant, PTL

\* No message reaches, or is signed for, another tenant (SqlSubscriptionStore,
\* ConfigSubscriptionStore, ConfigurationTenantSecretRetriever).
THEOREM TenantsAreIsolated == Spec => []TenantIsolation
<1>1. ASSUME RoutingInv, NEW w \in Invocation, NEW d \in Deliveries(w)
      PROVE  /\ d[2].tenant \in {NoTenant, TenantOf[d[1]]}
             /\ \/ d[2].secret.owner \in {d[2].id, TenantOf[d[1]]}
                \/ d[2].id = <<d[2].secret.owner, d[2].tenant>>
  <2>1. PICK m \in call[w].batch : d \in {<<m, r>> : r \in call[w].subs[RouteOf(m)]}
    BY <1>1 DEF Deliveries
  <2>2. d[1] = m /\ d[2] \in call[w].subs[RouteOf(m)]
    BY <2>1
  <2>3. m \in Message
    BY <1>1 DEF RoutingInv, RoutingTypeOK, Call
  <2>4. Isolated(d[2], RouteOf(m)) /\ RouteOf(m)[2] = TenantOf[m]
    BY <1>1, <2>2, <2>3, RouteType DEF RoutingInv, CallOK
  <2> QED BY <2>2, <2>4 DEF Isolated
<1>2. RoutingInv => TenantIsolation
  BY <1>1 DEF TenantIsolation
<1> QED BY <1>2, RoutingInvariant, PTL

-----------------------------------------------------------------------------
(* Which recipients, and as of when *)

Ids(recipients) == {r.id : r \in recipients}

\* The dictionary of c, filled while the table went through the contents in tables.
FilledFrom(c, tables) ==
  /\ reader = "table" =>
       \A route \in c.cached : \E table \in tables : Ids(c.subs[route]) = Matching(table, route)
  /\ reader = "perTenant" =>
       \A route \in c.cached : c.subs[route] = ResolveForTenant(route[2])
  /\ c.phase \in {"enrich", "resolved"} => reader = "table"
  /\ c.phase = "deliver" => \A m \in c.batch : RouteOf(m) \in c.cached

InstantInv ==
  /\ reader = "perTenant" => endpoints \subseteq Tenant \cup {Default}
  /\ \A w \in Invocation :
       /\ FilledFrom(call[w], seen[w])
       /\ IF call[w].phase = "idle" THEN call[w].cached = {} ELSE sub \in seen[w]

LEMMA NothingFilled == ASSUME NEW tables, NEW c, c.cached = {}, c.phase \in {"idle", "read"}
                       PROVE  FilledFrom(c, tables)
BY DEF FilledFrom

\* A call that takes a step leaves the others alone.
LEMMA OneFilled ==
  ASSUME RoutingInv, InstantInv, NEW w \in Invocation, NEW c, SetCall(w, c),
         UNCHANGED <<fixed, admin>>, NEW tables, seen' = [seen EXCEPT ![w] = tables],
         FilledFrom(c, tables), IF c.phase = "idle" THEN c.cached = {} ELSE sub \in tables
  PROVE  InstantInv'
<1>1. \A v \in Invocation \ {w} : call'[v] = call[v] /\ seen'[v] = seen[v]
  BY DEF SetCall, RoutingInv, RoutingTypeOK
<1>2. call'[w] = c /\ seen'[w] = tables
  BY DEF SetCall, RoutingInv, RoutingTypeOK
<1>3. sub' = sub /\ reader' = reader /\ endpoints' = endpoints
  BY DEF fixed, admin
<1> QED BY <1>1, <1>2, <1>3 DEF InstantInv, FilledFrom, ResolveForTenant

\* A look-up keeps the recipients.
LEMMA EnrichedFilled ==
  ASSUME RoutingInv, NEW w \in Invocation, FilledFrom(call[w], seen[w]),
         call[w].phase \in {"enrich", "resolved"}, NEW s \in call[w].left,
         NEW secret \in Secret \cup {None},
         MadeFor(secret, TenantKey(RecipientOf(call[w], s)))
  PROVE  /\ FilledFrom(Enriched(call[w], s, secret), seen[w])
         /\ Enriched(call[w], s, secret).phase # "idle"
<1> DEFINE c == call[w]
           e == Enriched(c, s, secret)
<1>1. c \in Call /\ CallOK(c) /\ reader = "table"
  BY DEF RoutingInv, RoutingTypeOK, FilledFrom
<1>2. e.phase \in {"read", "enrich"}
  BY <1>1 DEF Enriched, Call
<1>3. e.cached = c.cached /\ \A route \in Route : Ids(e.subs[route]) = Ids(c.subs[route])
  BY <1>1, EnrichedOK DEF Ids
<1>4. c.cached \subseteq Route
  BY <1>1 DEF Call
<1> QED BY <1>1, <1>2, <1>3, <1>4 DEF FilledFrom

LEMMA InstantInvStep ==
  ASSUME RoutingInv, InstantInv, [Next]_vars
  PROVE  InstantInv'
<1>0. /\ seen \in [Invocation -> SUBSET [Subscription -> Row]] /\ sub \in [Subscription -> Row]
      /\ call \in [Invocation -> Call] /\ SecretsOK
      /\ configured \in [Key -> Secret \cup {None}] /\ cache \in [Key -> Entry]
  BY DEF RoutingInv, RoutingTypeOK
<1>1. ASSUME NEW w \in Invocation, CallStep(w) PROVE InstantInv'
  <2> DEFINE c == call[w]
  <2>0. /\ c \in Call /\ CallOK(c) /\ FilledFrom(c, seen[w])
        /\ c.phase # "idle" => sub \in seen[w]
        /\ seen = [seen EXCEPT ![w] = seen[w]]
    BY <1>0 DEF RoutingInv, InstantInv
  <2>1. ASSUME NEW batch \in SUBSET Message, Lock(w, batch) PROVE InstantInv'
    <3> DEFINE n == [NoCall EXCEPT !.phase = "read", !.batch = batch]
    <3>1. n.cached = {} /\ n.phase = "read"
      BY DEF NoCall
    <3>2. FilledFrom(n, {sub})
      BY <3>1, NothingFilled
    <3> QED BY <2>1, <3>1, <3>2, OneFilled DEF Lock
  <2>2. ASSUME NEW m \in Message, ReadRoute(w, m) PROVE InstantInv'
    <3> DEFINE n == call'[w]
               rt == RouteOf(m)
    <3>1. n \in Call /\ SetCall(w, n) /\ UNCHANGED <<fixed, admin, cache, now, seen>>
          /\ c.phase = "read" /\ rt \in Route
      BY <2>2, ReadRouteOK, RouteType DEF ReadRoute
    <3>2. CASE reader = "table"
      <4> DEFINE found == {Stored(s) : s \in Matching(sub, rt)}
      <4>1. n = [c EXCEPT !.subs[rt] = found,
                          !.cached = @ \cup {rt}, !.route = rt, !.left = Matching(sub, rt),
                          !.phase = IF Matching(sub, rt) = {} THEN "read" ELSE "enrich"]
        BY <1>0, <2>2, <3>2 DEF ReadRoute, SetCall, RouteOf
      <4>3. Ids(found) = Matching(sub, rt)
        <5>1. \A s \in Matching(sub, rt) : Stored(s) \in found /\ Stored(s).id = s
          BY DEF Stored
        <5>2. \A r \in found : \E s \in Matching(sub, rt) : r.id = s
          BY DEF Stored
        <5> HIDE DEF found
        <5> QED BY <5>1, <5>2 DEF Ids
      <4> HIDE DEF found
      <4>2. /\ n.cached = c.cached \cup {rt} /\ n.phase \in {"read", "enrich"}
            /\ \A route \in Route \ {rt} : n.subs[route] = c.subs[route]
            /\ n.subs[rt] = found
        <5>1. /\ n.cached = c.cached \cup {rt} /\ n.phase \in {"read", "enrich"}
              /\ n.subs = [c.subs EXCEPT ![rt] = found]
          BY <2>0, <4>1 DEF Call
        <5> HIDE DEF n
        <5> QED BY <2>0, <3>1, <5>1 DEF Call
      <4>4. c.cached \subseteq Route
        BY <2>0 DEF Call
      <4> HIDE DEF n
      <4>5. FilledFrom(n, seen[w])
        BY <2>0, <3>1, <3>2, <4>2, <4>3, <4>4 DEF FilledFrom
      <4> QED BY <2>0, <3>1, <4>2, <4>5, OneFilled
    <3>3. CASE reader # "table"
      <4>1. n = [c EXCEPT !.subs[rt] = Resolved(rt), !.cached = @ \cup {rt}]
        BY <1>0, <2>2, <3>3 DEF ReadRoute, SetCall, RouteOf
      <4>2. /\ n.cached = c.cached \cup {rt} /\ n.phase = "read"
            /\ \A route \in Route \ {rt} : n.subs[route] = c.subs[route]
            /\ n.subs[rt] = Resolved(rt)
        BY <2>0, <3>1, <4>1 DEF Call
      <4>3. reader = "perTenant" => Resolved(rt) = ResolveForTenant(rt[2])
        BY DEF Resolved, Global
      <4>4. c.cached \subseteq Route
        BY <2>0 DEF Call
      <4> HIDE DEF n
      <4>5. FilledFrom(n, seen[w])
        BY <2>0, <3>3, <4>2, <4>3, <4>4 DEF FilledFrom
      <4> QED BY <2>0, <3>1, <4>2, <4>5, OneFilled
    <3> QED BY <3>2, <3>3
  <2>3. ASSUME NEW s \in Subscription, CachedSecret(w, s) PROVE InstantInv'
    <3> DEFINE k == TenantKey(RecipientOf(c, s))
    <3>1. c.phase = "enrich" /\ s \in c.left /\ cache[k].live
          /\ SetCall(w, Enriched(c, s, cache[k].secret))
          /\ UNCHANGED <<fixed, admin, cache, now, seen>>
      BY <2>3 DEF CachedSecret
    <3>2. cache[k].secret \in Secret \cup {None} /\ MadeFor(cache[k].secret, k)
      BY <1>0, <2>0, <3>1, KeyOfRow DEF SecretsOK, Entry
    <3>3. /\ FilledFrom(Enriched(c, s, cache[k].secret), seen[w])
          /\ Enriched(c, s, cache[k].secret).phase # "idle"
      BY <2>0, <3>1, <3>2, EnrichedFilled
    <3> QED BY <2>0, <3>1, <3>3, OneFilled
  <2>4. ASSUME NEW s \in Subscription, Resolve(w, s) PROVE InstantInv'
    <3> DEFINE n == [c EXCEPT !.phase = "resolved", !.row = s,
                              !.secret = configured[TenantKey(RecipientOf(c, s))]]
    <3>1. c.phase = "enrich" /\ SetCall(w, n) /\ UNCHANGED <<fixed, admin, cache, now, seen>>
      BY <2>4 DEF Resolve
    <3>2. n.subs = c.subs /\ n.cached = c.cached /\ n.phase = "resolved"
      BY <2>0 DEF Call
    <3> HIDE DEF n
    <3>3. FilledFrom(n, seen[w])
      BY <2>0, <3>1, <3>2 DEF FilledFrom
    <3> QED BY <2>0, <3>1, <3>2, <3>3, OneFilled
  <2>5. ASSUME StoreSecret(w) PROVE InstantInv'
    <3>1. c.phase = "resolved" /\ SetCall(w, Enriched(c, c.row, c.secret))
          /\ UNCHANGED <<fixed, admin, now, seen>>
      BY <2>5 DEF StoreSecret
    <3>2. /\ c.row \in c.left /\ c.secret \in Secret \cup {None}
          /\ MadeFor(c.secret, TenantKey(RecipientOf(c, c.row)))
      BY <2>0, <3>1 DEF CallOK, Call
    <3>3. /\ FilledFrom(Enriched(c, c.row, c.secret), seen[w])
          /\ Enriched(c, c.row, c.secret).phase # "idle"
      BY <2>0, <3>1, <3>2, EnrichedFilled
    <3> QED BY <2>0, <3>1, <3>3, OneFilled
  <2>6. ASSUME StartDelivery(w) PROVE InstantInv'
    <3> DEFINE n == [c EXCEPT !.phase = "deliver"]
    <3>1. c.phase = "read" /\ SetCall(w, n) /\ UNCHANGED <<fixed, admin, seen>>
          /\ \A m \in c.batch : RouteOf(m) \in c.cached
      BY <2>6 DEF StartDelivery
    <3>2. n.subs = c.subs /\ n.cached = c.cached /\ n.phase = "deliver" /\ n.batch = c.batch
      BY <2>0 DEF Call
    <3> HIDE DEF n
    <3>3. FilledFrom(n, seen[w])
      BY <2>0, <3>1, <3>2 DEF FilledFrom
    <3> QED BY <2>0, <3>1, <3>2, <3>3, OneFilled
  <2>7. ASSUME EndBatch(w) PROVE InstantInv'
    <3>1. NoCall.cached = {} /\ NoCall.phase = "idle"
      BY DEF NoCall
    <3>2. FilledFrom(NoCall, {})
      BY <3>1, NothingFilled
    <3> QED BY <2>7, <3>1, <3>2, OneFilled DEF EndBatch
  <2> QED BY <1>1, <2>1, <2>2, <2>3, <2>4, <2>5, <2>6, <2>7 DEF CallStep, SecretStep
<1>2. ASSUME NEW s \in Subscription, NEW r, Edit(s, r) PROVE InstantInv'
  <2>1. /\ reader' = reader /\ endpoints' = endpoints /\ call' = call
        /\ \A w \in Invocation : call[w].phase # "idle" => seen'[w] = seen[w] \cup {sub'}
    BY <1>0, <1>2 DEF Edit, fixed
  <2>2. ASSUME NEW w \in Invocation, call[w].phase = "idle" PROVE FilledFrom(call[w], seen[w])'
    <3>1. call[w].cached = {}
      BY <2>2 DEF InstantInv
    <3> QED BY <2>1, <2>2, <3>1 DEF FilledFrom
  <2>3. ASSUME NEW w \in Invocation, call[w].phase # "idle" PROVE FilledFrom(call[w], seen[w])'
    BY <2>1, <2>3 DEF InstantInv, FilledFrom, ResolveForTenant
  <2> QED BY <2>1, <2>2, <2>3 DEF InstantInv
<1>3. CASE Tick \/ (\E k \in Key : Rotate(k)) \/ UNCHANGED vars
  <2>1. UNCHANGED <<reader, endpoints, sub, call, seen>>
    BY <1>3 DEF Tick, Rotate, vars, fixed, admin
  <2> QED BY <2>1 DEF InstantInv, FilledFrom, ResolveForTenant
<1> QED BY <1>1, <1>2, <1>3 DEF Next, AdminStep, Deactivate, AddOrUpdate

LEMMA InstantInvariant == Spec => [](RoutingInv /\ InstantInv)
<1>1. Init => InstantInv
  <2>1. NoCall.cached = {} /\ NoCall.phase = "idle"
    BY DEF NoCall
  <2>2. Init /\ reader = "perTenant" => endpoints \subseteq Tenant \cup {Default}
    BY DEF Init, Global
  <2> QED BY <2>1, <2>2, NothingFilled DEF Init, InstantInv
<1>2. RoutingInv /\ InstantInv /\ [Next]_vars => InstantInv'
  BY InstantInvStep
<1> QED BY <1>1, <1>2, RoutingInvariant, PTL DEF Spec

LEMMA BatchMessages ==
  RoutingInv => \A w \in Invocation : call[w].batch \subseteq Message
BY DEF RoutingInv, RoutingTypeOK, Call

\* The recipients of a message are the rows that matched it at one instant after
\* its lock (BuildSubscriptionCacheAsync).
THEOREM OneInstant == Spec => []RecipientsOfOneInstant
<1>1. RoutingInv /\ InstantInv => RecipientsOfOneInstant
  <2> SUFFICES ASSUME RoutingInv, InstantInv, reader = "table", NEW w \in Invocation,
                      call[w].phase = "deliver", NEW m \in call[w].batch
               PROVE  \E table \in seen[w] :
                        {r.id : r \in call[w].subs[RouteOf(m)]}
                          = Matching(table, <<EventOf[m], TenantOf[m]>>)
    BY DEF RecipientsOfOneInstant
  <2> QED BY DEF InstantInv, FilledFrom, Ids, RouteOf
<1> QED BY <1>1, InstantInvariant, PTL

\* The configured endpoint of a tenant is used for that tenant and no other
\* (ConfigSubscriptionStore.ResolveForTenant).
THEOREM OwnEndpoints == Spec => []OwnEndpointFirst
<1>1. RoutingInv /\ InstantInv => OwnEndpointFirst
  <2> SUFFICES ASSUME RoutingInv, InstantInv, reader = "perTenant", NEW w \in Invocation,
                      NEW d \in Deliveries(w)
               PROVE  d[2].secret.owner = IF TenantOf[d[1]] \in endpoints
                                          THEN TenantOf[d[1]] ELSE Default
    BY DEF OwnEndpointFirst
  <2>1. call[w].phase = "deliver"
    BY DEF Deliveries
  <2>2. PICK m \in call[w].batch : d \in {<<m, r>> : r \in call[w].subs[RouteOf(m)]}
    BY <2>1 DEF Deliveries
  <2>3. d[1] = m /\ d[2] \in call[w].subs[RouteOf(m)] /\ m \in Message
    BY <2>2, BatchMessages
  <2>4. d[2] \in ResolveForTenant(TenantOf[m])
    BY <2>1, <2>3, RouteType DEF InstantInv, FilledFrom
  <2>5. TenantOf[m] = NoTenant => (TenantOf[m] \in endpoints => TenantOf[m] = Default)
    BY RoutingAssumption DEF InstantInv
  <2> QED BY <2>3, <2>4, <2>5 DEF ResolveForTenant, At
<1> QED BY <1>1, InstantInvariant, PTL

-----------------------------------------------------------------------------
(* How old a secret may be *)

\* The recipients of the route being read: one to a row, and with the secret they
\* were stored with until it has been looked up.
OneToARow(c) ==
  c.phase \in {"enrich", "resolved"} =>
    \A r \in c.subs[c.route] :
      /\ \A q \in c.subs[c.route] : q.id = r.id => q = r
      /\ r.id \in c.left => r.secret.version = 0

\* What Resolve returned was configured at the present instant.
JustResolved(c) ==
  c.phase = "resolved" =>
    now <= replaced[TenantKey(RecipientOf(c, c.row))][c.secret.version]

\* The secrets from the configured one on have not been replaced, and a cached one
\* not before its entry was made.
KeyFresh(k) ==
  /\ \A v \in 0..MaxEdits : configured[k].version <= v => replaced[k][v] = MaxTicks + 1
  /\ cache[k].live => now - replaced[k][cache[k].secret.version] <= cache[k].age

FreshInv ==
  /\ \A k \in Key : KeyFresh(k)
  /\ \A w \in Invocation : OneToARow(call[w]) /\ JustResolved(call[w])

LEMMA VersionTypes ==
  ASSUME RoutingInv
  PROVE  /\ now \in 0..MaxTicks /\ MaxTicks \in Nat /\ MaxEdits \in Nat /\ CacheTtl \in Nat
         /\ \A k \in Key : /\ configured[k].version \in 0..MaxEdits
                           /\ cache[k].secret.version \in 0..MaxEdits
                           /\ cache[k].age \in 0..CacheTtl
                           /\ replaced[k] \in [0..MaxEdits -> 0..(MaxTicks + 1)]
         /\ \A w \in Invocation : call[w].secret.version \in 0..MaxEdits
<1>1. \A secret \in Secret \cup {None} : secret.version \in 0..MaxEdits
  BY SecretTypes DEF Secret
<1>2. \A k \in Key : cache[k] \in Entry /\ configured[k] \in Secret \cup {None}
  BY DEF RoutingInv, RoutingTypeOK
<1>3. \A w \in Invocation : call[w] \in Call
  BY DEF RoutingInv, RoutingTypeOK
<1> QED BY <1>1, <1>2, <1>3, SecretTypes DEF RoutingInv, RoutingTypeOK, Entry, Call

\* A look-up leaves one row the less, and gives out the secret found.
LEMMA EnrichedFields ==
  ASSUME NEW c \in Call, CallOK(c), c.phase \in {"enrich", "resolved"}, NEW s \in c.left,
         NEW secret \in Secret \cup {None}
  PROVE  /\ RecipientOf(c, s) \in c.subs[c.route] /\ RecipientOf(c, s).id = s
         /\ RecipientOf(c, s) \in Recipient
         /\ Enriched(c, s, secret).route = c.route
         /\ Enriched(c, s, secret).left = c.left \ {s}
         /\ Enriched(c, s, secret).phase \in {"read", "enrich"}
         /\ secret = None => Enriched(c, s, secret).subs[c.route] = c.subs[c.route]
         /\ secret # None => Enriched(c, s, secret).subs[c.route]
              = (c.subs[c.route] \ {RecipientOf(c, s)})
                  \cup {[id |-> s, tenant |-> RecipientOf(c, s).tenant, secret |-> secret]}
<1> DEFINE r == RecipientOf(c, s)
           e == Enriched(c, s, secret)
           q == [r EXCEPT !.secret = secret]
           d == [c EXCEPT !.left = @ \ {s}, !.row = SomeRow, !.secret = None,
                          !.phase = IF c.left = {s} THEN "read" ELSE "enrich"]
<1>1. r \in c.subs[c.route] /\ r.id = s
  BY DEF RecipientOf, CallOK
<1>2. r \in Recipient /\ c.route \in Route
  BY <1>1 DEF Call
<1>3. /\ d.subs = c.subs /\ d.route = c.route /\ d.left = c.left \ {s}
      /\ d.phase \in {"read", "enrich"}
  BY DEF Call
<1>4. d \in [phase : {"read", "enrich"}, batch : SUBSET Message,
             subs : [Route -> SUBSET Recipient], cached : SUBSET Route, route : Route,
             left : SUBSET Subscription, row : {SomeRow}, secret : {None}]
  BY DEF Call
<1> HIDE DEF r
<1>5. CASE secret = None
  <2>1. e = d
    BY <1>5 DEF Enriched
  <2> QED BY <1>1, <1>2, <1>3, <1>5, <2>1 DEF r
<1>6. CASE secret # None
  <2>1. e = [d EXCEPT !.subs[c.route] = (@ \ {r}) \cup {q}]
    BY <1>6 DEF Enriched, r
  <2> HIDE DEF q, d
  <2>2. /\ e.subs = [d.subs EXCEPT ![c.route] = (d.subs[c.route] \ {r}) \cup {q}]
        /\ e.route = d.route /\ e.left = d.left /\ e.phase = d.phase
    BY <1>4, <2>1
  <2>3. e.subs[c.route] = (c.subs[c.route] \ {r}) \cup {q}
    BY <1>2, <1>3, <1>4, <2>2
  <2>4. q = [id |-> s, tenant |-> r.tenant, secret |-> secret]
    BY <1>1, <1>2 DEF q, Recipient
  <2> QED BY <1>1, <1>2, <1>3, <1>6, <2>2, <2>3, <2>4 DEF r
<1> QED BY <1>5, <1>6

LEMMA LookupGives ==
  ASSUME NEW c \in Call, CallOK(c), c.phase \in {"enrich", "resolved"}, NEW s \in c.left,
         OneToARow(c), NEW secret \in Secret \cup {None}
  PROVE  /\ OneToARow(Enriched(c, s, secret))
         /\ (CHOOSE q \in Enriched(c, s, secret).subs[c.route] : q.id = s).secret
              = IF secret = None THEN RecipientOf(c, s).secret ELSE secret
         /\ RecipientOf(c, s).secret.version = 0
<1> DEFINE r == RecipientOf(c, s)
           e == Enriched(c, s, secret)
           q == [id |-> s, tenant |-> r.tenant, secret |-> secret]
<1>1. /\ r \in c.subs[c.route] /\ r.id = s /\ r \in Recipient
      /\ e.route = c.route /\ e.left = c.left \ {s} /\ e.phase \in {"read", "enrich"}
      /\ secret = None => e.subs[c.route] = c.subs[c.route]
      /\ secret # None => e.subs[c.route] = (c.subs[c.route] \ {r}) \cup {q}
  BY EnrichedFields
<1>2. q.id = s /\ q.secret = secret
  OBVIOUS
<1> HIDE DEF r, e, q
<1> DEFINE p == IF secret = None THEN r ELSE q
<1>3. p \in e.subs[c.route] /\ \A t \in e.subs[c.route] : t.id = s => t = p
  BY <1>1, <1>2 DEF OneToARow
<1>4. (CHOOSE t \in e.subs[c.route] : t.id = s) = p
  BY <1>1, <1>2, <1>3
<1>5. OneToARow(e)
  BY <1>1, <1>2, <1>3 DEF OneToARow
<1>6. r.secret.version = 0
  BY <1>1 DEF OneToARow
<1>7. p.secret = IF secret = None THEN r.secret ELSE secret
  BY <1>2
<1> HIDE DEF p
<1>8. (CHOOSE t \in e.subs[c.route] : t.id = s).secret
        = IF secret = None THEN r.secret ELSE secret
  BY <1>4, <1>7, Zenon
<1> QED BY <1>5, <1>6, <1>8, Zenon DEF r, e

\* One call moves, and what is cached stays as fresh.
LEMMA OneFresh ==
  ASSUME RoutingInv, FreshInv, NEW w \in Invocation, NEW c, SetCall(w, c),
         UNCHANGED <<configured, replaced, now>>, OneToARow(c), JustResolved(c),
         \A k \in Key : KeyFresh(k)'
  PROVE  FreshInv'
<1>1. call'[w] = c /\ \A v \in Invocation \ {w} : call'[v] = call[v]
  BY DEF RoutingInv, RoutingTypeOK, SetCall
<1> QED BY <1>1 DEF FreshInv, OneToARow, JustResolved

LEMMA CallFreshStep ==
  ASSUME RoutingInv, FreshInv, NEW w \in Invocation, CallStep(w)
  PROVE  FreshInv'
<1> DEFINE c == call[w]
<1>0. /\ RoutingTypeOK /\ SecretsOK /\ c \in Call /\ CallOK(c) /\ OneToARow(c) /\ JustResolved(c)
      /\ sub \in [Subscription -> Row]
  BY DEF RoutingInv, RoutingTypeOK, FreshInv
<1>1. ASSUME UNCHANGED <<configured, replaced, now, cache>> PROVE \A k \in Key : KeyFresh(k)'
  BY <1>1 DEF FreshInv, KeyFresh
<1>2. \A k \in Key : /\ configured[k] \in Secret \cup {None}
                     /\ cache[k].secret \in Secret \cup {None}
  BY <1>0 DEF RoutingTypeOK, Entry
<1>3. ASSUME NEW n, n.phase \notin {"enrich", "resolved"} PROVE OneToARow(n) /\ JustResolved(n)
  BY <1>3 DEF OneToARow, JustResolved
<1>4. ASSUME NEW batch \in SUBSET Message, Lock(w, batch) PROVE FreshInv'
  <2>1. [NoCall EXCEPT !.phase = "read", !.batch = batch].phase = "read"
    BY DEF NoCall
  <2> QED BY <1>1, <1>3, <1>4, <2>1, OneFresh DEF Lock, admin
<1>5. ASSUME NEW m \in Message, ReadRoute(w, m) PROVE FreshInv'
  <2> DEFINE n == call'[w]
             rt == RouteOf(m)
  <2>1. n \in Call /\ SetCall(w, n) /\ c.phase = "read" /\ rt \in Route
        /\ UNCHANGED <<configured, replaced, now, cache>>
    BY <1>5, ReadRouteOK, RouteType DEF ReadRoute, admin
  <2>2. CASE reader = "table"
    <3> DEFINE found == {Stored(s) : s \in Matching(sub, rt)}
    <3>1. n = [c EXCEPT !.subs[rt] = found,
                        !.cached = @ \cup {rt}, !.route = rt, !.left = Matching(sub, rt),
                        !.phase = IF Matching(sub, rt) = {} THEN "read" ELSE "enrich"]
      BY <1>0, <1>5, <2>2 DEF ReadRoute, SetCall, RouteOf, RoutingTypeOK
    <3>2. \A r \in found : \E s : r.id = s /\ r = Stored(s) /\ r.secret.version = 0
      BY DEF Stored
    <3> HIDE DEF found
    <3>3. n.subs = [c.subs EXCEPT ![rt] = found] /\ n.route = rt /\ n.phase \in {"read", "enrich"}
      BY <1>0, <3>1 DEF Call
    <3> HIDE DEF n
    <3>4. n.subs[rt] = found
      BY <1>0, <2>1, <3>3 DEF Call
    <3>5. OneToARow(n) /\ JustResolved(n)
      BY <3>2, <3>3, <3>4 DEF OneToARow, JustResolved
    <3> QED BY <1>1, <2>1, <3>5, OneFresh
  <2>3. CASE reader # "table"
    <3>1. n = [c EXCEPT !.subs[rt] = Resolved(rt), !.cached = @ \cup {rt}]
      BY <1>0, <1>5, <2>3 DEF ReadRoute, SetCall, RouteOf, RoutingTypeOK
    <3>2. n.phase = "read"
      BY <1>0, <2>1, <3>1 DEF Call
    <3> HIDE DEF n
    <3> QED BY <1>1, <1>3, <2>1, <3>2, OneFresh
  <2> QED BY <2>2, <2>3
<1>6. ASSUME NEW s \in Subscription, CachedSecret(w, s) PROVE FreshInv'
  <2> DEFINE k == TenantKey(RecipientOf(c, s))
             n == Enriched(c, s, cache[k].secret)
  <2>1. c.phase = "enrich" /\ s \in c.left /\ SetCall(w, n)
        /\ UNCHANGED <<configured, replaced, now, cache>>
    BY <1>6 DEF CachedSecret, admin
  <2>2. cache[k].secret \in Secret \cup {None}
    BY <1>0, <1>2, <2>1, KeyOfRow
  <2>3. OneToARow(n) /\ n.phase # "resolved"
    BY <1>0, <2>1, <2>2, LookupGives, EnrichedFields
  <2> HIDE DEF n
  <2> QED BY <1>1, <2>1, <2>3, OneFresh DEF JustResolved
<1>7. ASSUME NEW s \in Subscription, Resolve(w, s) PROVE FreshInv'
  <2> DEFINE k == TenantKey(RecipientOf(c, s))
             n == [c EXCEPT !.phase = "resolved", !.row = s, !.secret = configured[k]]
  <2>1. c.phase = "enrich" /\ s \in c.left /\ SetCall(w, n)
        /\ UNCHANGED <<configured, replaced, now, cache>>
    BY <1>7 DEF Resolve, admin
  <2>2. k \in Key
    BY <1>0, <2>1, KeyOfRow
  <2>3. /\ n.subs = c.subs /\ n.route = c.route /\ n.left = c.left /\ n.phase = "resolved"
        /\ n.row = s /\ n.secret = configured[k]
    BY <1>0 DEF Call
  <2> HIDE DEF n
  <2>4. TenantKey(RecipientOf(n, n.row)) = k
    BY <2>3 DEF RecipientOf
  <2>5. replaced[k][configured[k].version] = MaxTicks + 1 /\ now <= MaxTicks + 1
    BY <2>2, VersionTypes DEF FreshInv, KeyFresh
  <2>6. OneToARow(n) /\ JustResolved(n)
    BY <1>0, <2>1, <2>3, <2>4, <2>5 DEF OneToARow, JustResolved
  <2> QED BY <1>1, <2>1, <2>6, OneFresh
<1>8. ASSUME StoreSecret(w) PROVE FreshInv'
  <2> DEFINE k == TenantKey(RecipientOf(c, c.row))
             n == Enriched(c, c.row, c.secret)
             entry == [live |-> TRUE, secret |-> c.secret, age |-> 0]
  <2>1. /\ c.phase = "resolved" /\ SetCall(w, n)
        /\ cache' = (IF CacheTtl = 0 THEN cache ELSE [cache EXCEPT ![k] = entry])
        /\ UNCHANGED <<configured, replaced, now>>
    BY <1>8 DEF StoreSecret, admin
  <2>2. c.row \in c.left /\ c.secret \in Secret \cup {None}
    BY <1>0, <2>1 DEF CallOK, Call
  <2>3. OneToARow(n) /\ n.phase # "resolved"
    BY <1>0, <2>1, <2>2, LookupGives, EnrichedFields
  <2>4. k \in Key
    BY <1>0, <2>1, <2>2, KeyOfRow
  <2>5. now <= replaced[k][c.secret.version] /\ c.secret.version \in 0..MaxEdits
    BY <1>0, <2>1, VersionTypes DEF JustResolved
  <2>6. now - replaced[k][c.secret.version] <= 0
    BY <2>4, <2>5, VersionTypes
  <2>7. entry.secret = c.secret /\ entry.age = 0
    OBVIOUS
  <2> HIDE DEF n, k, entry
  <2>8. \A j \in Key : KeyFresh(j)'
    <3> SUFFICES ASSUME NEW j \in Key PROVE KeyFresh(j)'
      OBVIOUS
    <3>1. CASE cache'[j] = cache[j]
      BY <2>1, <3>1 DEF FreshInv, KeyFresh
    <3>2. CASE j = k /\ cache'[j] = entry
      BY <2>1, <2>6, <2>7, <3>2 DEF FreshInv, KeyFresh
    <3> QED BY <1>0, <2>1, <3>1, <3>2 DEF RoutingTypeOK
  <2> QED BY <2>1, <2>3, <2>8, OneFresh DEF JustResolved
<1>9. ASSUME StartDelivery(w) \/ EndBatch(w) PROVE FreshInv'
  <2>1. NoCall.phase = "idle" /\ [c EXCEPT !.phase = "deliver"].phase = "deliver"
    BY <1>0 DEF NoCall, Call
  <2> QED BY <1>1, <1>3, <1>9, <2>1, OneFresh DEF StartDelivery, EndBatch, admin
<1> QED BY <1>4, <1>5, <1>6, <1>7, <1>8, <1>9 DEF CallStep, SecretStep

LEMMA AdminFreshStep ==
  ASSUME RoutingInv, FreshInv, AdminStep \/ Tick
  PROVE  FreshInv'
<1>0. /\ configured \in [Key -> Secret \cup {None}] /\ cache \in [Key -> Entry]
      /\ replaced \in [Key -> [0..MaxEdits -> 0..(MaxTicks + 1)]]
  BY DEF RoutingInv, RoutingTypeOK
<1>1. ASSUME NEW s \in Subscription, NEW r, Edit(s, r) PROVE FreshInv'
  BY <1>1 DEF Edit, FreshInv, KeyFresh, OneToARow, JustResolved
<1>2. ASSUME NEW k \in Key, Rotate(k) PROVE FreshInv'
  <2> DEFINE v == configured[k].version
  <2>1. /\ configured' = [configured EXCEPT ![k] = [owner |-> k, version |-> v + 1]]
        /\ replaced' = [replaced EXCEPT ![k][v] = now]
        /\ UNCHANGED <<cache, call, now>>
    BY <1>2 DEF Rotate
  <2>2. v \in 0..MaxEdits /\ now \in 0..MaxTicks
    BY VersionTypes
  <2> HIDE DEF v
  <2>3. \A j \in Key : \A u \in 0..MaxEdits :
          replaced'[j][u] = IF j = k /\ u = v THEN now ELSE replaced[j][u]
    BY <1>0, <2>1, <2>2
  <2>4. \A j \in Key : configured'[j].version = IF j = k THEN v + 1 ELSE configured[j].version
    BY <1>0, <2>1
  <2>5. ASSUME NEW j \in Key PROVE KeyFresh(j)'
    <3>1. ASSUME NEW u \in 0..MaxEdits, configured'[j].version <= u
          PROVE  replaced'[j][u] = MaxTicks + 1
      <4>1. CASE j = k
        <5>1. u # v /\ v <= u
          BY <2>2, <2>4, <3>1, <4>1, VersionTypes
        <5> QED BY <2>3, <4>1, <5>1 DEF FreshInv, KeyFresh, v
      <4>2. CASE j # k
        BY <2>3, <2>4, <3>1, <4>2 DEF FreshInv, KeyFresh
      <4> QED BY <4>1, <4>2
    <3>2. ASSUME cache[j].live PROVE now - replaced'[j][cache[j].secret.version] <= cache[j].age
      <4>1. cache[j].secret.version \in 0..MaxEdits /\ cache[j].age \in 0..CacheTtl
            /\ now - now = 0 /\ CacheTtl \in Nat
        BY VersionTypes
      <4>2. now - replaced[j][cache[j].secret.version] <= cache[j].age
        BY <3>2 DEF FreshInv, KeyFresh
      <4>3. 0 <= cache[j].age
        BY <4>1
      <4> QED BY <2>3, <4>1, <4>2, <4>3
    <3> QED BY <2>1, <3>1, <3>2 DEF KeyFresh
  <2>6. ASSUME NEW w \in Invocation PROVE JustResolved(call[w])'
    <3> SUFFICES ASSUME call[w].phase = "resolved"
                 PROVE  now <= replaced'[TenantKey(RecipientOf(call[w], call[w].row))]
                                        [call[w].secret.version]
      BY <2>1 DEF JustResolved
    <3>1. call[w] \in Call /\ CallOK(call[w]) /\ call[w].row \in call[w].left
      BY DEF RoutingInv, RoutingTypeOK, CallOK
    <3>2. TenantKey(RecipientOf(call[w], call[w].row)) \in Key
      BY <3>1, KeyOfRow
    <3>3. call[w].secret.version \in 0..MaxEdits
      BY VersionTypes
    <3>4. now <= replaced[TenantKey(RecipientOf(call[w], call[w].row))][call[w].secret.version]
      BY DEF FreshInv, JustResolved
    <3> QED BY <2>2, <2>3, <3>2, <3>3, <3>4
  <2> QED BY <2>1, <2>5, <2>6 DEF FreshInv, OneToARow
<1>3. CASE Tick
  <2>1. /\ now' = now + 1 /\ UNCHANGED <<configured, replaced, call>>
        /\ \A w \in Invocation : call[w].phase # "resolved"
    BY <1>3 DEF Tick, admin
  <2>2. ASSUME NEW k \in Key PROVE KeyFresh(k)'
    <3>1. ASSUME cache'[k].live
          PROVE  now' - replaced[k][cache'[k].secret.version] <= cache'[k].age
      <4>1. cache[k].live /\ cache'[k] = [cache[k] EXCEPT !.age = @ + 1]
        BY <1>3, <3>1 DEF Tick, NoEntry
      <4>2. cache'[k].secret = cache[k].secret /\ cache'[k].age = cache[k].age + 1
        BY <1>0, <4>1 DEF Entry
      <4>3. now - replaced[k][cache[k].secret.version] <= cache[k].age
        BY <4>1 DEF FreshInv, KeyFresh
      <4>4. /\ replaced[k][cache[k].secret.version] \in 0..(MaxTicks + 1)
            /\ cache[k].age \in Nat /\ now \in Nat /\ MaxTicks \in Nat
        BY VersionTypes
      <4> QED BY <2>1, <4>2, <4>3, <4>4
    <3> QED BY <2>1, <3>1 DEF FreshInv, KeyFresh
  <2> QED BY <2>1, <2>2 DEF FreshInv, OneToARow, JustResolved
<1> QED BY <1>1, <1>2, <1>3 DEF AdminStep, Deactivate, AddOrUpdate

LEMMA FreshInvariant == Spec => [](RoutingInv /\ FreshInv)
<1>1. Init => FreshInv
  <2> SUFFICES ASSUME Init PROVE FreshInv
    OBVIOUS
  <2>1. \A w \in Invocation : OneToARow(call[w]) /\ JustResolved(call[w])
    BY NoCallOK DEF Init, OneToARow, JustResolved
  <2>2. \A k \in Key : KeyFresh(k)
    BY DEF Init, KeyFresh, NoEntry
  <2> QED BY <2>1, <2>2 DEF FreshInv
<1>2. RoutingInv /\ FreshInv /\ [Next]_vars => FreshInv'
  <2>1. FreshInv /\ UNCHANGED vars => FreshInv'
    BY DEF vars, FreshInv, KeyFresh, OneToARow, JustResolved
  <2> QED BY <2>1, CallFreshStep, AdminFreshStep DEF Next
<1> QED BY <1>1, <1>2, RoutingInvariant, PTL DEF Spec

\* A look-up ends by giving out the cached secret or the one just resolved.
LEMMA LookupEnds ==
  ASSUME RoutingInv, Next, NEW w \in Invocation, NEW s \in call[w].left,
         call[w].phase \in {"enrich", "resolved"}, s \notin call'[w].left
  PROVE  \/ CachedSecret(w, s)
         \/ StoreSecret(w) /\ s = call[w].row
<1> DEFINE c == call[w]
<1>0. c \in Call /\ CallOK(c) /\ call \in [Invocation -> Call]
  BY DEF RoutingInv, RoutingTypeOK
<1>1. ASSUME NEW v \in Invocation, NEW n, SetCall(v, n) PROVE v = w /\ call'[w] = n
  BY <1>0, <1>1 DEF SetCall
<1>2. call' # call
  OBVIOUS
<1>3. PICK v \in Invocation : CallStep(v)
  BY <1>2 DEF Next, AdminStep, Deactivate, AddOrUpdate, Edit, Rotate, Tick
<1>4. v = w
  <2>1. \E n : SetCall(v, n)
    BY <1>3 DEF CallStep, SecretStep, Lock, ReadRoute, CachedSecret, Resolve, StoreSecret,
                StartDelivery, EndBatch
  <2> QED BY <1>1, <2>1
<1>5. ASSUME NEW t \in Subscription, CachedSecret(w, t) PROVE t = s
  <2> DEFINE k == TenantKey(RecipientOf(c, t))
  <2>1. c.phase = "enrich" /\ t \in c.left /\ call'[w] = Enriched(c, t, cache[k].secret)
    BY <1>1, <1>5 DEF CachedSecret
  <2>2. cache[k].secret \in Secret \cup {None}
    BY <1>0, <2>1, KeyOfRow DEF RoutingInv, RoutingTypeOK, Entry
  <2>3. call'[w].left = c.left \ {t}
    BY <1>0, <2>1, <2>2, EnrichedFields
  <2> QED BY <2>3
<1>6. ASSUME NEW t \in Subscription, Resolve(w, t) PROVE FALSE
  <2>1. PICK secret : SetCall(w, [c EXCEPT !.phase = "resolved", !.row = t, !.secret = secret])
    BY <1>6 DEF Resolve
  <2>2. [c EXCEPT !.phase = "resolved", !.row = t, !.secret = secret].left = c.left
    BY <1>0 DEF Call
  <2> QED BY <1>1, <2>1, <2>2
<1>7. ASSUME StoreSecret(w) PROVE s = c.row
  <2>1. c.phase = "resolved" /\ call'[w] = Enriched(c, c.row, c.secret)
    BY <1>1, <1>7 DEF StoreSecret
  <2>2. c.row \in c.left /\ c.secret \in Secret \cup {None}
    BY <1>0, <2>1 DEF CallOK, Call
  <2>3. call'[w].left = c.left \ {c.row}
    BY <1>0, <2>1, <2>2, EnrichedFields
  <2> QED BY <2>3
<1> QED BY <1>3, <1>4, <1>5, <1>6, <1>7
        DEF CallStep, SecretStep, Lock, ReadRoute, StartDelivery, EndBatch

\* The version of the secret given out for a row, as OldSecretsExpire counts it.
LEMMA GivenVersion ==
  ASSUME RoutingInv, FreshInv, NEW w \in Invocation, NEW s \in call[w].left,
         call[w].phase \in {"enrich", "resolved"}, NEW secret \in Secret \cup {None},
         MadeFor(secret, TenantKey(RecipientOf(call[w], s))),
         call'[w] = Enriched(call[w], s, secret)
  PROVE  LET given == (CHOOSE q \in call'[w].subs[call[w].route] : q.id = s).secret IN
         (IF given.owner = TenantKey(RecipientOf(call[w], s)) THEN given.version ELSE 0)
           = secret.version
<1> DEFINE c == call[w]
           r == RecipientOf(c, s)
           given == (CHOOSE q \in call'[w].subs[c.route] : q.id = s).secret
<1>1. c \in Call /\ CallOK(c) /\ OneToARow(c)
  BY DEF RoutingInv, RoutingTypeOK, FreshInv
<1>2. given = (IF secret = None THEN r.secret ELSE secret) /\ r.secret.version = 0
  BY <1>1, LookupGives
<1> QED BY <1>2, SecretTypes DEF MadeFor

\* A secret that was replaced is given out for CacheTtl at most, whatever the traffic
\* (ConfigurationTenantSecretRetriever: an absolute expiration, and no time between
\* Resolve and the entry), and however the factories of the cache interleave.
THEOREM ReplacedSecretsExpire == Spec => OldSecretsExpire
<1> DEFINE Expiring ==
      \A w \in Invocation, s \in Subscription :
       /\ call[w].phase \in {"enrich", "resolved"} /\ s \in call[w].left
       /\ s \notin call'[w].left
       => LET r == RecipientOf(call[w], s)
              given == (CHOOSE q \in call'[w].subs[call[w].route] : q.id = s).secret
              v == IF given.owner = TenantKey(r) THEN given.version ELSE 0 IN
          now - replaced[TenantKey(r)][v] <= CacheTtl
<1>1. RoutingInv /\ FreshInv /\ [Next]_vars => [Expiring]_vars
  <2> SUFFICES ASSUME RoutingInv, FreshInv, Next, NEW w \in Invocation, NEW s \in Subscription,
                      call[w].phase \in {"enrich", "resolved"}, s \in call[w].left,
                      s \notin call'[w].left
               PROVE  LET r == RecipientOf(call[w], s)
                          given == (CHOOSE q \in call'[w].subs[call[w].route] : q.id = s).secret
                          v == IF given.owner = TenantKey(r) THEN given.version ELSE 0 IN
                      now - replaced[TenantKey(r)][v] <= CacheTtl
    OBVIOUS
  <2> DEFINE c == call[w]
             k == TenantKey(RecipientOf(c, s))
  <2>1. c \in Call /\ CallOK(c) /\ k \in Key /\ JustResolved(c) /\ KeyFresh(k)
    <3>1. c \in Call /\ CallOK(c)
      BY DEF RoutingInv, RoutingTypeOK
    <3> QED BY <3>1, KeyOfRow DEF FreshInv
  <2>2. \A n : SetCall(w, n) => call'[w] = n
    BY DEF SetCall, RoutingInv, RoutingTypeOK
  <2>3. PICK secret \in Secret \cup {None} :
          /\ call'[w] = Enriched(c, s, secret) /\ MadeFor(secret, k)
          /\ now - replaced[k][secret.version] <= CacheTtl
    <3>1. CASE CachedSecret(w, s)
      <4>1. cache[k].live /\ call'[w] = Enriched(c, s, cache[k].secret)
        BY <2>2, <3>1 DEF CachedSecret
      <4>2. cache[k].secret \in Secret \cup {None} /\ MadeFor(cache[k].secret, k)
        BY <2>1, <4>1 DEF RoutingInv, RoutingTypeOK, SecretsOK, Entry
      <4>3. now - replaced[k][cache[k].secret.version] <= cache[k].age
        BY <2>1, <4>1 DEF KeyFresh
      <4>4. now - replaced[k][cache[k].secret.version] <= CacheTtl
        BY <2>1, <4>3, VersionTypes
      <4> QED BY <4>1, <4>2, <4>4
    <3>2. CASE StoreSecret(w) /\ s = c.row
      <4>1. c.phase = "resolved" /\ call'[w] = Enriched(c, s, c.secret)
        BY <2>2, <3>2 DEF StoreSecret
      <4>2. c.secret \in Secret \cup {None} /\ MadeFor(c.secret, k)
        BY <2>1, <3>2, <4>1 DEF CallOK, Call
      <4>3. now <= replaced[k][c.secret.version]
        BY <2>1, <3>2, <4>1 DEF JustResolved
      <4>4. now - replaced[k][c.secret.version] <= CacheTtl
        BY <2>1, <4>3, VersionTypes
      <4> QED BY <4>1, <4>2, <4>4
    <3> QED BY <3>1, <3>2, LookupEnds
  <2> QED BY <2>3, GivenVersion
<1> QED BY <1>1, FreshInvariant, PTL DEF Spec, OldSecretsExpire
=============================================================================
