----------------------- MODULE ToolRouteMirror_proofs -----------------------
(***************************************************************************)
(* A settled route is mirrored, and Ready does not run ahead of the tool   *)
(* filter: the proofs that MirrorInv and FilterInv are inductive.  Every   *)
(* step notes what it changes as an event and keeps what is due, except    *)
(* that Backends and policies have no events: there the lock helps.        *)
(***************************************************************************)
EXTENDS ToolRouteReconciler_proofs

-----------------------------------------------------------------------------
(* What a route depends on.                                                *)

\* Two lists of gateways that agree on those a route is about are alike to it.
LEMMA SameGateways ==
  ASSUME NEW a \in [Gateways -> ClassNames \cup {None}],
         NEW b \in [Gateways -> ClassNames \cup {None}],
         NEW rts, NEW r \in Routes, rts[r] # None,
         \A g \in Gateways : r \in findToolRoutesForToolGateway(rts, g) => a[g] = b[g]
  PROVE  /\ resolveToolGatewayKey(a, rts[r].spec.gw, r.ns)
              = resolveToolGatewayKey(b, rts[r].spec.gw, r.ns)
         /\ \A g \in resolveToolGatewayKey(a, rts[r].spec.gw, r.ns) : Get(a, g) = Get(b, g)
<1>1. CASE rts[r].spec.gw = None
  <2>1. \A g \in Gateways : g.ns = defaultToolGatewayNamespace => a[g] = b[g]
    BY <1>1 DEF findToolRoutesForToolGateway
  <2>. QED
    BY <1>1, <2>1 DEF resolveToolGatewayKey, Get
<1>2. CASE rts[r].spec.gw # None
  <2>1. PICK k : k = RefKey(rts[r].spec.gw, r.ns)
    OBVIOUS
  <2>2. resolveToolGatewayKey(a, rts[r].spec.gw, r.ns) = {k}
    BY <1>2, <2>1 DEF resolveToolGatewayKey
  <2>3. resolveToolGatewayKey(b, rts[r].spec.gw, r.ns) = {k}
    BY <1>2, <2>1 DEF resolveToolGatewayKey
  <2>4. k \in Gateways => r \in findToolRoutesForToolGateway(rts, k)
    BY <1>2, <2>1 DEF findToolRoutesForToolGateway
  <2>5. Get(a, k) = Get(b, k)
    BY <2>4 DEF Get
  <2>. QED
    BY <2>2, <2>3, <2>5
<1>. QED
  BY <1>1, <1>2

\* The same for the ToolServer behind a route.
LEMMA SameServers ==
  ASSUME NEW a \in [Servers -> ServerSpecs \cup {None}],
         NEW b \in [Servers -> ServerSpecs \cup {None}],
         NEW rts, NEW r \in Routes, rts[r] # None,
         \A s \in Servers : r \in findToolRoutesForToolServer(rts, s) => a[s] = b[s]
  PROVE  resolveRouteUpstream(a, rts[r].spec.upstream, r.ns)
           = resolveRouteUpstream(b, rts[r].spec.upstream, r.ns)
<1>1. CASE rts[r].spec.upstream.toolServerRef = None
  BY <1>1 DEF resolveRouteUpstream
<1>2. CASE rts[r].spec.upstream.toolServerRef # None
  <2>1. PICK k : k = RefKey(rts[r].spec.upstream.toolServerRef, r.ns)
    OBVIOUS
  <2>2. k \in Servers => r \in findToolRoutesForToolServer(rts, k)
    BY <1>2, <2>1 DEF findToolRoutesForToolServer
  <2>3. Get(a, k) = Get(b, k)
    BY <2>2 DEF Get
  <2>4. toolServerUpstream(a, k) = toolServerUpstream(b, k)
    BY <2>3 DEF toolServerUpstream
  <2>. QED
    BY <1>2, <2>1, <2>4 DEF resolveRouteUpstream
<1>. QED
  BY <1>1, <1>2

\* Whom an event concerns depends on that route only.
LEMMA SameConcern ==
  ASSUME NEW a, NEW b, NEW r \in Routes, a[r] = b[r]
  PROVE  /\ \A g : r \in findToolRoutesForToolGateway(a, g)
                     <=> r \in findToolRoutesForToolGateway(b, g)
         /\ \A s : r \in findToolRoutesForToolServer(a, s)
                     <=> r \in findToolRoutesForToolServer(b, s)
BY DEF findToolRoutesForToolGateway, findToolRoutesForToolServer

-----------------------------------------------------------------------------
(* Whatever is watched and changes is due, and what is due stays due.      *)

\* Every change is an event for the routes it concerns.
Noted ==
  /\ \A r \in Routes : routes'[r] = routes[r] \/ r \in wRoutes'
  /\ \A g \in Gateways : gateways'[g] = gateways[g] \/ g \in wGateways'
  /\ \A s \in Servers : servers'[s] = servers[s] \/ s \in wServers'
  /\ \A n \in ChildKeys, r \in Routes :
       (httproutes[n] # None /\ httproutes[n].owner.key = r /\ httproutes'[n] # httproutes[n])
         => HTTPRouteEvent(n, r)'

\* An event is handled by queueing the routes it concerns.
Kept ==
  /\ \A r \in Routes : r \in wRoutes \cup queue => r \in wRoutes' \cup queue'
  /\ \A n \in ChildKeys, r \in Routes :
       HTTPRouteEvent(n, r) => HTTPRouteEvent(n, r)' \/ r \in wRoutes' \cup queue'
  /\ \A g \in wGateways, r \in Routes :
       r \in findToolRoutesForToolGateway(routes, g) => g \in wGateways' \/ r \in wRoutes' \cup queue'
  /\ \A s \in wServers, r \in Routes :
       r \in findToolRoutesForToolServer(routes, s) => s \in wServers' \/ r \in wRoutes' \cup queue'

\* Under the Backend of an existing route other than x nothing changes.
LockKept(x) ==
  \A n \in ChildKeys :
    (backends[n] # None /\ Live(backends[n].owner) /\ backends[n].owner.key # x) =>
      /\ backends'[n] = backends[n]
      /\ (policies[n] = None \/ policies[n].owner = backends[n].owner)
           => policies'[n] = policies[n]

\* What is due stays due.
LEMMA DueKept ==
  ASSUME Noted, Kept, NEW r \in Routes, Due(r)
  PROVE  Due(r)'
<1>1. CASE r \in wRoutes \cup queue
  BY <1>1 DEF Kept, Due
<1>2. ASSUME NEW n \in ChildKeys, HTTPRouteEvent(n, r) PROVE Due(r)'
  <2>1. HTTPRouteEvent(n, r)' \/ r \in wRoutes' \cup queue'
    BY <1>2 DEF Kept
  <2>. HIDE DEF HTTPRouteEvent
  <2>. QED
    BY <2>1 DEF Due
<1>3. ASSUME routes'[r] # routes[r] PROVE Due(r)'
  BY <1>3 DEF Noted, Due
<1>4. ASSUME routes'[r] = routes[r], NEW g \in wGateways,
             r \in findToolRoutesForToolGateway(routes, g)
      PROVE  Due(r)'
  <2>1. g \in wGateways' \/ r \in wRoutes' \cup queue'
    BY <1>4 DEF Kept
  <2>2. r \in findToolRoutesForToolGateway(routes', g)
    BY <1>4, SameConcern
  <2>. QED
    BY <2>1, <2>2 DEF Due
<1>5. ASSUME routes'[r] = routes[r], NEW s \in wServers,
             r \in findToolRoutesForToolServer(routes, s)
      PROVE  Due(r)'
  <2>1. s \in wServers' \/ r \in wRoutes' \cup queue'
    BY <1>5 DEF Kept
  <2>2. r \in findToolRoutesForToolServer(routes', s)
    BY <1>5, SameConcern
  <2>. QED
    BY <2>1, <2>2 DEF Due
<1>. HIDE DEF HTTPRouteEvent
<1>. QED
  BY <1>1, <1>2, <1>3, <1>4, <1>5 DEF Due

\* What a route for which nothing is due depends on is as it was.
LEMMA InputsKept ==
  ASSUME TypeOK, TypeOK', Noted, NEW r \in Routes, routes[r] # None, ~Due(r)'
  PROVE  /\ routes'[r] = routes[r]
         /\ OutcomeKeys(r)' = OutcomeKeys(r) /\ Target(r)' = Target(r)
         /\ \A g \in OutcomeKeys(r) : Get(gateways', g) = Get(gateways, g)
<1>1. routes'[r] = routes[r]
  BY DEF Noted, Due
<1>2. \A g \in Gateways : r \in findToolRoutesForToolGateway(routes', g) => gateways[g] = gateways'[g]
  BY DEF Noted, Due
<1>3. \A s \in Servers : r \in findToolRoutesForToolServer(routes', s) => servers[s] = servers'[s]
  BY DEF Noted, Due
<1>4. /\ gateways \in [Gateways -> ClassNames \cup {None}]
      /\ gateways' \in [Gateways -> ClassNames \cup {None}]
      /\ servers \in [Servers -> ServerSpecs \cup {None}]
      /\ servers' \in [Servers -> ServerSpecs \cup {None}]
  BY DEF TypeOK, ClusterTypeOK
<1>5. /\ resolveToolGatewayKey(gateways, routes'[r].spec.gw, r.ns)
           = resolveToolGatewayKey(gateways', routes'[r].spec.gw, r.ns)
      /\ \A g \in resolveToolGatewayKey(gateways, routes'[r].spec.gw, r.ns) :
           Get(gateways, g) = Get(gateways', g)
  BY <1>1, <1>2, <1>4, SameGateways
<1>6. resolveRouteUpstream(servers, routes'[r].spec.upstream, r.ns)
        = resolveRouteUpstream(servers', routes'[r].spec.upstream, r.ns)
  BY <1>1, <1>3, <1>4, SameServers
<1>7. Get(gateways, None) = None /\ Get(gateways', None) = None
  BY <1>4, NoneAssumption DEF Get
<1>8. OutcomeKeys(r)' = OutcomeKeys(r)
  BY <1>1, <1>5 DEF OutcomeKeys
<1>9. Target(r)' = Target(r)
  BY <1>1, <1>6 DEF Target
<1>10. \A g \in OutcomeKeys(r) : Get(gateways', g) = Get(gateways, g)
  BY <1>1, <1>5, <1>7 DEF OutcomeKeys
<1>. QED
  BY <1>1, <1>8, <1>9, <1>10

\* The Backend that a route must have is a Backend that its route controls.
LEMMA WantedBackend ==
  ASSUME TypeOK, NEW r \in Routes, routes[r] # None
  PROVE  /\ BackendFor(r, routes[r], Target(r)) # None
         /\ BackendFor(r, routes[r], Target(r)).owner = ControllerRef(r, routes[r])
         /\ Live(ControllerRef(r, routes[r])) /\ ControllerRef(r, routes[r]).key = r
<1>1. routes[r] \in RouteObjects /\ servers \in [Servers -> ServerSpecs \cup {None}]
  BY DEF TypeOK, ClusterTypeOK
<1>2. routes[r].uid \in Nat /\ routes[r].spec \in RouteSpecs
  BY <1>1 DEF RouteObjects
<1>3. Target(r) \in Targets
  BY <1>1, <1>2 DEF Target, Targets
<1>4. ControllerRef(r, routes[r]) \in Owners
  BY <1>2 DEF ControllerRef, Owners
<1>5. BackendFor(r, routes[r], Target(r)) \in Backends
  BY <1>3, <1>4 DEF BackendFor, Backends
<1>6. BackendFor(r, routes[r], Target(r)).owner = ControllerRef(r, routes[r])
  BY DEF BackendFor
<1>7. Live(ControllerRef(r, routes[r])) /\ ControllerRef(r, routes[r]).key = r
  BY DEF Live, ControllerRef
<1>. QED
  BY <1>5, <1>6, <1>7, NoneAssumption

\* A policy that a route must have is the route's own.
LEMMA WantedPolicy ==
  ASSUME NEW r, NEW obj, NEW g, PolicyFor(r, obj, g) # None
  PROVE  PolicyFor(r, obj, g).owner = ControllerRef(r, obj)
BY DEF PolicyFor

\* The children of a route for which nothing is due stay right: the HTTPRoute
\* is watched, the other two are kept by the lock.
LEMMA ChildrenKeptRight ==
  ASSUME TypeOK, TypeOK', Noted, NEW x, LockKept(x),
         NEW r \in Routes, r # x, routes[r] # None, ~Due(r)', NEW g \in Gateways
  PROVE  /\ BackendMirrored(r, g) => BackendMirrored(r, g)'
         /\ HTTPRouteMirrored(r, g) => HTTPRouteMirrored(r, g)'
         /\ BackendMirrored(r, g) /\ PolicyMirrored(r, g) => PolicyMirrored(r, g)'
<1>1. routes'[r] = routes[r] /\ Target(r)' = Target(r)
  BY InputsKept
<1>2. PICK n \in ChildKeys : n = ChildKey(g, r)
  BY DEF ChildKeys
<1>3. ASSUME BackendMirrored(r, g)
      PROVE  /\ backends[n] # None /\ backends[n].owner = ControllerRef(r, routes[r])
             /\ Live(backends[n].owner) /\ backends[n].owner.key # x
  BY <1>2, <1>3, WantedBackend DEF BackendMirrored
<1>4. BackendMirrored(r, g) => BackendMirrored(r, g)'
  <2>. SUFFICES ASSUME BackendMirrored(r, g) PROVE BackendMirrored(r, g)'
    OBVIOUS
  <2>1. backends'[n] = backends[n]
    BY <1>3 DEF LockKept
  <2>. QED
    BY <1>1, <1>2, <2>1 DEF BackendMirrored
<1>5. BackendMirrored(r, g) /\ PolicyMirrored(r, g) => PolicyMirrored(r, g)'
  <2>. SUFFICES ASSUME BackendMirrored(r, g), PolicyMirrored(r, g) PROVE PolicyMirrored(r, g)'
    OBVIOUS
  <2>1. policies[n] = None \/ policies[n].owner = backends[n].owner
    BY <1>2, <1>3, WantedPolicy DEF PolicyMirrored
  <2>2. policies'[n] = policies[n]
    BY <1>3, <2>1 DEF LockKept
  <2>. QED
    BY <1>1, <1>2, <2>2 DEF PolicyMirrored
<1>6. HTTPRouteMirrored(r, g) => HTTPRouteMirrored(r, g)'
  <2>. SUFFICES ASSUME HTTPRouteMirrored(r, g) PROVE HTTPRouteMirrored(r, g)'
    OBVIOUS
  <2>1. httproutes[n].owner.key = r
    BY <1>2 DEF HTTPRouteMirrored, HTTPRouteFor, ControllerRef
  <2>2. ~HTTPRouteEvent(n, r)'
    BY DEF Due
  <2>3. httproutes[n] # None
    <3>1. HTTPRouteFor(r, routes[r], g) \in HTTPRoutes
      <4>1. routes[r].uid \in Nat
        BY DEF TypeOK, ClusterTypeOK, RouteObjects
      <4>. QED
        BY <1>2, <4>1 DEF HTTPRouteFor, HTTPRoutes, ControllerRef, Owners
    <3>. QED
      BY <1>2, <3>1, NoneAssumption DEF HTTPRouteMirrored
  <2>4. httproutes'[n] = httproutes[n]
    BY <2>1, <2>2, <2>3 DEF Noted
  <2>. QED
    BY <1>1, <1>2, <2>4 DEF HTTPRouteMirrored
<1>. QED
  BY <1>4, <1>5, <1>6

\* So a route that is mirrored stays so, or something becomes due.
LEMMA MirroredKept ==
  ASSUME TypeOK, TypeOK', Noted, NEW x, LockKept(x),
         NEW r \in Routes, r # x, routes[r] # None, MirrorsOutcome(r), ~Due(r)'
  PROVE  MirrorsOutcome(r)'
<1>1. /\ routes'[r] = routes[r] /\ OutcomeKeys(r)' = OutcomeKeys(r)
      /\ \A g \in OutcomeKeys(r) : Get(gateways', g) = Get(gateways, g)
  BY InputsKept
<1>2. PICK g \in OutcomeKeys(r) : Mirrored(r, g)
  BY DEF MirrorsOutcome
<1>3. Get(gateways', g) = Get(gateways, g)
  BY <1>1
<1>4. CASE Get(gateways, g) = None
  BY <1>1, <1>2, <1>3, <1>4 DEF Mirrored, MirrorsOutcome
<1>5. CASE Get(gateways, g) # None
  <2>1. g \in Gateways /\ gateways'[g] = gateways[g]
    BY <1>3, <1>5 DEF Get, TypeOK, ClusterTypeOK
  <2>2. ASSUME Owned(gateways'[g])
        PROVE  /\ routes'[r].status = ReadyStatus(routes'[r], g)
               /\ BackendMirrored(r, g)' /\ HTTPRouteMirrored(r, g)' /\ PolicyMirrored(r, g)'
    <3>1. /\ routes[r].status = ReadyStatus(routes[r], g)
          /\ BackendMirrored(r, g) /\ HTTPRouteMirrored(r, g) /\ PolicyMirrored(r, g)
      BY <1>2, <1>5, <2>1, <2>2 DEF Mirrored
    <3>. QED
      BY <1>1, <2>1, <3>1, ChildrenKeptRight
  <2>3. Mirrored(r, g)'
    BY <1>3, <1>5, <2>2 DEF Mirrored
  <2>. QED
    BY <1>1, <2>3 DEF MirrorsOutcome
<1>. QED
  BY <1>4, <1>5

\* The routes that were mirrored or due, given up or in the worker's hands, are
\* so after a step in which the worker keeps its own or leaves it right.
LEMMA MirrorKept ==
  ASSUME TypeOK, TypeOK', Noted, Kept, MirroredOrDue, NEW x, x = job.route, LockKept(x),
         \A r \in Routes : r \in swallowed /\ r # x => r \in swallowed',
         \/ job'.route = x
         \/ (x \in Routes /\ routes'[x] # None) => MirrorsOutcome(x)' \/ Due(x)' \/ x \in swallowed'
  PROVE  MirroredOrDue'
<1>. SUFFICES ASSUME NEW r \in Routes, routes'[r] # None, ~Due(r)', job'.route # r,
                     r \notin swallowed'
              PROVE  MirrorsOutcome(r)'
  BY DEF MirroredOrDue
<1>1. routes'[r] = routes[r] /\ routes[r] # None
  BY DEF Noted, Due
<1>2. ~Due(r)
  BY DueKept
<1>3. CASE x = r
  BY <1>3
<1>4. CASE x # r
  <2>1. MirrorsOutcome(r)
    BY <1>1, <1>2, <1>4 DEF MirroredOrDue
  <2>. QED
    BY <1>1, <1>4, <2>1, MirroredKept
<1>. QED
  BY <1>3, <1>4

\* The worker's job stays right, or something becomes due, while it stands still.
LEMMA JobRightKept ==
  ASSUME TypeOK, TypeOK', Noted, Kept, LockKept(None), UNCHANGED job, JobRightOrDue
  PROVE  JobRightOrDue'
<1>. SUFFICES ASSUME job # Idle, job.pc = "notready" => job.reason = reasonGatewayNotFound,
                     ~Due(job.route)'
              PROVE  JobRight'
  BY DEF JobRightOrDue
<1>1. PICK r, g : r = job.route /\ g = job.gw
  OBVIOUS
<1>2. r \in Routes /\ job.read \in RouteObjects
  BY <1>1 DEF TypeOK, JobTypeOK, Jobs
<1>3. ~Due(r)'
  BY <1>1
<1>4. JobRight
  BY <1>1, <1>2, <1>3, DueKept DEF JobRightOrDue
<1>5. routes[r] = job.read /\ g \in OutcomeKeys(r)
  BY <1>1, <1>4 DEF JobRight
<1>6. routes[r] # None /\ r # None
  BY <1>2, <1>5, NoObjectAssumption, NoneAssumption
<1>7. /\ routes'[r] = routes[r] /\ OutcomeKeys(r)' = OutcomeKeys(r)
      /\ \A h \in OutcomeKeys(r) : Get(gateways', h) = Get(gateways, h)
  BY <1>2, <1>3, <1>6, InputsKept
<1>8. Get(gateways', g) = Get(gateways, g)
  BY <1>5, <1>7
<1>. HIDE DEF OutcomeKeys, BackendMirrored, HTTPRouteMirrored, PolicyMirrored
<1>9. CASE job.pc = "notready"
  BY <1>1, <1>4, <1>5, <1>7, <1>8, <1>9 DEF JobRight
<1>10. CASE job.pc # "notready"
  <2>1. Get(gateways, g) # None /\ Owned(gateways[g])
    BY <1>1, <1>4, <1>10 DEF JobRight
  <2>2. g \in Gateways /\ gateways'[g] = gateways[g]
    BY <1>8, <2>1 DEF Get, TypeOK, ClusterTypeOK
  <2>3. /\ BackendMirrored(r, g) => BackendMirrored(r, g)'
        /\ HTTPRouteMirrored(r, g) => HTTPRouteMirrored(r, g)'
        /\ BackendMirrored(r, g) /\ PolicyMirrored(r, g) => PolicyMirrored(r, g)'
    BY <1>2, <1>3, <1>6, <2>2, ChildrenKeptRight
  <2>4. /\ job.pc # "backend" => BackendMirrored(r, g)
        /\ job.pc \in {"policy", "ready"} => HTTPRouteMirrored(r, g)
        /\ job.pc = "ready" => PolicyMirrored(r, g)
    BY <1>1, <1>4, <1>10 DEF JobRight
  <2>5. /\ job.pc # "backend" => BackendMirrored(r, g)'
        /\ job.pc \in {"policy", "ready"} => HTTPRouteMirrored(r, g)'
        /\ job.pc = "ready" => PolicyMirrored(r, g)'
    BY <2>3, <2>4
  <2>. QED
    BY <1>1, <1>5, <1>7, <1>8, <1>10, <2>1, <2>2, <2>5 DEF JobRight
<1>. QED
  BY <1>9, <1>10

\* A cache that lags behind has its event before it, when no cache moves.
LEMMA SeenKept ==
  ASSUME TypeOK, CachesSeen, Noted, UNCHANGED caches, wRoutes \subseteq wRoutes',
         wGateways \subseteq wGateways', wServers \subseteq wServers',
         wHTTPRoutes \subseteq wHTTPRoutes'
  PROVE  CachesSeen'
<1>1. /\ \A r \in Routes : cRoutes'[r] = routes'[r] \/ r \in wRoutes'
      /\ \A g \in Gateways : cGateways'[g] = gateways'[g] \/ g \in wGateways'
      /\ \A s \in Servers : cServers'[s] = servers'[s] \/ s \in wServers'
  BY DEF CachesSeen, Noted, caches
<1>2. UNCHANGED cHTTPRoutes
  BY DEF caches
<1>3. ASSUME NEW n \in ChildKeys, NEW r, HTTPRouteEvent(n, r) PROVE HTTPRouteEvent(n, r)'
  BY <1>3 DEF HTTPRouteEvent
<1>4. ASSUME NEW n \in ChildKeys, cHTTPRoutes'[n] # httproutes'[n], cHTTPRoutes'[n] # None
      PROVE  HTTPRouteEvent(n, cHTTPRoutes[n].owner.key)'
  <2>1. PICK r : r = cHTTPRoutes[n].owner.key
    OBVIOUS
  <2>2. cHTTPRoutes[n] \in HTTPRoutes
    BY <1>2, <1>4 DEF TypeOK, CacheTypeOK
  <2>3. r \in Routes
    BY <2>1, <2>2 DEF HTTPRoutes, Owners
  <2>4. HTTPRouteEvent(n, r)'
    <3>1. CASE cHTTPRoutes[n] = httproutes[n]
      <4>1. httproutes[n] # None /\ httproutes[n].owner.key = r /\ httproutes'[n] # httproutes[n]
        BY <1>2, <1>4, <2>1, <3>1
      <4>. QED
        BY <2>3, <4>1 DEF Noted
    <3>2. CASE cHTTPRoutes[n] # httproutes[n]
      <4>1. HTTPRouteEvent(n, r)
        BY <1>2, <1>4, <2>1, <3>2 DEF CachesSeen
      <4>. QED
        BY <1>3, <4>1
    <3>. QED
      BY <3>1, <3>2
  <2>. QED
    BY <1>2, <2>1, <2>4
<1>. HIDE DEF HTTPRouteEvent
<1>. QED
  BY <1>1, <1>2, <1>4 DEF CachesSeen

\* A written HTTPRoute is an event for the route that controlled it.
LEMMA HTTPRouteWritten ==
  ASSUME TypeOK, NEW m \in ChildKeys, NEW obj, HTTPRouteChanged(m, obj)
  PROVE  /\ httproutes'[m] = obj /\ wHTTPRoutes \subseteq wHTTPRoutes'
         /\ \A n \in ChildKeys, r \in Routes :
              (httproutes[n] # None /\ httproutes[n].owner.key = r
                 /\ httproutes'[n] # httproutes[n]) => HTTPRouteEvent(n, r)'
<1>1. httproutes'[m] = obj /\ \A n \in ChildKeys \ {m} : httproutes'[n] = httproutes[n]
  BY DEF HTTPRouteChanged, TypeOK, ClusterTypeOK
<1>2. wHTTPRoutes \subseteq wHTTPRoutes'
  BY DEF HTTPRouteChanged
<1>3. ASSUME NEW r \in Routes, httproutes[m] # None, httproutes[m].owner.key = r,
             obj # httproutes[m]
      PROVE  HTTPRouteEvent(m, r)'
  <2>1. <<m, httproutes[m].owner.key>> \in ownersOf(m, httproutes[m], obj)
    BY <1>3 DEF ownersOf
  <2>2. <<m, r>> \in wHTTPRoutes'
    BY <1>3, <2>1, Zenon DEF HTTPRouteChanged
  <2>. QED
    BY <2>2 DEF HTTPRouteEvent
<1>. HIDE DEF HTTPRouteEvent
<1>. QED
  BY <1>1, <1>2, <1>3

\* A step that only adds events keeps them.
LEMMA EventsAdded ==
  ASSUME wRoutes \subseteq wRoutes', wGateways \subseteq wGateways', wServers \subseteq wServers',
         wHTTPRoutes \subseteq wHTTPRoutes', queue \subseteq queue'
  PROVE  Kept
BY DEF Kept, HTTPRouteEvent

\* A step that writes neither Backends nor policies.
LEMMA LockUntouched == ASSUME UNCHANGED <<backends, policies>>, NEW x PROVE LockKept(x)
BY DEF LockKept

\* What the worker and the worker alone may do to a route's status and job.
Aside == UNCHANGED <<job, swallowed>>

\* The users.
LEMMA UsersNoted ==
  ASSUME TypeOK, CachesSeen, Users
  PROVE  Noted /\ Kept /\ LockKept(None) /\ CachesSeen' /\ Aside
<1>0. UNCHANGED <<backends, policies, caches, queue, job, swallowed>>
  BY DEF Users, CreateRoute, EditRoute, DeleteRoute, SetGateway, SetServer, TamperHTTPRoute
<1>1. LockKept(None) /\ Aside
  BY <1>0, LockUntouched DEF Aside
<1>2. ASSUME NEW r \in Routes, CreateRoute(r) \/ EditRoute(r) \/ DeleteRoute(r)
      PROVE  Noted /\ Kept /\ CachesSeen'
  <2>1. PICK obj : RouteChanged(r, obj)
    BY <1>2 DEF CreateRoute, EditRoute, DeleteRoute
  <2>2. (\A q \in Routes : routes'[q] = routes[q] \/ q \in wRoutes') /\ wRoutes \subseteq wRoutes'
    BY <2>1 DEF RouteChanged, TypeOK, ClusterTypeOK
  <2>3. UNCHANGED <<gateways, servers, httproutes, wGateways, wServers, wHTTPRoutes>>
    BY <1>2 DEF CreateRoute, EditRoute, DeleteRoute
  <2>4. Noted
    BY <2>2, <2>3 DEF Noted
  <2>5. Kept
    BY <1>0, <2>2, <2>3, EventsAdded
  <2>. QED
    BY <1>0, <2>2, <2>3, <2>4, <2>5, SeenKept
<1>3. ASSUME NEW g \in Gateways, SetGateway(g) PROVE Noted /\ Kept /\ CachesSeen'
  <2>1. /\ \A h \in Gateways : gateways'[h] = gateways[h] \/ h \in wGateways'
        /\ wGateways \subseteq wGateways'
        /\ UNCHANGED <<routes, servers, httproutes, wRoutes, wServers, wHTTPRoutes>>
    BY <1>3 DEF SetGateway, TypeOK, ClusterTypeOK
  <2>2. Noted
    BY <2>1 DEF Noted
  <2>3. Kept
    BY <1>0, <2>1, EventsAdded
  <2>. QED
    BY <1>0, <2>1, <2>2, <2>3, SeenKept
<1>4. ASSUME NEW s \in Servers, SetServer(s) PROVE Noted /\ Kept /\ CachesSeen'
  <2>1. /\ \A h \in Servers : servers'[h] = servers[h] \/ h \in wServers'
        /\ wServers \subseteq wServers'
        /\ UNCHANGED <<routes, gateways, httproutes, wRoutes, wGateways, wHTTPRoutes>>
    BY <1>4 DEF SetServer, TypeOK, ClusterTypeOK
  <2>2. Noted
    BY <2>1 DEF Noted
  <2>3. Kept
    BY <1>0, <2>1, EventsAdded
  <2>. QED
    BY <1>0, <2>1, <2>2, <2>3, SeenKept
<1>5. ASSUME NEW n \in ChildKeys, TamperHTTPRoute(n) PROVE Noted /\ Kept /\ CachesSeen'
  <2>1. (\E obj : HTTPRouteChanged(n, obj))
        /\ UNCHANGED <<routes, gateways, servers, wRoutes, wGateways, wServers>>
    BY <1>5, Zenon DEF TamperHTTPRoute
  <2>2. Noted /\ wHTTPRoutes \subseteq wHTTPRoutes'
    BY <2>1, HTTPRouteWritten DEF Noted
  <2>3. Kept
    BY <1>0, <2>1, <2>2, EventsAdded
  <2>. QED
    BY <1>0, <2>1, <2>2, <2>3, SeenKept
<1>. QED
  BY <1>1, <1>2, <1>3, <1>4, <1>5 DEF Users

\* The garbage collector takes nothing from an existing route.
LEMMA GarbageCollectorNoted ==
  ASSUME TypeOK, CachesSeen, GarbageCollector
  PROVE  Noted /\ Kept /\ LockKept(None) /\ CachesSeen' /\ Aside
<1>0. UNCHANGED <<routes, gateways, servers, caches, wRoutes, wGateways, wServers, queue,
                  job, swallowed>>
  BY DEF GarbageCollector, CollectBackend, CollectHTTPRoute, CollectPolicy, watches
<1>1. PICK n \in ChildKeys : CollectBackend(n) \/ CollectHTTPRoute(n) \/ CollectPolicy(n)
  BY DEF GarbageCollector
<1>2. CASE CollectHTTPRoute(n)
  <2>1. HTTPRouteChanged(n, None) /\ UNCHANGED <<backends, policies>>
    BY <1>2 DEF CollectHTTPRoute
  <2>2. Noted /\ wHTTPRoutes \subseteq wHTTPRoutes'
    BY <1>0, <2>1, HTTPRouteWritten DEF Noted
  <2>3. Kept
    BY <1>0, <2>2, EventsAdded
  <2>. QED
    BY <1>0, <2>1, <2>2, <2>3, SeenKept, LockUntouched DEF Aside
<1>3. CASE CollectBackend(n) \/ CollectPolicy(n)
  <2>1. UNCHANGED <<httproutes, wHTTPRoutes>>
    BY <1>3 DEF CollectBackend, CollectPolicy, watches
  <2>2. Noted
    BY <1>0, <2>1 DEF Noted
  <2>3. Kept
    BY <1>0, <2>1, EventsAdded
  <2>4. LockKept(None)
    <3>1. CASE CollectBackend(n)
      <4>1. /\ \A m \in ChildKeys : backends'[m] = backends[m] \/ ~Live(backends[m].owner)
            /\ UNCHANGED policies
        BY <3>1 DEF CollectBackend, Garbage, TypeOK, ClusterTypeOK
      <4>. QED
        BY <4>1 DEF LockKept
    <3>2. CASE CollectPolicy(n)
      <4>1. /\ \A m \in ChildKeys : \/ policies'[m] = policies[m]
                                    \/ policies[m] # None /\ ~Live(policies[m].owner)
            /\ UNCHANGED backends
        BY <3>2 DEF CollectPolicy, Garbage, TypeOK, ClusterTypeOK
      <4>. QED
        BY <4>1 DEF LockKept
    <3>. QED
      BY <1>3, <3>1, <3>2
  <2>. QED
    BY <1>0, <2>1, <2>2, <2>3, <2>4, SeenKept DEF Aside
<1>. QED
  BY <1>1, <1>2, <1>3

\* The informers: a cache catches up, or an event is handled.
LEMMA InformersNoted ==
  ASSUME TypeOK, TypeOK', CachesSeen, Informers
  PROVE  Noted /\ Kept /\ LockKept(None) /\ CachesSeen' /\ Aside
<1>0. UNCHANGED <<routes, gateways, servers, backends, httproutes, policies, job, swallowed>>
  BY DEF Informers, SyncRoute, SyncGateway, SyncServer, SyncHTTPRoute, HandleRoute,
         HandleGateway, HandleServer, HandleHTTPRoute, cluster
<1>1. Noted /\ LockKept(None) /\ Aside
  BY <1>0, LockUntouched DEF Noted, Aside
<1>2. ASSUME NEW r \in Routes, SyncRoute(r) PROVE Kept /\ CachesSeen'
  <2>1. UNCHANGED <<watches, queue, cGateways, cServers, cHTTPRoutes>>
        /\ \A q \in Routes : cRoutes'[q] = cRoutes[q] \/ cRoutes'[q] = routes[q]
    BY <1>2 DEF SyncRoute, TypeOK, CacheTypeOK
  <2>. QED
    BY <1>0, <2>1, EventsAdded DEF watches, CachesSeen, HTTPRouteEvent
<1>3. ASSUME NEW g \in Gateways, SyncGateway(g) PROVE Kept /\ CachesSeen'
  <2>1. UNCHANGED <<watches, queue, cRoutes, cServers, cHTTPRoutes>>
        /\ \A q \in Gateways : cGateways'[q] = cGateways[q] \/ cGateways'[q] = gateways[q]
    BY <1>3 DEF SyncGateway, TypeOK, CacheTypeOK
  <2>. QED
    BY <1>0, <2>1, EventsAdded DEF watches, CachesSeen, HTTPRouteEvent
<1>4. ASSUME NEW s \in Servers, SyncServer(s) PROVE Kept /\ CachesSeen'
  <2>1. UNCHANGED <<watches, queue, cRoutes, cGateways, cHTTPRoutes>>
        /\ \A q \in Servers : cServers'[q] = cServers[q] \/ cServers'[q] = servers[q]
    BY <1>4 DEF SyncServer, TypeOK, CacheTypeOK
  <2>. QED
    BY <1>0, <2>1, EventsAdded DEF watches, CachesSeen, HTTPRouteEvent
<1>5. ASSUME NEW n \in ChildKeys, SyncHTTPRoute(n) PROVE Kept /\ CachesSeen'
  <2>1. UNCHANGED <<watches, queue, cRoutes, cGateways, cServers>>
        /\ \A m \in ChildKeys : cHTTPRoutes'[m] = cHTTPRoutes[m] \/ cHTTPRoutes'[m] = httproutes[m]
    BY <1>5 DEF SyncHTTPRoute, TypeOK, CacheTypeOK
  <2>2. UNCHANGED <<wRoutes, wGateways, wServers, wHTTPRoutes, queue>>
    BY <2>1 DEF watches
  <2>3. Kept
    BY <2>2, EventsAdded
  <2>4. CachesSeen'
    BY <1>0, <2>1, <2>2 DEF CachesSeen, HTTPRouteEvent
  <2>. QED
    BY <2>3, <2>4
<1>6. ASSUME NEW r \in Routes, HandleRoute(r) PROVE Kept /\ CachesSeen'
  <2>1. /\ cRoutes[r] = routes[r] /\ wRoutes' = wRoutes \ {r} /\ queue' = queue \cup {r}
        /\ UNCHANGED <<caches, wGateways, wServers, wHTTPRoutes>>
    BY <1>6 DEF HandleRoute
  <2>2. Kept
    BY <2>1 DEF Kept, HTTPRouteEvent
  <2>3. CachesSeen'
    BY <1>0, <2>1 DEF CachesSeen, caches, HTTPRouteEvent
  <2>. QED
    BY <2>2, <2>3
<1>7. ASSUME NEW g \in Gateways, HandleGateway(g) PROVE Kept /\ CachesSeen'
  <2>1. /\ cGateways[g] = gateways[g] /\ wGateways' = wGateways \ {g}
        /\ queue' = queue \cup findToolRoutesForToolGateway(cRoutes, g)
        /\ UNCHANGED <<caches, wRoutes, wServers, wHTTPRoutes>>
    BY <1>7 DEF HandleGateway
  <2>2. ASSUME NEW r \in Routes, r \in findToolRoutesForToolGateway(routes, g)
        PROVE  r \in wRoutes' \cup queue'
    BY <2>1, <2>2, SameConcern DEF CachesSeen
  <2>3. Kept
    BY <2>1, <2>2 DEF Kept, HTTPRouteEvent
  <2>4. CachesSeen'
    BY <1>0, <2>1 DEF CachesSeen, caches, HTTPRouteEvent
  <2>. QED
    BY <2>3, <2>4
<1>8. ASSUME NEW s \in Servers, HandleServer(s) PROVE Kept /\ CachesSeen'
  <2>1. /\ cServers[s] = servers[s] /\ wServers' = wServers \ {s}
        /\ queue' = queue \cup findToolRoutesForToolServer(cRoutes, s)
        /\ UNCHANGED <<caches, wRoutes, wGateways, wHTTPRoutes>>
    BY <1>8 DEF HandleServer
  <2>2. ASSUME NEW r \in Routes, r \in findToolRoutesForToolServer(routes, s)
        PROVE  r \in wRoutes' \cup queue'
    BY <2>1, <2>2, SameConcern DEF CachesSeen
  <2>3. Kept
    BY <2>1, <2>2 DEF Kept, HTTPRouteEvent
  <2>4. CachesSeen'
    BY <1>0, <2>1 DEF CachesSeen, caches, HTTPRouteEvent
  <2>. QED
    BY <2>3, <2>4
<1>9. ASSUME NEW n \in ChildKeys, HandleHTTPRoute(n) PROVE Kept /\ CachesSeen'
  <2>1. /\ cHTTPRoutes[n] = httproutes[n]
        /\ queue' = queue \cup {r \in Routes : HTTPRouteEvent(n, r)}
        /\ wHTTPRoutes' = wHTTPRoutes \ {<<n, r>> : r \in {q \in Routes : HTTPRouteEvent(n, q)}}
        /\ UNCHANGED <<caches, wRoutes, wGateways, wServers>>
    BY <1>9 DEF HandleHTTPRoute, HTTPRouteEvent
  <2>2. ASSUME NEW m, NEW r, HTTPRouteEvent(m, r), m # n PROVE HTTPRouteEvent(m, r)'
    BY <2>1, <2>2 DEF HTTPRouteEvent
  <2>. HIDE DEF HTTPRouteEvent
  <2>3. UNCHANGED <<cRoutes, cGateways, cServers, cHTTPRoutes>>
    BY <2>1 DEF caches
  <2>4. Kept
    BY <2>1, <2>2 DEF Kept
  <2>5. ASSUME NEW m \in ChildKeys, cHTTPRoutes'[m] # httproutes'[m], cHTTPRoutes'[m] # None
        PROVE  HTTPRouteEvent(m, cHTTPRoutes[m].owner.key)'
    <3>1. PICK r : r = cHTTPRoutes[m].owner.key
      OBVIOUS
    <3>2. m # n /\ HTTPRouteEvent(m, r)
      BY <1>0, <2>1, <2>3, <2>5, <3>1 DEF CachesSeen
    <3>3. HTTPRouteEvent(m, r)'
      BY <2>2, <3>2
    <3>. QED
      BY <2>3, <3>1, <3>3
  <2>6. CachesSeen'
    BY <1>0, <2>1, <2>3, <2>5 DEF CachesSeen
  <2>. QED
    BY <2>4, <2>6
<1>. QED
  BY <1>1, <1>2, <1>3, <1>4, <1>5, <1>6, <1>7, <1>8, <1>9 DEF Informers

-----------------------------------------------------------------------------
(* The worker.                                                             *)

\* What the caches have of a route without events is right.
LEMMA CopiesRight ==
  ASSUME TypeOK, CachesSeen, NEW r \in Routes, routes[r] # None,
         \A g \in wGateways : r \notin findToolRoutesForToolGateway(routes, g),
         \A s \in wServers : r \notin findToolRoutesForToolServer(routes, s)
  PROVE  /\ resolveToolGatewayKey(cGateways, routes[r].spec.gw, r.ns)
              = resolveToolGatewayKey(gateways, routes[r].spec.gw, r.ns)
         /\ \A g \in resolveToolGatewayKey(cGateways, routes[r].spec.gw, r.ns) :
              Get(cGateways, g) = Get(gateways, g)
         /\ resolveRouteUpstream(cServers, routes[r].spec.upstream, r.ns) = Target(r)
<1>1. \A g \in Gateways : r \in findToolRoutesForToolGateway(routes, g) => cGateways[g] = gateways[g]
  BY DEF CachesSeen
<1>2. \A s \in Servers : r \in findToolRoutesForToolServer(routes, s) => cServers[s] = servers[s]
  BY DEF CachesSeen
<1>3. /\ gateways \in [Gateways -> ClassNames \cup {None}]
      /\ cGateways \in [Gateways -> ClassNames \cup {None}]
      /\ servers \in [Servers -> ServerSpecs \cup {None}]
      /\ cServers \in [Servers -> ServerSpecs \cup {None}]
  BY DEF TypeOK, ClusterTypeOK, CacheTypeOK
<1>4. resolveRouteUpstream(cServers, routes[r].spec.upstream, r.ns)
        = resolveRouteUpstream(servers, routes[r].spec.upstream, r.ns)
  BY <1>2, <1>3, SameServers
<1>. QED
  BY <1>1, <1>3, <1>4, SameGateways DEF Target

\* Reconcile reads the caches: what they have not seen is due.
LEMMA BeginMirror ==
  ASSUME TypeOK, TypeOK', MirrorInv, NEW k \in Routes, Begin(k)
  PROVE  MirrorInv'
<1>0. CachesSeen /\ MirroredOrDue
  BY DEF MirrorInv
<1>1. /\ job = Idle /\ queue' = queue \ {k} /\ swallowed' = swallowed \ {k}
      /\ UNCHANGED <<cluster, caches, watches>>
  BY DEF Begin, BeginNotFound, BeginGatewayNotFound, BeginNotOwned, BeginOwned, Dequeue
<1>2. /\ UNCHANGED <<routes, gateways, servers, backends, httproutes, policies>>
      /\ UNCHANGED <<cRoutes, cGateways, cServers, cHTTPRoutes>>
      /\ UNCHANGED <<wRoutes, wGateways, wServers, wHTTPRoutes>>
  BY <1>1 DEF cluster, caches, watches
<1>3. CachesSeen'
  BY <1>0, <1>2 DEF CachesSeen, HTTPRouteEvent
<1>4. ASSUME NEW j \in Routes, j # k, routes'[j] # None
      PROVE  MirrorsOutcome(j)' \/ Due(j)' \/ j \in swallowed'
  <2>1. job.route # j
    BY <1>1, NoneAssumption DEF Idle
  <2>2. MirrorsOutcome(j) \/ Due(j) \/ j \in swallowed
    BY <1>0, <1>2, <1>4, <2>1 DEF MirroredOrDue
  <2>3. MirrorsOutcome(j) => MirrorsOutcome(j)'
    BY <1>2 DEF MirrorsOutcome, OutcomeKeys, Mirrored, BackendMirrored, HTTPRouteMirrored,
                PolicyMirrored, Target
  <2>4. Due(j) => Due(j)'
    BY <1>1, <1>2, <1>4 DEF Due, HTTPRouteEvent
  <2>. QED
    BY <1>1, <1>4, <2>2, <2>3, <2>4
<1>. DEFINE keys == resolveToolGatewayKey(gateways, routes[k].spec.gw, k.ns)
<1>5. ASSUME routes[k] # None, ~Due(k)'
      PROVE  /\ cRoutes[k] = routes[k] /\ gatewayKeys(k) = keys
             /\ \A g \in keys : Get(cGateways, g) = Get(gateways, g)
             /\ OutcomeKeys(k)' = IF keys = {} THEN {None} ELSE keys
  <2>1. k \notin wRoutes /\ (\A g \in wGateways : k \notin findToolRoutesForToolGateway(routes, g))
        /\ \A s \in wServers : k \notin findToolRoutesForToolServer(routes, s)
    BY <1>2, <1>5 DEF Due
  <2>2. cRoutes[k] = routes[k]
    BY <1>0, <2>1 DEF CachesSeen
  <2>3. /\ resolveToolGatewayKey(cGateways, routes[k].spec.gw, k.ns) = keys
        /\ \A g \in resolveToolGatewayKey(cGateways, routes[k].spec.gw, k.ns) :
             Get(cGateways, g) = Get(gateways, g)
    BY <1>0, <1>5, <2>1, CopiesRight
  <2>4. OutcomeKeys(k)' = IF keys = {} THEN {None} ELSE keys
    BY <1>2 DEF OutcomeKeys
  <2>. QED
    BY <2>2, <2>3, <2>4 DEF gatewayKeys
<1>6. Get(gateways, None) = None
  BY NoneAssumption DEF Get, TypeOK, ClusterTypeOK
<1>. HIDE DEF keys, OutcomeKeys, Due, MirrorsOutcome
<1>7. CASE BeginNotFound(k)
  <2>1. job' = Idle /\ cRoutes[k] = None
    BY <1>1, <1>7 DEF BeginNotFound
  <2>2. routes'[k] # None => Due(k)'
    BY <1>2, <1>5, <2>1
  <2>3. MirroredOrDue'
    BY <1>4, <2>2 DEF MirroredOrDue
  <2>. QED
    BY <1>3, <2>1, <2>3 DEF MirrorInv, JobRightOrDue
<1>8. CASE BeginNotOwned(k)
  <2>1. job' = Idle /\ cRoutes[k] # None
    BY <1>1, <1>8 DEF BeginNotOwned
  <2>2. PICK g \in gatewayKeys(k) : Get(cGateways, g) # None /\ ~Owned(cGateways[g])
    BY <1>8 DEF BeginNotOwned
  <2>3. ASSUME routes[k] # None, ~Due(k)' PROVE MirrorsOutcome(k)'
    <3>1. g \in keys /\ Get(gateways, g) # None /\ g \in OutcomeKeys(k)'
      BY <1>5, <2>2, <2>3
    <3>2. cGateways[g] = gateways[g]
      <4>1. Get(cGateways, g) = Get(gateways, g) /\ Get(gateways, g) # None
        BY <1>5, <2>3, <3>1
      <4>. QED
        BY <4>1 DEF Get, TypeOK, ClusterTypeOK, CacheTypeOK
    <3>3. Mirrored(k, g)'
      BY <1>2, <2>2, <3>1, <3>2 DEF Mirrored
    <3>. QED
      BY <3>1, <3>3 DEF MirrorsOutcome
  <2>4. MirroredOrDue'
    BY <1>2, <1>4, <2>3 DEF MirroredOrDue
  <2>. QED
    BY <1>3, <2>1, <2>4 DEF MirrorInv, JobRightOrDue
<1>9. CASE BeginGatewayNotFound(k)
  <2>1. PICK g \in gatewayKeys(k) \cup {None} :
          /\ IF g = None THEN gatewayKeys(k) = {} ELSE Get(cGateways, g) = None
          /\ job' = [pc |-> "notready", route |-> k, read |-> cRoutes[k], gw |-> g,
                     reason |-> reasonGatewayNotFound]
    BY <1>9 DEF BeginGatewayNotFound
  <2>2. cRoutes[k] # None /\ job'.route = k /\ job'.read = cRoutes[k] /\ job'.gw = g /\ job'.pc = "notready"
    BY <1>9, <2>1 DEF BeginGatewayNotFound
  <2>3. ASSUME ~Due(k)' PROVE JobRight'
    <3>1. routes[k] # None
      <4>1. CASE cRoutes[k] = routes[k]
        BY <2>2, <4>1
      <4>2. CASE k \in wRoutes
        BY <1>2, <2>3, <4>2 DEF Due
      <4>. QED
        BY <1>0, <4>1, <4>2 DEF CachesSeen
    <3>2. cRoutes[k] = routes[k] /\ g \in OutcomeKeys(k)' /\ Get(gateways, g) = None
      <4>1. CASE g = None
        BY <1>5, <1>6, <2>1, <2>3, <3>1, <4>1
      <4>2. CASE g # None
        BY <1>5, <2>1, <2>3, <3>1, <4>2
      <4>. QED
        BY <4>1, <4>2
    <3>. QED
      BY <1>2, <2>2, <3>2 DEF JobRight
  <2>4. MirroredOrDue'
    BY <1>4, <2>2 DEF MirroredOrDue
  <2>5. JobRightOrDue'
    BY <2>2, <2>3 DEF JobRightOrDue
  <2>. QED
    BY <1>3, <2>4, <2>5 DEF MirrorInv
<1>10. CASE BeginOwned(k)
  <2>1. PICK g \in gatewayKeys(k) :
          /\ Get(cGateways, g) # None /\ Owned(cGateways[g])
          /\ job' = [pc |-> "backend", route |-> k, read |-> cRoutes[k], gw |-> g, reason |-> None]
    BY <1>10 DEF BeginOwned
  <2>2. cRoutes[k] # None /\ job'.route = k /\ job'.read = cRoutes[k] /\ job'.gw = g /\ job'.pc = "backend"
    BY <1>10, <2>1 DEF BeginOwned
  <2>3. ASSUME ~Due(k)' PROVE JobRight'
    <3>1. routes[k] # None
      <4>1. CASE cRoutes[k] = routes[k]
        BY <2>2, <4>1
      <4>2. CASE k \in wRoutes
        BY <1>2, <2>3, <4>2 DEF Due
      <4>. QED
        BY <1>0, <4>1, <4>2 DEF CachesSeen
    <3>2. cRoutes[k] = routes[k] /\ g \in OutcomeKeys(k)' /\ Get(gateways, g) = Get(cGateways, g)
      BY <1>5, <2>1, <2>3, <3>1
    <3>3. gateways[g] = cGateways[g]
      BY <2>1, <3>2 DEF Get, TypeOK, ClusterTypeOK, CacheTypeOK
    <3>. QED
      BY <1>2, <2>1, <2>2, <3>2, <3>3 DEF JobRight
  <2>4. MirroredOrDue'
    BY <1>4, <2>2 DEF MirroredOrDue
  <2>5. JobRightOrDue'
    BY <2>2, <2>3 DEF JobRightOrDue
  <2>. QED
    BY <1>3, <2>4, <2>5 DEF MirrorInv
<1>. QED
  BY <1>7, <1>8, <1>9, <1>10 DEF Begin

\* The worker is in the middle of a Reconcile.
LEMMA AtWork ==
  ASSUME TypeOK, job.pc \in {"backend", "httproute", "policy", "ready", "notready"}
  PROVE  /\ job # Idle /\ job.route \in Routes /\ job.read \in RouteObjects /\ job.route # None
         /\ job.pc # "notready" => job.gw \in Gateways /\ JobKey \in ChildKeys
<1>1. job # Idle
  BY DEF Idle
<1>2. job \in Jobs /\ (job.pc # "notready" => job.gw \in Gateways)
  BY <1>1 DEF TypeOK, JobTypeOK
<1>. QED
  BY <1>1, <1>2, NoneAssumption DEF Jobs, JobKey, ChildKeys

\* A call that failed: the worker goes on to report it.
LEMMA AfterFailure ==
  ASSUME TypeOK, job # Idle, NEW reason, FailWith(reason)
  PROVE  /\ job'.route = job.route /\ job'.read = job.read
         /\ job'.pc = "notready" /\ job'.reason = reason
<1>1. job \in Jobs
  BY DEF TypeOK, JobTypeOK
<1>. QED
  BY <1>1 DEF FailWith, Jobs

\* A call that took effect: the worker goes on at pc, or reports a lost answer.
LEMMA AfterAnswer ==
  ASSUME TypeOK, job # Idle, NEW pc, NEW reason, Answered(pc, reason)
  PROVE  \/ /\ job'.route = job.route /\ job'.read = job.read
            /\ job'.pc = "notready" /\ job'.reason = reason
         \/ /\ job'.route = job.route /\ job'.read = job.read /\ job'.gw = job.gw
            /\ job'.pc = pc
BY AfterFailure, JobKept DEF Answered

\* The worker goes on with its route; if nothing is due its job is right after
\* the step as it was before, or it has an error to return.
LEMMA GoesOn ==
  ASSUME TypeOK, TypeOK', MirrorInv, job # Idle, job.pc # "notready",
         NEW x, x = job.route, job'.route = x, UNCHANGED <<caches, swallowed>>,
         wRoutes \subseteq wRoutes', wGateways \subseteq wGateways', wServers \subseteq wServers',
         wHTTPRoutes \subseteq wHTTPRoutes', Noted, Kept, LockKept(x),
         \/ job'.pc = "notready" /\ job'.reason # reasonGatewayNotFound
         \/ ~Due(x) /\ ~Due(x)' /\ JobRight => JobRight'
  PROVE  MirrorInv'
<1>1. CachesSeen'
  BY SeenKept DEF MirrorInv
<1>2. MirroredOrDue'
  BY MirrorKept DEF MirrorInv
<1>3. JobRightOrDue'
  <2>. SUFFICES ASSUME job'.pc = "notready" => job'.reason = reasonGatewayNotFound, ~Due(x)'
                PROVE  JobRight'
    BY DEF JobRightOrDue
  <2>1. x \in Routes
    BY DEF TypeOK, JobTypeOK, Jobs
  <2>2. ~Due(x)
    BY <2>1, DueKept
  <2>. QED
    BY <2>2 DEF MirrorInv, JobRightOrDue
<1>. QED
  BY <1>1, <1>2, <1>3 DEF MirrorInv

\* What JobRight says of a job that has not failed.
LEMMA RightSoFar ==
  ASSUME TypeOK, JobRight, job.pc \in {"backend", "httproute", "policy", "ready"},
         NEW x, NEW g, x = job.route, g = job.gw
  PROVE  /\ routes[x] = job.read /\ routes[x] # None /\ g \in OutcomeKeys(x)
         /\ Get(gateways, g) # None /\ Owned(gateways[g])
         /\ job.pc # "backend" => BackendMirrored(x, g)
         /\ job.pc \in {"policy", "ready"} => HTTPRouteMirrored(x, g)
         /\ job.pc = "ready" => PolicyMirrored(x, g)
<1>1. job.read # None
  BY AtWork, NoObjectAssumption
<1>. HIDE DEF OutcomeKeys, BackendMirrored, HTTPRouteMirrored, PolicyMirrored
<1>. QED
  BY <1>1 DEF JobRight

\* An upstream that does not resolve: the job fails and is retried.
LEMMA UnresolvedMirror ==
  ASSUME TypeOK, TypeOK', MirrorInv, UpstreamUnresolved
  PROVE  MirrorInv'
<1>1. PICK x : x = job.route
  OBVIOUS
<1>2. /\ job.pc = "backend" /\ FailWith(reasonUpstreamUnresolved)
      /\ UNCHANGED <<cluster, caches, watches, queue, swallowed>>
  BY DEF UpstreamUnresolved
<1>3. job # Idle
  BY <1>2, AtWork
<1>4. job'.route = x /\ job'.pc = "notready" /\ job'.reason # reasonGatewayNotFound
  BY <1>1, <1>2, <1>3, AfterFailure DEF reasonUpstreamUnresolved, reasonGatewayNotFound
<1>5. Noted /\ LockKept(x) /\ UNCHANGED <<wRoutes, wGateways, wServers, wHTTPRoutes>>
  BY <1>2, LockUntouched DEF Noted, cluster, watches
<1>6. Kept
  BY <1>2, <1>5, EventsAdded
<1>. QED
  BY <1>1, <1>2, <1>3, <1>4, <1>5, <1>6, GoesOn

\* The Backend is read live: what is left is what is wanted, and it was free or
\* the route's own.
LEMMA BackendMirror ==
  ASSUME TypeOK, TypeOK', MirrorInv, ensureBackend
  PROVE  MirrorInv'
<1>1. PICK x, g : x = job.route /\ g = job.gw
  OBVIOUS
<1>. DEFINE want == BackendFor(job.route, job.read, jobTarget)
            new == CreateOrPatch(backends[JobKey], backends[JobKey], want)
<1>2. /\ job.pc = "backend" /\ jobTarget # Failed
      /\ UNCHANGED <<routes, gateways, servers, httproutes, policies, caches, watches, queue, swallowed>>
  BY DEF ensureBackend
<1>3. job # Idle /\ x \in Routes /\ JobKey \in ChildKeys
  BY <1>1, <1>2, AtWork
<1>4. Noted /\ UNCHANGED <<wRoutes, wGateways, wServers, wHTTPRoutes>>
  BY <1>2 DEF Noted, watches
<1>5. Kept
  BY <1>2, <1>4, EventsAdded
<1>6. CASE new = Failed
  <2>1. FailWith(reasonBackendFailed) /\ UNCHANGED backends
    BY <1>6 DEF ensureBackend
  <2>2. job'.route = x /\ job'.pc = "notready" /\ job'.reason # reasonGatewayNotFound
    BY <1>1, <1>3, <2>1, AfterFailure DEF reasonBackendFailed, reasonGatewayNotFound
  <2>3. LockKept(x)
    BY <1>2, <2>1, LockUntouched
  <2>. QED
    BY <1>1, <1>2, <1>3, <1>4, <1>5, <2>2, <2>3, GoesOn
<1>7. CASE new # Failed
  <2>1. /\ Answered("httproute", reasonBackendFailed)
        /\ backends' = [backends EXCEPT ![JobKey] = new]
    BY <1>7 DEF ensureBackend
  <2>2. want = [f \in DOMAIN want |-> want[f]] /\ want.owner.key = x
    BY <1>1 DEF BackendFor, ControllerRef
  <2>. HIDE DEF want
  <2>3. new = want /\ (backends[JobKey] # None => backends[JobKey].owner.key = x)
    BY <1>7, <2>2, PatchLive
  <2>. HIDE DEF new
  <2>4. backends'[JobKey] = want /\ \A n \in ChildKeys : n # JobKey => backends'[n] = backends[n]
    BY <1>3, <2>1, <2>3 DEF TypeOK, ClusterTypeOK
  <2>5. LockKept(x)
    BY <1>2, <2>3, <2>4 DEF LockKept
  <2>6. \/ job'.route = x /\ job'.pc = "notready" /\ job'.reason # reasonGatewayNotFound
        \/ /\ job'.route = x /\ job'.read = job.read /\ job'.gw = g /\ job'.pc = "httproute"
    BY <1>1, <1>3, <2>1, AfterAnswer DEF reasonBackendFailed, reasonGatewayNotFound
  <2>7. ASSUME job'.route = x, job'.read = job.read, job'.gw = g, job'.pc = "httproute",
               ~Due(x), JobRight
        PROVE  JobRight'
    <3>1. /\ routes[x] = job.read /\ routes[x] # None /\ g \in OutcomeKeys(x)
          /\ Get(gateways, g) # None /\ Owned(gateways[g])
      BY <1>1, <1>2, <2>7, RightSoFar
    <3>2. jobTarget = Target(x)
      <4>1. resolveRouteUpstream(cServers, routes[x].spec.upstream, x.ns) = Target(x)
        BY <1>3, <2>7, <3>1, CopiesRight DEF MirrorInv, Due
      <4>. QED
        BY <1>1, <3>1, <4>1 DEF jobTarget
    <3>3. Target(x)' = Target(x) /\ OutcomeKeys(x)' = OutcomeKeys(x)
      BY <1>2 DEF Target, OutcomeKeys
    <3>4. JobKey = ChildKey(g, x)
      BY <1>1 DEF JobKey
    <3>5. BackendMirrored(x, g)'
      BY <1>1, <1>2, <2>4, <3>1, <3>2, <3>3, <3>4 DEF BackendMirrored, want
    <3>. HIDE DEF OutcomeKeys, BackendMirrored
    <3>. QED
      BY <1>2, <2>7, <3>1, <3>3, <3>5 DEF JobRight
  <2>. QED
    BY <1>1, <1>2, <1>3, <1>4, <1>5, <2>5, <2>6, <2>7, GoesOn
<1>. QED
  BY <1>6, <1>7

\* The HTTPRoute is read from the cache: a copy that is behind has an event for
\* whoever controlled it, and if that is not this route the patch is refused.
LEMMA HTTPRouteMirror ==
  ASSUME TypeOK, TypeOK', MirrorInv, ensureHTTPRoute
  PROVE  MirrorInv'
<1>1. PICK x, g, n : x = job.route /\ g = job.gw /\ n = JobKey
  OBVIOUS
<1>. DEFINE want == HTTPRouteFor(x, job.read, g)
            new == CreateOrPatch(cHTTPRoutes[n], httproutes[n], want)
<1>2. /\ job.pc = "httproute"
      /\ UNCHANGED <<routes, gateways, servers, backends, policies, caches,
                     wRoutes, wGateways, wServers, queue, swallowed>>
  BY DEF ensureHTTPRoute
<1>3. job # Idle /\ x \in Routes /\ n \in ChildKeys
  BY <1>1, <1>2, AtWork
<1>4. LockKept(x)
  BY <1>2, LockUntouched
<1>5. CASE new = Failed
  <2>1. FailWith(reasonHTTPRouteFailed) /\ UNCHANGED <<httproutes, wHTTPRoutes>>
    BY <1>1, <1>5 DEF ensureHTTPRoute
  <2>2. job'.route = x /\ job'.pc = "notready" /\ job'.reason # reasonGatewayNotFound
    BY <1>1, <1>3, <2>1, AfterFailure DEF reasonHTTPRouteFailed, reasonGatewayNotFound
  <2>3. Noted
    BY <1>2, <2>1 DEF Noted
  <2>4. Kept
    BY <1>2, <2>1, EventsAdded
  <2>. QED
    BY <1>1, <1>2, <1>3, <1>4, <2>1, <2>2, <2>3, <2>4, GoesOn
<1>6. CASE new # Failed
  <2>1. Answered("policy", reasonHTTPRouteFailed) /\ HTTPRouteChanged(n, new)
    BY <1>1, <1>6 DEF ensureHTTPRoute
  <2>2. want = [f \in DOMAIN want |-> want[f]] /\ want.owner.key = x
    BY DEF HTTPRouteFor, ControllerRef
  <2>. HIDE DEF want
  <2>3. cHTTPRoutes[n] = httproutes[n] => new = want
    BY <1>6, <2>2, PatchLive
  <2>4. \/ cHTTPRoutes[n] = httproutes[n]
        \/ cHTTPRoutes[n] # None /\ cHTTPRoutes[n].owner.key = x
    BY <1>6, <2>2, PatchAllowed
  <2>. HIDE DEF new
  <2>5. httproutes'[n] = new /\ wHTTPRoutes \subseteq wHTTPRoutes'
    BY <1>3, <2>1, HTTPRouteWritten
  <2>6. Noted
    BY <1>2, <1>3, <2>1, HTTPRouteWritten DEF Noted
  <2>7. Kept
    BY <1>2, <2>5, EventsAdded
  <2>8. \/ job'.route = x /\ job'.pc = "notready" /\ job'.reason # reasonGatewayNotFound
        \/ /\ job'.route = x /\ job'.read = job.read /\ job'.gw = g /\ job'.pc = "policy"
    BY <1>1, <1>3, <2>1, AfterAnswer DEF reasonHTTPRouteFailed, reasonGatewayNotFound
  <2>9. ASSUME job'.route = x, job'.read = job.read, job'.gw = g, job'.pc = "policy",
               ~Due(x), JobRight
        PROVE  JobRight'
    <3>1. /\ routes[x] = job.read /\ routes[x] # None /\ g \in OutcomeKeys(x)
          /\ Get(gateways, g) # None /\ Owned(gateways[g]) /\ BackendMirrored(x, g)
      BY <1>1, <1>2, <2>9, RightSoFar
    <3>2. cHTTPRoutes[n] = httproutes[n]
      <4>1. ~HTTPRouteEvent(n, x)
        BY <1>3, <2>9 DEF Due
      <4>. HIDE DEF HTTPRouteEvent
      <4>. QED
        BY <1>3, <2>4, <4>1 DEF MirrorInv, CachesSeen
    <3>3. OutcomeKeys(x)' = OutcomeKeys(x) /\ BackendMirrored(x, g)'
      BY <1>2, <3>1 DEF OutcomeKeys, BackendMirrored, Target
    <3>4. n = ChildKey(g, x)
      BY <1>1 DEF JobKey
    <3>5. HTTPRouteMirrored(x, g)'
      BY <1>2, <2>3, <2>5, <3>1, <3>2, <3>4 DEF HTTPRouteMirrored, want
    <3>. HIDE DEF OutcomeKeys, BackendMirrored, HTTPRouteMirrored
    <3>. QED
      BY <1>2, <2>9, <3>1, <3>3, <3>5 DEF JobRight
  <2>. QED
    BY <1>1, <1>2, <1>3, <1>4, <2>5, <2>6, <2>7, <2>8, <2>9, GoesOn
<1>. QED
  BY <1>5, <1>6

\* The policy is written, or deleted by name, under the route's own Backend.
LEMMA PolicyMirror ==
  ASSUME TypeOK, TypeOK', ChildLockInv, MirrorInv, ensurePolicy
  PROVE  MirrorInv'
<1>1. PICK x, g, n : x = job.route /\ g = job.gw /\ n = JobKey
  OBVIOUS
<1>. DEFINE want == PolicyFor(x, job.read, g)
            new == IF want = None THEN None ELSE CreateOrPatch(policies[n], policies[n], want)
<1>2. /\ job.pc = "policy"
      /\ UNCHANGED <<routes, gateways, servers, backends, httproutes, caches,
                     watches, queue, swallowed>>
  BY DEF ensurePolicy
<1>3. job # Idle /\ x \in Routes /\ n \in ChildKeys
  BY <1>1, <1>2, AtWork
<1>4. Noted /\ UNCHANGED <<wRoutes, wGateways, wServers, wHTTPRoutes>>
  BY <1>2 DEF Noted, watches
<1>5. Kept
  BY <1>2, <1>4, EventsAdded
<1>6. CASE new = Failed
  <2>1. FailWith(reasonPolicyFailed) /\ UNCHANGED policies
    BY <1>1, <1>6 DEF ensurePolicy
  <2>2. job'.route = x /\ job'.pc = "notready" /\ job'.reason # reasonGatewayNotFound
    BY <1>1, <1>3, <2>1, AfterFailure DEF reasonPolicyFailed, reasonGatewayNotFound
  <2>3. LockKept(x)
    BY <1>2, <2>1, LockUntouched
  <2>. QED
    BY <1>1, <1>2, <1>3, <1>4, <1>5, <2>2, <2>3, GoesOn
<1>7. CASE new # Failed
  <2>1. Answered("ready", reasonPolicyFailed) /\ policies' = [policies EXCEPT ![n] = new]
    BY <1>1, <1>7 DEF ensurePolicy
  <2>2. want # None => want = [f \in DOMAIN want |-> want[f]]
    BY DEF PolicyFor
  <2>. HIDE DEF want
  <2>3. new = want
    BY <1>7, <2>2, PatchLive
  <2>. HIDE DEF new
  <2>4. policies'[n] = want /\ \A m \in ChildKeys : m # n => policies'[m] = policies[m]
    BY <1>3, <2>1, <2>3 DEF TypeOK, ClusterTypeOK
  <2>5. backends[n] # None => backends[n].owner.key = x
    BY <1>1, <1>2 DEF ChildLockInv, WorkerHoldsLock
  <2>6. LockKept(x)
    BY <1>2, <2>4, <2>5 DEF LockKept
  <2>7. \/ job'.route = x /\ job'.pc = "notready" /\ job'.reason # reasonGatewayNotFound
        \/ /\ job'.route = x /\ job'.read = job.read /\ job'.gw = g /\ job'.pc = "ready"
    BY <1>1, <1>3, <2>1, AfterAnswer DEF reasonPolicyFailed, reasonGatewayNotFound
  <2>8. ASSUME job'.route = x, job'.read = job.read, job'.gw = g, job'.pc = "ready", JobRight
        PROVE  JobRight'
    <3>1. /\ routes[x] = job.read /\ routes[x] # None /\ g \in OutcomeKeys(x)
          /\ Get(gateways, g) # None /\ Owned(gateways[g]) /\ BackendMirrored(x, g)
          /\ HTTPRouteMirrored(x, g)
      BY <1>1, <1>2, <2>8, RightSoFar
    <3>2. OutcomeKeys(x)' = OutcomeKeys(x) /\ BackendMirrored(x, g)' /\ HTTPRouteMirrored(x, g)'
      BY <1>2, <3>1 DEF OutcomeKeys, BackendMirrored, HTTPRouteMirrored, Target
    <3>3. n = ChildKey(g, x)
      BY <1>1 DEF JobKey
    <3>4. PolicyMirrored(x, g)'
      BY <1>2, <2>4, <3>1, <3>3 DEF PolicyMirrored, want
    <3>. HIDE DEF OutcomeKeys, BackendMirrored, HTTPRouteMirrored, PolicyMirrored
    <3>. QED
      BY <1>2, <2>8, <3>1, <3>2, <3>4 DEF JobRight
  <2>. QED
    BY <1>1, <1>2, <1>3, <1>4, <1>5, <2>6, <2>7, <2>8, GoesOn
<1>. QED
  BY <1>6, <1>7

-----------------------------------------------------------------------------
(* The end of Reconcile.                                                   *)

\* The statuses that Reconcile wants are statuses.
LEMMA WantedStatus ==
  ASSUME TypeOK, job # Idle
  PROVE  /\ job.pc = "ready" => ReadyStatus(job.read, job.gw) \in Statuses
         /\ job.pc = "notready" =>
              NotReadyStatus(job.read, job.reason, failureMessage) \in Statuses
<1>1. job \in Jobs
  BY DEF TypeOK, JobTypeOK
<1>2. /\ job.read \in RouteObjects /\ job.gw \in GatewayKeys
      /\ job.pc = "ready" => job.gw \in Gateways
      /\ job.pc = "notready" => job.reason \in Reasons
  BY <1>1 DEF Jobs, TypeOK, JobTypeOK
<1>3. job.read.gen \in Nat /\ job.read.spec \in RouteSpecs /\ job.read.status \in Statuses
  BY <1>2 DEF RouteObjects
<1>4. failureMessage \in Messages /\ job.gw \in Messages
  BY <1>2, <1>3 DEF failureMessage, Messages
<1>. HIDE DEF failureMessage, Messages
<1>5. job.pc = "ready" => ReadyStatus(job.read, job.gw) \in Statuses
  BY <1>2, <1>3, <1>4 DEF ReadyStatus, Statuses, Conditions, Reasons
<1>6. ASSUME job.pc = "notready"
      PROVE  NotReadyStatus(job.read, job.reason, failureMessage) \in Statuses
  <2>1. [status |-> "False", reason |-> job.reason, msg |-> failureMessage, gen |-> job.read.gen]
          \in Conditions
    BY <1>2, <1>3, <1>4, <1>6 DEF Conditions
  <2>. QED
    BY <1>3, <2>1 DEF NotReadyStatus, Statuses
<1>. QED
  BY <1>5, <1>6

\* A status patch changes the status of one route and nothing else; computed
\* from the route as it is, it leaves the wanted status.
LEMMA StatusPatched ==
  ASSUME TypeOK, job # Idle, NEW x, x = job.route, routes[x] # None,
         NEW want \in Statuses, PatchStatus(want)
  PROVE  /\ \A r \in Routes \ {x} : routes'[r] = routes[r]
         /\ routes'[x] \in RouteObjects
         /\ routes'[x].uid = routes[x].uid /\ routes'[x].gen = routes[x].gen
         /\ routes'[x].spec = routes[x].spec
         /\ routes'[x].status = MergePatch(job.read.status, routes[x].status, want)
         /\ job.read = routes[x] => routes'[x].status = want
         /\ routes'[x] = routes[x] \/ x \in wRoutes'
         /\ wRoutes \subseteq wRoutes'
<1>1. x \in Routes /\ routes[x] \in RouteObjects /\ routes \in [Routes -> RouteObjects \cup {None}]
  BY DEF TypeOK, JobTypeOK, Jobs, ClusterTypeOK
<1>. DEFINE st == MergePatch(job.read.status, routes[x].status, want)
<1>2. routes[x].status \in Statuses
  BY <1>1 DEF RouteObjects
<1>3. st \in Statuses
  BY <1>2, MergedStatus
<1>4. routes'[x] = [routes[x] EXCEPT !.status = st] /\ \A r \in Routes \ {x} : routes'[r] = routes[r]
  BY <1>1 DEF PatchStatus, RouteChanged
<1>5. (routes'[x] = routes[x] \/ x \in wRoutes') /\ wRoutes \subseteq wRoutes'
  BY <1>1, <1>4 DEF PatchStatus, RouteChanged
<1>6. job.read = routes[x] => st = want
  BY <1>2 DEF MergePatch, Statuses
<1>. HIDE DEF st
<1>7. /\ routes'[x] \in RouteObjects /\ routes'[x].status = st
      /\ routes'[x].uid = routes[x].uid /\ routes'[x].gen = routes[x].gen
      /\ routes'[x].spec = routes[x].spec
  BY <1>1, <1>3, <1>4 DEF RouteObjects
<1>. QED
  BY <1>4, <1>5, <1>6, <1>7 DEF st

\* Reconcile ends: its route is queued again, given up, gone, or mirrored.
LEMMA EndsMirror ==
  ASSUME TypeOK, TypeOK', MirrorInv, job # Idle, job' = Idle, NEW x, x = job.route,
         UNCHANGED <<caches, gateways, servers, backends, httproutes, policies,
                     wGateways, wServers, wHTTPRoutes>>,
         wRoutes \subseteq wRoutes', queue \subseteq queue', swallowed \subseteq swallowed',
         \A r \in Routes : routes'[r] = routes[r] \/ r \in wRoutes',
         \/ x \in queue' \/ x \in swallowed'
         \/ (routes'[x] # None /\ ~Due(x) /\ ~Due(x)') => MirrorsOutcome(x)'
  PROVE  MirrorInv'
<1>0. Noted
  BY DEF Noted
<1>1. Kept
  BY EventsAdded
<1>2. LockKept(x)
  BY LockUntouched
<1>3. CachesSeen'
  BY <1>0, SeenKept DEF MirrorInv
<1>4. x \in queue' => Due(x)'
  BY DEF Due
<1>5. x \in Routes => (Due(x) => Due(x)')
  BY <1>0, <1>1, DueKept
<1>6. (x \in Routes /\ routes'[x] # None) => MirrorsOutcome(x)' \/ Due(x)' \/ x \in swallowed'
  BY <1>4, <1>5
<1>7. MirroredOrDue'
  BY <1>0, <1>1, <1>2, <1>6, MirrorKept DEF MirrorInv
<1>8. JobRightOrDue'
  BY DEF JobRightOrDue
<1>. QED
  BY <1>3, <1>7, <1>8 DEF MirrorInv

\* The two status patches, and the one that finds the route gone.
LEMMA StatusMirror ==
  ASSUME TypeOK, TypeOK', MirrorInv,
         updateStatusReady \/ updateStatusNotReady \/ updateStatusNotReadyNotFound
  PROVE  MirrorInv'
<1>1. PICK x, g : x = job.route /\ g = job.gw
  OBVIOUS
<1>2. /\ job.pc \in {"ready", "notready"}
      /\ UNCHANGED <<gateways, servers, backends, httproutes, policies, caches, wGateways,
                     wServers, wHTTPRoutes>>
  BY DEF updateStatusReady, updateStatusNotReady, updateStatusNotReadyNotFound, cluster, watches
<1>3. job # Idle /\ x \in Routes
  BY <1>1, <1>2, AtWork
<1>4. job' = Idle /\ queue \subseteq queue' /\ swallowed \subseteq swallowed'
  <2>1. \E err \in BOOLEAN : Return(err)
    BY Zenon DEF updateStatusReady, updateStatusNotReady, updateStatusNotReadyNotFound,
                 NotReadyNotWritten
  <2>2. swallowed \subseteq swallowed'
    BY DEF updateStatusReady, updateStatusNotReady, updateStatusNotReadyNotFound,
           NotReadyNotWritten
  <2>. QED
    BY <2>1, <2>2 DEF Return
<1>5. \/ UNCHANGED <<routes, wRoutes>>
      \/ routes[x] # None /\ \E want \in Statuses : PatchStatus(want)
  <2>1. CASE updateStatusReady
    BY <1>1, <1>3, <2>1, WantedStatus DEF updateStatusReady
  <2>2. CASE updateStatusNotReady
    BY <1>1, <1>3, <2>2, WantedStatus DEF updateStatusNotReady
  <2>3. CASE updateStatusNotReadyNotFound
    BY <2>3 DEF updateStatusNotReadyNotFound, cluster, watches
  <2>. QED
    BY <2>1, <2>2, <2>3
<1>6. (\A r \in Routes : routes'[r] = routes[r] \/ r \in wRoutes') /\ wRoutes \subseteq wRoutes'
  <2>1. ASSUME routes[x] # None, NEW want \in Statuses, PatchStatus(want)
        PROVE  (\A r \in Routes : routes'[r] = routes[r] \/ r \in wRoutes') /\ wRoutes \subseteq wRoutes'
    <3>1. /\ \A r \in Routes \ {x} : routes'[r] = routes[r]
          /\ routes'[x] = routes[x] \/ x \in wRoutes'
          /\ wRoutes \subseteq wRoutes'
      BY <1>1, <1>3, <2>1, StatusPatched
    <3>. QED
      BY <3>1
  <2>. QED
    BY <1>5, <2>1
<1>7. ASSUME \/ x \in queue' \/ x \in swallowed' \/ routes'[x] = None
             \/ (~Due(x) /\ ~Due(x)') => MirrorsOutcome(x)'
      PROVE  MirrorInv'
  BY <1>1, <1>2, <1>3, <1>4, <1>6, <1>7, EndsMirror
<1>8. ASSUME ~Due(x)' PROVE routes'[x] = routes[x]
  BY <1>3, <1>6, <1>8 DEF Due
<1>9. CASE updateStatusReady /\ x \notin queue'
  <2>1. job.pc = "ready" /\ routes[x] # None /\ PatchStatus(ReadyStatus(job.read, g))
    BY <1>1, <1>9 DEF updateStatusReady, Return
  <2>2. ReadyStatus(job.read, g) \in Statuses
    BY <1>1, <1>3, <2>1, WantedStatus
  <2>3. ASSUME ~Due(x), ~Due(x)' PROVE MirrorsOutcome(x)'
    <3>1. JobRight
      BY <1>1, <1>3, <2>1, <2>3 DEF MirrorInv, JobRightOrDue
    <3>2. /\ routes[x] = job.read /\ g \in OutcomeKeys(x)
          /\ Get(gateways, g) # None /\ Owned(gateways[g]) /\ BackendMirrored(x, g)
          /\ HTTPRouteMirrored(x, g) /\ PolicyMirrored(x, g)
      BY <1>1, <2>1, <3>1, RightSoFar
    <3>3. routes'[x] = routes[x]
      BY <1>8, <2>3
    <3>4. routes'[x].status = ReadyStatus(routes'[x], g)
      <4>. HIDE DEF ReadyStatus
      <4>1. routes'[x].status = ReadyStatus(job.read, g)
        BY <1>1, <1>3, <2>1, <2>2, <3>2, StatusPatched
      <4>. QED
        BY <3>2, <3>3, <4>1
    <3>5. /\ OutcomeKeys(x)' = OutcomeKeys(x) /\ BackendMirrored(x, g)'
          /\ HTTPRouteMirrored(x, g)' /\ PolicyMirrored(x, g)'
      BY <1>2, <3>2, <3>3 DEF OutcomeKeys, BackendMirrored, HTTPRouteMirrored, PolicyMirrored, Target
    <3>. HIDE DEF OutcomeKeys, BackendMirrored, HTTPRouteMirrored, PolicyMirrored, ReadyStatus
    <3>6. Mirrored(x, g)'
      BY <1>2, <3>2, <3>4, <3>5 DEF Mirrored
    <3>. QED
      BY <3>2, <3>5, <3>6 DEF MirrorsOutcome
  <2>. QED
    BY <1>7, <2>3
<1>10. CASE updateStatusNotReady /\ x \notin queue'
  <2>1. job.pc = "notready" /\ routes[x] # None /\ job.reason = reasonGatewayNotFound
    BY <1>1, <1>10 DEF updateStatusNotReady, Return
  <2>2. PatchStatus(NotReadyStatus(job.read, job.reason, failureMessage))
    BY <1>10 DEF updateStatusNotReady
  <2>3. failureMessage = g
    BY <1>1, <2>1 DEF failureMessage, reasonGatewayNotFound, reasonUpstreamUnresolved
  <2>4. NotReadyStatus(job.read, job.reason, failureMessage) \in Statuses
    BY <1>3, <2>1, WantedStatus
  <2>5. ASSUME ~Due(x), ~Due(x)' PROVE MirrorsOutcome(x)'
    <3>1. JobRight
      BY <1>1, <1>3, <2>1, <2>5 DEF MirrorInv, JobRightOrDue
    <3>2. routes[x] = job.read /\ g \in OutcomeKeys(x) /\ Get(gateways, g) = None
      BY <1>1, <2>1, <3>1 DEF JobRight
    <3>3. routes'[x] = routes[x]
      BY <1>8, <2>5
    <3>4. routes'[x].status = NotReadyStatus(job.read, reasonGatewayNotFound, g)
      BY <1>1, <1>3, <2>1, <2>2, <2>3, <2>4, <3>2, StatusPatched
    <3>5. routes[x].status \in Statuses
      <4>1. routes[x] \in RouteObjects
        BY <1>3, <2>1 DEF TypeOK, ClusterTypeOK
      <4>. QED
        BY <4>1 DEF RouteObjects
    <3>6. routes'[x].status.cond = GatewayNotFoundCond(routes'[x], g)
      BY <3>2, <3>3, <3>4, <3>5 DEF NotReadyStatus, GatewayNotFoundCond, Statuses
    <3>7. OutcomeKeys(x)' = OutcomeKeys(x)
      BY <1>2, <3>3 DEF OutcomeKeys
    <3>8. Mirrored(x, g)'
      BY <1>2, <3>2, <3>6 DEF Mirrored
    <3>. QED
      BY <3>2, <3>7, <3>8 DEF MirrorsOutcome
  <2>. QED
    BY <1>7, <2>5
<1>11. CASE updateStatusNotReadyNotFound
  <2>1. routes'[x] = None
    BY <1>1, <1>11 DEF updateStatusNotReadyNotFound, cluster
  <2>. QED
    BY <1>7, <2>1
<1>. QED
  BY <1>7, <1>9, <1>10, <1>11

\* A failing call: the route is queued again, or given up.
LEMMA CallFailsMirror ==
  ASSUME TypeOK, TypeOK', MirrorInv, CallFails
  PROVE  MirrorInv'
<1>1. PICK x : x = job.route
  OBVIOUS
<1>2. /\ job.pc \in {"backend", "httproute", "policy", "ready", "notready"}
      /\ UNCHANGED <<routes, gateways, servers, backends, httproutes, policies, caches,
                     wRoutes, wGateways, wServers, wHTTPRoutes>>
  BY DEF CallFails, cluster, watches
<1>3. job # Idle
  BY <1>2, AtWork
<1>4. \/ /\ job.pc # "notready" /\ UNCHANGED <<queue, swallowed>>
         /\ \/ FailWith(reasonBackendFailed) \/ FailWith(reasonHTTPRouteFailed)
            \/ FailWith(reasonPolicyFailed)
      \/ Return(TRUE) /\ UNCHANGED swallowed
      \/ NotReadyNotWritten
  BY DEF CallFails
<1>5. CASE Return(TRUE) /\ UNCHANGED swallowed
  <2>1. job' = Idle /\ queue' = queue \cup {x}
    BY <1>1, <1>5 DEF Return
  <2>. QED
    BY <1>1, <1>2, <1>3, <1>5, <2>1, EndsMirror
<1>6. CASE NotReadyNotWritten
  <2>1. /\ job' = Idle /\ queue \subseteq queue' /\ swallowed \subseteq swallowed'
        /\ x \in queue' \/ x \in swallowed'
    BY <1>1, <1>6 DEF NotReadyNotWritten, Return
  <2>. QED
    BY <1>1, <1>2, <1>3, <2>1, EndsMirror
<1>7. CASE /\ job.pc # "notready" /\ UNCHANGED <<queue, swallowed>>
           /\ \/ FailWith(reasonBackendFailed) \/ FailWith(reasonHTTPRouteFailed)
              \/ FailWith(reasonPolicyFailed)
  <2>1. job'.route = x /\ job'.pc = "notready" /\ job'.reason # reasonGatewayNotFound
    BY <1>1, <1>3, <1>7, AfterFailure
       DEF reasonBackendFailed, reasonHTTPRouteFailed, reasonPolicyFailed, reasonGatewayNotFound
  <2>2. Noted
    BY <1>2 DEF Noted
  <2>3. Kept /\ LockKept(x)
    BY <1>2, <1>7, EventsAdded, LockUntouched
  <2>. QED
    BY <1>1, <1>2, <1>3, <1>7, <2>1, <2>2, <2>3, GoesOn
<1>. QED
  BY <1>4, <1>5, <1>6, <1>7

\* After a restart every route is queued.
LEMMA RestartMirror ==
  ASSUME TypeOK, Restart
  PROVE  MirrorInv'
<1>1. /\ job' = Idle /\ cRoutes' = routes' /\ cGateways' = gateways' /\ cServers' = servers'
      /\ cHTTPRoutes' = httproutes'
      /\ \A r \in Routes : routes'[r] # None => r \in queue'
  BY DEF Restart, cluster
<1>2. CachesSeen' /\ JobRightOrDue'
  BY <1>1 DEF CachesSeen, JobRightOrDue
<1>3. MirroredOrDue'
  BY <1>1 DEF MirroredOrDue, Due
<1>. QED
  BY <1>2, <1>3 DEF MirrorInv

-----------------------------------------------------------------------------
(* All steps together.                                                     *)

\* MirrorInv is inductive, given types and the lock.
LEMMA MirrorStep ==
  TypeOK /\ TypeOK' /\ ChildLockInv /\ MirrorInv /\ [Next]_vars => MirrorInv'
<1>. SUFFICES ASSUME TypeOK, TypeOK', ChildLockInv, MirrorInv, Next \/ UNCHANGED vars
              PROVE  MirrorInv'
  OBVIOUS
<1>1. ASSUME Noted, Kept, LockKept(None), CachesSeen', Aside PROVE MirrorInv'
  <2>1. LockKept(job.route)
    <3>1. CASE job = Idle
      BY <1>1, <3>1 DEF Idle
    <3>2. CASE job # Idle
      <4>1. ASSUME NEW n \in ChildKeys, backends[n] # None PROVE backends[n].owner.key # None
        BY <4>1, NoneAssumption DEF TypeOK, ClusterTypeOK, Backends, Owners
      <4>. QED
        BY <1>1, <4>1 DEF LockKept
    <3>. QED
      BY <3>1, <3>2
  <2>2. MirroredOrDue'
    BY <1>1, <2>1, MirrorKept DEF MirrorInv, Aside
  <2>3. JobRightOrDue'
    BY <1>1, JobRightKept DEF MirrorInv, Aside
  <2>. QED
    BY <1>1, <2>2, <2>3 DEF MirrorInv
<1>2. CASE UNCHANGED vars
  <2>1. /\ UNCHANGED <<routes, gateways, servers, backends, httproutes, policies, caches>>
        /\ UNCHANGED <<wRoutes, wGateways, wServers, wHTTPRoutes, queue, job, swallowed>>
    BY <1>2 DEF vars, cluster, watches
  <2>2. Noted /\ Aside
    BY <2>1 DEF Noted, Aside
  <2>3. Kept /\ LockKept(None)
    BY <2>1, EventsAdded, LockUntouched
  <2>4. CachesSeen'
    BY <2>1, <2>2, SeenKept DEF MirrorInv
  <2>. QED
    BY <1>1, <2>2, <2>3, <2>4
<1>3. CASE Users
  BY <1>1, <1>3, UsersNoted DEF MirrorInv
<1>4. CASE GarbageCollector
  BY <1>1, <1>4, GarbageCollectorNoted DEF MirrorInv
<1>5. CASE Informers
  BY <1>1, <1>5, InformersNoted DEF MirrorInv
<1>6. CASE Proceed
  BY <1>6, UnresolvedMirror, BackendMirror, HTTPRouteMirror, PolicyMirror, StatusMirror DEF Proceed
<1>7. CASE Worker
  BY <1>6, <1>7, BeginMirror, CallFailsMirror DEF Worker
<1>. QED
  BY <1>2, <1>3, <1>4, <1>5, <1>7, RestartMirror DEF Next

\* The invariant of the argument holds throughout.
THEOREM MirrorInvariant == Spec => []MirrorInv
<1>1. Init => MirrorInv
  <2>. SUFFICES ASSUME Init PROVE MirrorInv
    OBVIOUS
  <2>1. /\ job = Idle /\ cRoutes = routes /\ cGateways = gateways /\ cServers = servers
        /\ cHTTPRoutes = httproutes
        /\ \A r \in Routes : routes[r] # None => r \in queue
    BY DEF Init
  <2>2. CachesSeen /\ JobRightOrDue
    BY <2>1 DEF CachesSeen, JobRightOrDue
  <2>3. MirroredOrDue
    BY <2>1 DEF MirroredOrDue, Due
  <2>. QED
    BY <2>2, <2>3 DEF MirrorInv
<1>. QED
  BY <1>1, MirrorStep, TypeCorrect, ChildLockInvariant, PTL DEF Spec

\* Once all events are handled and no Reconcile of a route is queued or under
\* way, its status and its three children are those that its present spec,
\* gateway and ToolServer call for, whatever names collide and whatever was
\* stale, failed, unanswered or restarted, unless its last status write was
\* lost in the branch that returns nil.
THEOREM AlwaysSettlesMirrored == Spec => []SettledMirrors
<1>1. MirrorInv => SettledMirrors
  <2>1. ASSUME NEW r \in Routes, Settled(r) PROVE ~Due(r) /\ job.route # r
    BY <2>1 DEF Settled, EventsHandled, Due, HTTPRouteEvent
  <2>. QED
    BY <2>1 DEF MirrorInv, MirroredOrDue, SettledMirrors
<1>. QED
  BY <1>1, MirrorInvariant, PTL

-----------------------------------------------------------------------------
(* Ready and the tool filter.  Which copies of a route are about, and how  *)
(* far its status is, depend on little of what a step does.                *)

\* A route goes on from a to b: it is deleted, created with a uid that is in
\* use nowhere, edited, or at least keeps its generation and spec.
Later(a, b) ==
  b # None =>
    \/ a = None /\ b.uid > edits
    \/ a # None /\ b.uid = a.uid /\ (b.gen > a.gen \/ (b.gen = a.gen /\ b.spec = a.spec))

\* The worker stops, goes on with its copy, or takes the cache's.
JobGoesOn ==
  \/ job' = Idle
  \/ /\ job # Idle /\ job'.route = job.route /\ job'.read = job.read
     /\ job.route \in wRoutes \cup queue => job.route \in wRoutes' \cup queue'
  \/ /\ job = Idle /\ job'.route \in Routes /\ job'.read = cRoutes[job'.route]
     /\ cRoutes[job'.route] # None /\ UNCHANGED <<routes, cRoutes, wRoutes>>

Forward ==
  /\ \A r \in Routes : Later(routes[r], routes'[r])
  /\ \A r \in Routes : routes'[r] = routes[r] \/ r \in wRoutes'
  /\ \A r \in Routes : \/ cRoutes'[r] = cRoutes[r]
                       \/ cRoutes'[r] = routes[r] /\ routes'[r] = routes[r]
  /\ JobGoesOn

\* A copy that is not ahead of its route stays so.
LEMMA OlderKept ==
  ASSUME NEW x \in RouteObjects \cup {None}, NEW a \in RouteObjects \cup {None},
         NEW b \in RouteObjects \cup {None}, edits \in Nat,
         Older(x, a), Later(a, b), x # None => x.uid <= edits
  PROVE  Older(x, b)
<1>. SUFFICES ASSUME x # None, b # None
              PROVE  \/ x.uid < b.uid
                     \/ x.uid = b.uid /\ (x.gen < b.gen \/ (x.gen = b.gen /\ x.spec = b.spec))
  BY DEF Older
<1>1. x.uid \in Nat /\ b.uid \in Nat /\ x.gen \in Nat /\ b.gen \in Nat
  BY DEF RouteObjects
<1>2. CASE a = None
  BY <1>1, <1>2 DEF Later
<1>3. CASE a # None
  <2>1. a.uid \in Nat /\ a.gen \in Nat
    BY <1>3 DEF RouteObjects
  <2>. QED
    BY <1>1, <1>3, <2>1 DEF Later, Older
<1>. QED
  BY <1>2, <1>3

\* The types that the arithmetic on uids and generations needs.
LEMMA ObjectTypes ==
  ASSUME TypeOK
  PROVE  /\ edits \in Nat
         /\ \A r \in Routes : /\ routes[r] \in RouteObjects \cup {None}
                              /\ cRoutes[r] \in RouteObjects \cup {None}
         /\ \A obj \in RouteObjects : /\ obj.uid \in Nat /\ obj.gen \in Nat /\ obj # None
                                      /\ obj.status \in Statuses
         /\ job # Idle => job.route \in Routes /\ job.read \in RouteObjects /\ job.read # None
<1>1. \A obj \in RouteObjects : /\ obj.uid \in Nat /\ obj.gen \in Nat /\ obj # None
                                /\ obj.status \in Statuses
  BY NoObjectAssumption DEF RouteObjects
<1>2. job # Idle => job.route \in Routes /\ job.read \in RouteObjects
  BY DEF TypeOK, JobTypeOK, Jobs
<1>3. edits \in Nat
  BY BoundsAssumption DEF TypeOK, BoundsOK
<1>. QED
  BY <1>1, <1>2, <1>3 DEF TypeOK, ClusterTypeOK, CacheTypeOK

\* Cache and worker stay behind the routes.
LEMMA CopiesKept ==
  ASSUME TypeOK, TypeOK', ChildLockInv, CachesSeen, CopiesOlder, Forward
  PROVE  CopiesOlder'
<1>1. ASSUME NEW r \in Routes PROVE Older(cRoutes'[r], routes'[r])
  <2>1. cRoutes[r] # None => cRoutes[r].uid <= edits
    BY DEF ChildLockInv, UidsOld
  <2>2. /\ Older(cRoutes[r], routes[r]) /\ Later(routes[r], routes'[r]) /\ edits \in Nat
        /\ cRoutes[r] \in RouteObjects \cup {None} /\ routes[r] \in RouteObjects \cup {None}
        /\ routes'[r] \in RouteObjects \cup {None}
    BY ObjectTypes DEF CopiesOlder, Forward, TypeOK, ClusterTypeOK
  <2>3. CASE cRoutes'[r] = cRoutes[r]
    BY <2>1, <2>2, <2>3, OlderKept
  <2>4. CASE cRoutes'[r] = routes[r] /\ routes'[r] = routes[r]
    BY <2>4 DEF Older
  <2>. QED
    BY <2>3, <2>4 DEF Forward
<1>2. ASSUME job # Idle, job' # Idle, NEW x, x = job.route,
             job'.route = x, job'.read = job.read,
             x \in wRoutes \cup queue => x \in wRoutes' \cup queue'
      PROVE  /\ Older(job.read, routes'[x])
             /\ (routes'[x] # None /\ routes'[x].uid = job.read.uid) => job.read.gen <= cRoutes'[x].gen
             /\ job.read = routes'[x] \/ x \in wRoutes' \cup queue'
  <2>1. /\ x \in Routes /\ job.read \in RouteObjects /\ edits \in Nat
        /\ job.read.uid \in Nat /\ job.read.gen \in Nat /\ job.read # None
        /\ routes[x] \in RouteObjects \cup {None} /\ cRoutes[x] \in RouteObjects \cup {None}
    BY <1>2, ObjectTypes
  <2>2. /\ Later(routes[x], routes'[x]) /\ (routes'[x] = routes[x] \/ x \in wRoutes')
        /\ \/ cRoutes'[x] = cRoutes[x]
           \/ cRoutes'[x] = routes[x] /\ routes'[x] = routes[x]
    BY <2>1 DEF Forward
  <2>3. routes'[x] \in RouteObjects \cup {None}
    BY <2>1 DEF TypeOK, ClusterTypeOK
  <2>4. job.read.uid <= edits
    BY <1>2 DEF ChildLockInv, UidsOld
  <2>5. Older(job.read, routes[x]) /\ Older(cRoutes[x], routes[x])
    BY <1>2, <2>1 DEF CopiesOlder
  <2>6. Older(job.read, routes'[x])
    BY <2>1, <2>2, <2>3, <2>4, <2>5, OlderKept
  <2>7. job.read = routes'[x] \/ x \in wRoutes' \cup queue'
    BY <1>2, <2>2 DEF CopiesOlder
  <2>8. ASSUME routes'[x] # None, routes'[x].uid = job.read.uid
        PROVE  job.read.gen <= cRoutes'[x].gen
    <3>1. routes[x] # None /\ routes[x].uid = job.read.uid
      BY <2>1, <2>2, <2>4, <2>8 DEF Later
    <3>2. Live(JobRef)
      BY <1>2, <3>1 DEF Live, JobRef, ControllerRef
    <3>3. cRoutes[x] # None /\ cRoutes[x].uid = job.read.uid /\ job.read.gen <= cRoutes[x].gen
      BY <1>2, <3>2 DEF CopiesOlder, ChildLockInv, CacheCaughtUp
    <3>4. cRoutes[x].gen \in Nat /\ routes[x].gen \in Nat
      BY <2>1, <3>1, <3>3, ObjectTypes
    <3>5. cRoutes[x].gen <= routes[x].gen
      BY <2>1, <2>5, <3>1, <3>3, <3>4 DEF Older
    <3>. QED
      BY <2>1, <2>2, <3>3, <3>4, <3>5
  <2>. QED
    BY <2>6, <2>7, <2>8
<1>3. ASSUME job = Idle, NEW x \in Routes, job'.route = x, job'.read = cRoutes[x],
             cRoutes[x] # None, UNCHANGED <<routes, cRoutes, wRoutes>>
      PROVE  /\ Older(job'.read, routes'[x]) /\ job'.read.gen <= cRoutes'[x].gen
             /\ job'.read = routes'[x] \/ x \in wRoutes' \cup queue'
  <2>1. cRoutes[x].gen \in Nat
    BY <1>3, ObjectTypes
  <2>2. Older(cRoutes[x], routes[x])
    BY DEF CopiesOlder
  <2>3. cRoutes[x] = routes[x] \/ x \in wRoutes
    BY DEF CachesSeen
  <2>. QED
    BY <1>3, <2>1, <2>2, <2>3
<1>4. ASSUME job' # Idle
      PROVE  \E x \in Routes :
               /\ job'.route = x /\ Older(job'.read, routes'[x])
               /\ (routes'[x] # None /\ routes'[x].uid = job'.read.uid)
                    => job'.read.gen <= cRoutes'[x].gen
               /\ job'.read = routes'[x] \/ x \in wRoutes' \cup queue'
  <2>. HIDE DEF Older
  <2>1. CASE job = Idle
    BY <1>3, <1>4, <2>1 DEF Forward, JobGoesOn
  <2>2. CASE job # Idle
    <3>1. PICK x : x = job.route
      OBVIOUS
    <3>2. /\ job'.route = x /\ job'.read = job.read
          /\ x \in wRoutes \cup queue => x \in wRoutes' \cup queue'
      BY <1>4, <2>2, <3>1 DEF Forward, JobGoesOn
    <3>3. x \in Routes
      BY <2>2, <3>1, ObjectTypes
    <3>. QED
      BY <1>2, <1>4, <2>2, <3>1, <3>2, <3>3
  <2>. QED
    BY <2>1, <2>2
<1>5. ASSUME job' # Idle, NEW x \in Routes, job'.route = x, Older(job'.read, routes'[x]),
             (routes'[x] # None /\ routes'[x].uid = job'.read.uid) => job'.read.gen <= cRoutes'[x].gen,
             job'.read = routes'[x] \/ x \in wRoutes' \cup queue'
      PROVE  CopiesOlder'
  BY <1>1, <1>5 DEF CopiesOlder, Older, Live, JobRef, ControllerRef
<1>6. CASE job' = Idle
  BY <1>1, <1>6 DEF CopiesOlder, Older
<1>. QED
  BY <1>4, <1>5, <1>6

\* A status only changes at the end of a Reconcile, and what condition it has
\* then is the one it had, or one with the generation of the worker's copy.
StatusMoves ==
  \A r \in Routes : routes'[r] # None =>
    IF routes[r] = None
    THEN routes'[r].status = NoStatus
    ELSE \/ routes'[r].status = routes[r].status
         \/ /\ job # Idle /\ r = job.route /\ job' = Idle /\ UNCHANGED cRoutes
            /\ routes'[r].gen = routes[r].gen
            /\ \/ routes'[r].status.cond = routes[r].status.cond
               \/ routes'[r].status.cond.gen = job.read.gen

\* The worker's copy of a route that was never created again is of the same
\* route, and so is the cache's.
LEMMA FirstCopies ==
  ASSUME TypeOK, ChildLockInv, CopiesOlder, job # Idle, NEW r, r = job.route,
         routes[r] # None, routes[r].uid = 0
  PROVE  /\ job.read.uid = 0 /\ job.read.gen <= routes[r].gen
         /\ job.read.gen = routes[r].gen => /\ job.read.spec = routes[r].spec
                                            /\ Current(cRoutes[r], routes[r])
<1>1. /\ r \in Routes /\ job.read \in RouteObjects /\ job.read # None
      /\ job.read.uid \in Nat /\ job.read.gen \in Nat /\ routes[r].gen \in Nat
  BY ObjectTypes
<1>2. /\ job.read.uid = 0
      /\ job.read.gen < routes[r].gen \/ (job.read.gen = routes[r].gen /\ job.read.spec = routes[r].spec)
  BY <1>1 DEF CopiesOlder, Older
<1>3. Live(JobRef)
  BY <1>2 DEF Live, JobRef, ControllerRef
<1>4. cRoutes[r] # None /\ cRoutes[r].uid = 0 /\ job.read.gen <= cRoutes[r].gen
  BY <1>2, <1>3 DEF CopiesOlder, ChildLockInv, CacheCaughtUp
<1>5. cRoutes[r].gen \in Nat
  BY <1>1, <1>4, ObjectTypes
<1>6. cRoutes[r].gen <= routes[r].gen
  BY <1>1, <1>4, <1>5 DEF CopiesOlder, Older
<1>7. job.read.gen = routes[r].gen => Current(cRoutes[r], routes[r])
  BY <1>1, <1>4, <1>5, <1>6 DEF Current
<1>. QED
  BY <1>1, <1>2, <1>7

\* Whoever was created again is exempt from ReadyNotAhead; nobody else's
\* condition gets ahead.
LEMMA AheadKept ==
  ASSUME TypeOK, TypeOK', ChildLockInv, CopiesOlder, ReadyNotAhead, Forward, StatusMoves
  PROVE  ReadyNotAhead'
<1>. SUFFICES ASSUME NEW r \in Routes, routes'[r] # None, routes'[r].uid = 0,
                     routes'[r].status.cond # None
              PROVE  routes'[r].status.cond.gen <= routes'[r].gen
  BY DEF ReadyNotAhead
<1>1. /\ Later(routes[r], routes'[r]) /\ edits \in Nat
      /\ routes[r] # None => routes[r].gen \in Nat /\ routes[r].status \in Statuses
  BY ObjectTypes DEF Forward
<1>2. routes'[r] \in RouteObjects
  BY DEF TypeOK, ClusterTypeOK
<1>3. routes'[r].gen \in Nat
  BY <1>2 DEF RouteObjects
<1>4. routes[r] # None /\ routes[r].uid = 0 /\ routes[r].gen <= routes'[r].gen
  BY <1>1, <1>3 DEF Later
<1>5. CASE routes'[r].status.cond = routes[r].status.cond
  <2>1. routes[r].status.cond \in Conditions
    BY <1>1, <1>4, <1>5 DEF Statuses
  <2>2. routes[r].status.cond.gen \in Nat
    BY <2>1 DEF Conditions
  <2>. QED
    BY <1>1, <1>3, <1>4, <1>5, <2>2 DEF ReadyNotAhead
<1>6. CASE /\ job # Idle /\ r = job.route /\ routes'[r].gen = routes[r].gen
           /\ routes'[r].status.cond.gen = job.read.gen
  BY <1>4, <1>6, FirstCopies
<1>. QED
  BY <1>4, <1>5, <1>6 DEF StatusMoves

\* Where Ready for the present generation comes from, for a route that was
\* never created again: it was there, or the worker wrote it from a copy that
\* is the cache's and has the present spec.
LEMMA ReadyComesFrom ==
  ASSUME TypeOK, TypeOK', ChildLockInv, CopiesOlder, ReadyNotAhead, Forward, StatusMoves,
         NEW r \in Routes, ReportsReady(routes'[r]), routes'[r].uid = 0
  PROVE  /\ routes[r] # None /\ routes[r].uid = 0
         /\ routes'[r].gen = routes[r].gen /\ routes'[r].spec = routes[r].spec
         /\ \/ /\ routes'[r].status.cond = routes[r].status.cond
               /\ ReportsReady(routes[r])
            \/ /\ job # Idle /\ r = job.route /\ job' = Idle /\ UNCHANGED cRoutes
               /\ job.read.uid = routes[r].uid /\ job.read.spec = routes[r].spec
               /\ Current(cRoutes[r], routes[r])
<1>0. /\ routes'[r] # None /\ routes'[r].status.cond # None
      /\ routes'[r].status.cond.status = "True" /\ routes'[r].status.cond.gen = routes'[r].gen
  BY DEF ReportsReady
<1>1. /\ Later(routes[r], routes'[r]) /\ edits \in Nat
      /\ routes[r] # None => routes[r].gen \in Nat
  BY ObjectTypes DEF Forward
<1>2. routes'[r] \in RouteObjects
  BY <1>0 DEF TypeOK, ClusterTypeOK
<1>3. routes'[r].gen \in Nat
  BY <1>2 DEF RouteObjects
<1>4. /\ routes[r] # None /\ routes[r].uid = 0
      /\ \/ routes[r].gen < routes'[r].gen
         \/ routes[r].gen = routes'[r].gen /\ routes[r].spec = routes'[r].spec
  BY <1>0, <1>1, <1>3 DEF Later
<1>5. CASE routes'[r].status.cond = routes[r].status.cond
  <2>1. routes'[r].gen <= routes[r].gen
    BY <1>0, <1>4, <1>5 DEF ReadyNotAhead
  <2>2. routes'[r].gen = routes[r].gen /\ routes'[r].spec = routes[r].spec
    BY <1>1, <1>3, <1>4, <2>1
  <2>3. ReportsReady(routes[r])
    BY <1>0, <1>4, <1>5, <2>2 DEF ReportsReady
  <2>. QED
    BY <1>4, <1>5, <2>2, <2>3
<1>6. CASE /\ job # Idle /\ r = job.route /\ job' = Idle /\ UNCHANGED cRoutes
           /\ routes'[r].gen = routes[r].gen /\ routes'[r].status.cond.gen = job.read.gen
  <2>1. /\ job.read.uid = 0 /\ job.read.spec = routes[r].spec
        /\ Current(cRoutes[r], routes[r])
    BY <1>0, <1>4, <1>6, FirstCopies
  <2>2. routes'[r].spec = routes[r].spec
    BY <1>3, <1>4, <1>6
  <2>. QED
    BY <1>4, <1>6, <2>1, <2>2
<1>. QED
  BY <1>0, <1>4, <1>5, <1>6 DEF StatusMoves

\* Nor does a cache fall behind a route that says Ready.
LEMMA SeenReadyKept ==
  ASSUME TypeOK, TypeOK', ChildLockInv, CopiesOlder, ReadyNotAhead, ReadySeen, Forward, StatusMoves
  PROVE  ReadySeen'
<1>. SUFFICES ASSUME NEW r \in Routes, ReportsReady(routes'[r]), routes'[r].uid = 0
              PROVE  /\ Current(cRoutes'[r], routes'[r])
                     /\ job'.route = r => Current(job'.read, routes'[r])
  BY DEF ReadySeen, Current, ReportsReady
<1>1. /\ routes[r] # None /\ routes[r].uid = 0
      /\ routes'[r].gen = routes[r].gen /\ routes'[r].spec = routes[r].spec
      /\ \/ ReportsReady(routes[r])
         \/ /\ job' = Idle /\ UNCHANGED cRoutes /\ Current(cRoutes[r], routes[r])
  BY ReadyComesFrom
<1>2. CASE ReportsReady(routes[r])
  <2>1. Current(cRoutes[r], routes[r]) /\ (job.route = r => Current(job.read, routes[r]))
    BY <1>1, <1>2 DEF ReadySeen
  <2>2. Current(cRoutes'[r], routes'[r])
    BY <1>1, <2>1 DEF Forward, Current
  <2>3. ASSUME job'.route = r PROVE Current(job'.read, routes'[r])
    <3>1. job' # Idle
      BY <2>3, NoneAssumption DEF Idle
    <3>2. \/ job.route = r /\ job'.read = job.read
          \/ job'.read = cRoutes[r]
      BY <2>3, <3>1 DEF Forward, JobGoesOn
    <3>. QED
      BY <1>1, <2>1, <3>2 DEF Current
  <2>. QED
    BY <2>2, <2>3
<1>3. CASE job' = Idle /\ UNCHANGED cRoutes /\ Current(cRoutes[r], routes[r])
  <2>1. job'.route # r
    BY <1>3, NoneAssumption DEF Idle
  <2>. QED
    BY <1>1, <1>3, <2>1 DEF Current
<1>. QED
  BY <1>1, <1>2, <1>3

\* The exemption of CreatedAndPending and CreatedAndLeft, without the uid.
Pending(r) ==
  \/ r \in wRoutes \cup queue \cup swallowed \/ job.route = r
  \/ \E g \in Gateways : /\ r \in findToolRoutesForToolGateway(routes, g)
                         /\ g \in wGateways \/ (gateways[g] # None /\ ~Owned(gateways[g]))

FilteredIfReady(r) ==
  ReportsReady(routes[r]) => Filtered(r, routes[r], routes[r].status.cond.msg)

\* A filter stays in force; the worker may write it again if its copy has the
\* same filter.
FiltersKept ==
  \A r \in Routes, g \in Gateways, obj \in RouteObjects :
    (/\ routes[r] # None /\ routes[r].uid = obj.uid /\ Filtered(r, obj, g)
     /\ r = job.route => job.read.uid = obj.uid /\ job.read.spec = obj.spec)
      => Filtered(r, obj, g)'

\* Two versions of a route with the same spec have the same filter.
LEMMA SameFilter ==
  ASSUME NEW r, NEW g, NEW a, NEW b, a.uid = b.uid, a.spec = b.spec
  PROVE  ControllerRef(r, a) = ControllerRef(r, b) /\ PolicyFor(r, a, g) = PolicyFor(r, b, g)
BY DEF ControllerRef, PolicyFor

\* The lock keeps the filters of the routes that the worker is not at.
LEMMA LockedFilter ==
  ASSUME TypeOK, NEW x, LockKept(x), NEW r \in Routes, r # x, NEW g \in Gateways,
         NEW obj \in RouteObjects, routes[r] # None, routes[r].uid = obj.uid, Filtered(r, obj, g)
  PROVE  Filtered(r, obj, g)'
<1>1. PICK n \in ChildKeys : n = ChildKey(g, r)
  BY DEF ChildKeys
<1>2. /\ backends[n] # None /\ backends[n].owner = ControllerRef(r, obj)
      /\ policies[n] = PolicyFor(r, obj, g)
  BY <1>1 DEF Filtered
<1>3. Live(backends[n].owner) /\ backends[n].owner.key # x
  BY <1>2 DEF Live, ControllerRef
<1>4. policies[n] = None \/ policies[n].owner = backends[n].owner
  BY <1>2, WantedPolicy
<1>5. backends'[n] = backends[n] /\ policies'[n] = policies[n]
  BY <1>2, <1>3, <1>4 DEF LockKept
<1>. QED
  BY <1>1, <1>2, <1>5 DEF Filtered

\* A step that keeps the lock for everybody keeps all filters.
LEMMA QuietFilters == ASSUME TypeOK, LockKept(None) PROVE FiltersKept
<1>1. None \notin Routes
  BY NoneAssumption
<1>. QED
  BY <1>1, LockedFilter DEF FiltersKept

\* FilterInv is kept by a step that leaves every pending route pending or with
\* its filter, and brings the filter along with every Ready it writes.
LEMMA FilterKept ==
  ASSUME TypeOK, TypeOK', ChildLockInv, CachesSeen, FilterInv, Forward, StatusMoves, FiltersKept,
         PolicyBeforeReady', job'.route = job.route \/ UNCHANGED <<backends, policies>>,
         \A r \in Routes : (routes[r] # None /\ routes'[r] = routes[r] /\ Pending(r))
                             => Pending(r)' \/ FilteredIfReady(r)',
         \A r \in Routes : (routes[r] # None /\ routes'[r] # None /\ routes[r].uid = 0
                              /\ routes'[r].status.cond # routes[r].status.cond)
                             => FilteredIfReady(r)'
  PROVE  FilterInv'
<1>1. CopiesOlder' /\ ReadyNotAhead' /\ ReadySeen'
  BY CopiesKept, AheadKept, SeenReadyKept DEF FilterInv
<1>2. ASSUME NEW r \in Routes, ReportsReady(routes'[r]), routes'[r].uid = 0
      PROVE  FilteredIfReady(r)'
  <2>1. /\ routes[r] # None /\ routes[r].uid = 0 /\ routes'[r] # None
        /\ routes'[r].gen = routes[r].gen /\ routes'[r].spec = routes[r].spec
    BY <1>2, ReadyComesFrom DEF FilterInv, ReportsReady
  <2>2. CASE routes'[r].status.cond = routes[r].status.cond
    <3>1. ReportsReady(routes[r])
      BY <1>2, <2>1, <2>2 DEF ReportsReady
    <3>2. PICK obj, g : obj = routes[r] /\ g = routes[r].status.cond.msg
      OBVIOUS
    <3>3. Filtered(r, obj, g)
      BY <2>1, <3>1, <3>2 DEF FilterInv, ReadyFiltered, CreatedAndPending, CreatedAndLeft
    <3>4. ASSUME job.route = r PROVE job.read.uid = obj.uid /\ job.read.spec = obj.spec
      <4>1. Current(job.read, routes[r])
        BY <2>1, <3>1, <3>4 DEF FilterInv, ReadySeen
      <4>2. job # Idle
        BY <3>4, NoneAssumption DEF Idle
      <4>. QED
        BY <2>1, <3>2, <3>4, <4>1, <4>2, FirstCopies DEF FilterInv, Current
    <3>5. obj \in RouteObjects /\ g \in Gateways
      BY <2>1, <3>2, <3>3, ObjectTypes DEF Filtered
    <3>6. Filtered(r, obj, g)'
      BY <2>1, <3>2, <3>3, <3>4, <3>5 DEF FiltersKept
    <3>7. ControllerRef(r, routes'[r]) = ControllerRef(r, obj)
          /\ PolicyFor(r, routes'[r], g) = PolicyFor(r, obj, g)
      BY <1>2, <2>1, <3>2, SameFilter
    <3>. QED
      BY <2>2, <3>2, <3>6, <3>7 DEF FilteredIfReady, Filtered
  <2>3. CASE routes'[r].status.cond # routes[r].status.cond
    BY <2>1, <2>3
  <2>. QED
    BY <2>2, <2>3
<1>3. ASSUME NEW r \in Routes, ReportsReady(routes'[r]), routes'[r].uid # 0
      PROVE  Pending(r)' \/ FilteredIfReady(r)'
  <2>1. CASE routes'[r] # routes[r]
    BY <2>1 DEF Forward, Pending
  <2>2. CASE routes'[r] = routes[r]
    <3>1. routes[r] # None
      BY <1>3, <2>2 DEF ReportsReady
    <3>2. PICK obj, g : obj = routes[r] /\ g = routes[r].status.cond.msg
      OBVIOUS
    <3>3. CASE Filtered(r, obj, g)
      <4>1. CASE job.route = r /\ job'.route = job.route
        BY <4>1 DEF Pending
      <4>2. CASE UNCHANGED <<backends, policies>>
        BY <2>2, <3>2, <3>3, <4>2 DEF FilteredIfReady, Filtered
      <4>3. CASE job.route # r
        <5>1. obj \in RouteObjects /\ g \in Gateways
          BY <3>1, <3>2, <3>3, ObjectTypes DEF Filtered
        <5>2. Filtered(r, obj, g)'
          BY <3>1, <3>2, <3>3, <4>3, <5>1 DEF FiltersKept
        <5>. QED
          BY <2>2, <3>2, <5>2 DEF FilteredIfReady, Filtered
      <4>. QED
        BY <4>1, <4>2, <4>3
    <3>4. CASE ~Filtered(r, obj, g)
      <4>1. CreatedAndPending(r) \/ CreatedAndLeft(r)
        BY <1>3, <2>2, <3>2, <3>4 DEF FilterInv, ReadyFiltered
      <4>2. Pending(r)
        BY <4>1 DEF CreatedAndPending, CreatedAndLeft, Pending
      <4>. QED
        BY <2>2, <3>1, <4>2
    <3>. QED
      BY <3>3, <3>4
  <2>. QED
    BY <2>1, <2>2
<1>4. ReadyFiltered'
  <2>. SUFFICES ASSUME NEW r \in Routes, ReportsReady(routes'[r])
                PROVE  FilteredIfReady(r)' \/ CreatedAndPending(r)' \/ CreatedAndLeft(r)'
    BY DEF ReadyFiltered, FilteredIfReady, ReportsReady
  <2>1. CASE routes'[r].uid = 0
    BY <1>2, <2>1
  <2>2. CASE routes'[r].uid # 0
    <3>1. routes'[r].uid > 0
      <4>1. routes'[r] \in RouteObjects
        BY DEF TypeOK, ClusterTypeOK, ReportsReady
      <4>. QED
        BY <2>2, <4>1 DEF RouteObjects
    <3>2. Pending(r)' => CreatedAndPending(r)' \/ CreatedAndLeft(r)'
      BY <3>1 DEF Pending, CreatedAndPending, CreatedAndLeft
    <3>. QED
      BY <1>3, <2>2, <3>2
  <2>. QED
    BY <2>1, <2>2
<1>. QED
  BY <1>1, <1>4 DEF FilterInv

\* Steps that leave the routes and their cache alone.
LEMMA RoutesStay ==
  ASSUME UNCHANGED <<routes, cRoutes>>, JobGoesOn
  PROVE  Forward /\ StatusMoves
BY DEF Forward, Later, StatusMoves

\* The steps of users, garbage collector and informers.
LEMMA AsideFilter ==
  ASSUME TypeOK, TypeOK', ChildLockInv, CachesSeen, FilterInv,
         Noted, Kept, LockKept(None), Aside,
         \A r \in Routes : Later(routes[r], routes'[r]),
         \A r \in Routes : \/ cRoutes'[r] = cRoutes[r]
                           \/ cRoutes'[r] = routes[r] /\ routes'[r] = routes[r],
         \A r \in Routes : routes'[r] # None =>
           routes'[r].status = IF routes[r] = None THEN NoStatus ELSE routes[r].status
  PROVE  FilterInv'
<1>1. job' = job /\ swallowed' = swallowed
  BY DEF Aside
<1>2. JobGoesOn
  <2>1. CASE job = Idle
    BY <1>1, <2>1 DEF JobGoesOn
  <2>2. CASE job # Idle
    BY <1>1, <2>2, ObjectTypes DEF JobGoesOn, Kept
  <2>. QED
    BY <2>1, <2>2
<1>3. Forward
  BY <1>2 DEF Forward, Noted
<1>4. StatusMoves
  BY DEF StatusMoves
<1>5. FiltersKept
  BY QuietFilters
<1>6. PolicyBeforeReady'
  <2>. SUFFICES ASSUME job.pc = "ready", routes'[job.route] # None,
                       routes'[job.route].uid = job.read.uid
                PROVE  Filtered(job.route, job.read, job.gw)'
    BY <1>1 DEF PolicyBeforeReady, Live, JobRef, ControllerRef
  <2>1. PICK x, o, g : x = job.route /\ o = job.read /\ g = job.gw
    OBVIOUS
  <2>2. job # Idle /\ x \in Routes /\ g \in Gateways /\ o \in RouteObjects
    BY <2>1, AtWork
  <2>3. o.uid <= edits /\ o.uid \in Nat /\ edits \in Nat
    BY <2>1, <2>2, ObjectTypes DEF ChildLockInv, UidsOld
  <2>4. routes[x] # None /\ routes[x].uid = o.uid
    BY <2>1, <2>2, <2>3 DEF Later
  <2>5. Filtered(x, o, g)
    BY <2>1, <2>4 DEF FilterInv, PolicyBeforeReady, Live, JobRef, ControllerRef
  <2>6. Filtered(x, o, g)'
    <3>1. x # None
      BY <2>2, NoneAssumption
    <3>. QED
      BY <2>2, <2>4, <2>5, <3>1, LockedFilter
  <2>. QED
    BY <1>1, <2>1, <2>6
<1>7. ASSUME NEW r \in Routes, routes'[r] = routes[r], Pending(r) PROVE Pending(r)'
  <2>1. CASE r \in wRoutes \cup queue \cup swallowed \/ job.route = r
    BY <1>1, <2>1 DEF Pending, Kept
  <2>2. ASSUME NEW g \in Gateways, r \in findToolRoutesForToolGateway(routes, g),
               g \in wGateways \/ (gateways[g] # None /\ ~Owned(gateways[g]))
        PROVE  Pending(r)'
    <3>1. r \in findToolRoutesForToolGateway(routes', g)
      BY <1>7, <2>2, SameConcern
    <3>2. \/ r \in wRoutes' \cup queue' \/ g \in wGateways'
          \/ gateways'[g] # None /\ ~Owned(gateways'[g])
      BY <2>2 DEF Noted, Kept
    <3>. QED
      BY <3>1, <3>2 DEF Pending
  <2>. QED
    BY <1>7, <2>1, <2>2 DEF Pending
<1>8. ASSUME NEW r \in Routes, routes[r] # None, routes'[r] # None
      PROVE  routes'[r].status.cond = routes[r].status.cond
  BY <1>8
<1>. QED
  BY <1>1, <1>3, <1>4, <1>5, <1>6, <1>7, <1>8, FilterKept

\* What users do to a route.
LEMMA UsersFilter ==
  ASSUME TypeOK, TypeOK', ChildLockInv, CachesSeen, FilterInv, Users
  PROVE  FilterInv'
<1>1. Noted /\ Kept /\ LockKept(None) /\ Aside
  BY UsersNoted
<1>2. cRoutes' = cRoutes
  BY DEF Users, CreateRoute, EditRoute, DeleteRoute, SetGateway, SetServer, TamperHTTPRoute, caches
<1>3. ASSUME NEW q \in Routes, NEW obj, RouteChanged(q, obj)
      PROVE  routes'[q] = obj /\ \A r \in Routes \ {q} : routes'[r] = routes[r]
  BY <1>3 DEF RouteChanged, TypeOK, ClusterTypeOK
<1>4. ASSUME NEW r \in Routes
      PROVE  /\ Later(routes[r], routes'[r])
             /\ routes'[r] # None =>
                  routes'[r].status = IF routes[r] = None THEN NoStatus ELSE routes[r].status
  <2>0. CASE routes'[r] = routes[r]
    BY <2>0 DEF Later
  <2>1. ASSUME NEW q \in Routes, CreateRoute(q), q = r
        PROVE  /\ Later(routes[r], routes'[r])
               /\ routes[r] = None /\ routes'[r].status = NoStatus
    <3>1. PICK spec \in RouteSpecs : RouteChanged(r, NewRoute(edits', spec))
      BY <2>1 DEF CreateRoute
    <3>2. routes'[r] = NewRoute(edits', spec) /\ routes[r] = None /\ edits' = edits + 1
      BY <1>3, <2>1, <3>1 DEF CreateRoute, Edit
    <3>3. edits \in Nat
      BY ObjectTypes
    <3>. QED
      BY <3>2, <3>3 DEF Later, NewRoute
  <2>2. ASSUME NEW q \in Routes, EditRoute(q), q = r
        PROVE  Later(routes[r], routes'[r]) /\ routes[r] # None /\ routes'[r].status = routes[r].status
    <3>1. PICK spec \in RouteSpecs : RouteChanged(r, EditedRoute(routes[r], spec))
      BY <2>2 DEF EditRoute
    <3>2. routes'[r] = EditedRoute(routes[r], spec) /\ routes[r] # None
      BY <1>3, <2>2, <3>1 DEF EditRoute
    <3>3. routes[r] \in RouteObjects
      BY <3>2, ObjectTypes
    <3>4. /\ EditedRoute(routes[r], spec).uid = routes[r].uid
          /\ EditedRoute(routes[r], spec).gen = routes[r].gen + 1
          /\ EditedRoute(routes[r], spec).status = routes[r].status
      BY <3>3 DEF EditedRoute, RouteObjects
    <3>5. routes[r].gen \in Nat
      BY <3>3 DEF RouteObjects
    <3>. HIDE DEF EditedRoute
    <3>. QED
      BY <3>2, <3>4, <3>5 DEF Later
  <2>3. ASSUME NEW q \in Routes, DeleteRoute(q), q = r PROVE routes'[r] = None
    BY <1>3, <2>3 DEF DeleteRoute
  <2>4. ASSUME NEW q \in Routes, CreateRoute(q) \/ EditRoute(q) \/ DeleteRoute(q), q # r
        PROVE  routes'[r] = routes[r]
    <3>1. \E obj : RouteChanged(q, obj)
      BY <2>4 DEF CreateRoute, EditRoute, DeleteRoute
    <3>. QED
      BY <1>3, <2>4, <3>1
  <2>5. CASE \E q \in Routes : CreateRoute(q) \/ EditRoute(q) \/ DeleteRoute(q)
    <3>1. PICK q \in Routes : CreateRoute(q) \/ EditRoute(q) \/ DeleteRoute(q)
      BY <2>5
    <3>2. CASE routes'[r] = None
      BY <3>2 DEF Later
    <3>. QED
      BY <2>0, <2>1, <2>2, <2>3, <2>4, <3>1, <3>2
  <2>6. CASE ~ \E q \in Routes : CreateRoute(q) \/ EditRoute(q) \/ DeleteRoute(q)
    <3>1. UNCHANGED routes
      BY <2>6 DEF Users, SetGateway, SetServer, TamperHTTPRoute
    <3>. QED
      BY <2>0, <3>1
  <2>. QED
    BY <2>5, <2>6
<1>. HIDE DEF Later
<1>. QED
  BY <1>1, <1>2, <1>4, AsideFilter

\* The garbage collector and the informers leave routes and statuses alone.
LEMMA InformersFilter ==
  ASSUME TypeOK, TypeOK', ChildLockInv, CachesSeen, FilterInv,
         GarbageCollector \/ Informers \/ UNCHANGED vars
  PROVE  FilterInv'
<1>1. UNCHANGED routes
  BY DEF GarbageCollector, CollectBackend, CollectHTTPRoute, CollectPolicy, Informers, SyncRoute,
         SyncGateway, SyncServer, SyncHTTPRoute, HandleRoute, HandleGateway, HandleServer,
         HandleHTTPRoute, cluster, vars
<1>2. Noted /\ Kept /\ LockKept(None) /\ Aside
  <2>1. CASE UNCHANGED vars
    <3>1. /\ UNCHANGED <<routes, gateways, servers, backends, httproutes, policies, job, swallowed>>
          /\ UNCHANGED <<wRoutes, wGateways, wServers, wHTTPRoutes, queue>>
      BY <2>1 DEF vars, cluster, watches
    <3>2. Noted /\ Aside
      BY <3>1 DEF Noted, Aside
    <3>. QED
      BY <3>1, <3>2, EventsAdded, LockUntouched
  <2>. QED
    BY <2>1, GarbageCollectorNoted, InformersNoted
<1>3. \A r \in Routes : cRoutes'[r] = cRoutes[r] \/ cRoutes'[r] = routes[r]
  <2>1. ASSUME NEW q \in Routes, SyncRoute(q)
        PROVE  \A r \in Routes : cRoutes'[r] = cRoutes[r] \/ cRoutes'[r] = routes[r]
    BY <2>1 DEF SyncRoute, TypeOK, CacheTypeOK
  <2>2. CASE ~ \E q \in Routes : SyncRoute(q)
    <3>1. UNCHANGED cRoutes
      BY <2>2 DEF GarbageCollector, CollectBackend, CollectHTTPRoute, CollectPolicy, Informers,
         SyncGateway, SyncServer, SyncHTTPRoute, HandleRoute, HandleGateway, HandleServer,
         HandleHTTPRoute, caches, vars
    <3>. QED
      BY <3>1
  <2>. QED
    BY <2>1, <2>2
<1>4. \A r \in Routes : Later(routes[r], routes'[r])
  BY <1>1 DEF Later
<1>. HIDE DEF Later
<1>. QED
  BY <1>1, <1>2, <1>3, <1>4, AsideFilter

\* A Reconcile begins.  If it ends at once although its route waited for it, a
\* newer copy of the route is on its way or its gateway is not ours.
LEMMA BeginFilter ==
  ASSUME TypeOK, TypeOK', ChildLockInv, CachesSeen, FilterInv, NEW k \in Routes, Begin(k)
  PROVE  FilterInv'
<1>1. /\ job = Idle /\ queue' = queue \ {k} /\ swallowed' = swallowed \ {k}
      /\ UNCHANGED <<cluster, caches, watches>>
  BY DEF Begin, BeginNotFound, BeginGatewayNotFound, BeginNotOwned, BeginOwned, Dequeue
<1>2. UNCHANGED <<routes, gateways, backends, policies, cRoutes, cGateways, wRoutes, wGateways>>
  BY <1>1 DEF cluster, caches, watches
<1>3. \/ job' = Idle
      \/ /\ job'.route = k /\ job'.read = cRoutes[k] /\ cRoutes[k] # None
         /\ job'.pc \in {"backend", "notready"}
  <2>1. CASE BeginNotFound(k) \/ BeginNotOwned(k)
    BY <1>1, <2>1 DEF BeginNotFound, BeginNotOwned
  <2>2. CASE BeginGatewayNotFound(k)
    BY <2>2 DEF BeginGatewayNotFound
  <2>3. CASE BeginOwned(k)
    BY <2>3 DEF BeginOwned
  <2>. QED
    BY <2>1, <2>2, <2>3 DEF Begin
<1>4. JobGoesOn
  BY <1>1, <1>2, <1>3 DEF JobGoesOn
<1>5. Forward /\ StatusMoves
  BY <1>2, <1>4, RoutesStay
<1>6. FiltersKept
  BY <1>2, LockUntouched, QuietFilters
<1>7. PolicyBeforeReady'
  BY <1>3 DEF PolicyBeforeReady, Idle
<1>8. ASSUME NEW r \in Routes, Pending(r), r # k PROVE Pending(r)'
  <2>1. job.route # r
    BY <1>1, NoneAssumption DEF Idle
  <2>. QED
    BY <1>1, <1>2, <1>8, <2>1 DEF Pending
<1>9. ASSUME routes[k] # None PROVE Pending(k)'
  <2>1. CASE job'.route = k
    BY <2>1 DEF Pending
  <2>2. CASE k \in wRoutes
    BY <1>2, <2>2 DEF Pending
  <2>3. CASE k \notin wRoutes /\ job' = Idle
    <3>1. cRoutes[k] = routes[k]
      BY <2>3 DEF CachesSeen
    <3>2. BeginNotOwned(k)
      BY <1>9, <2>3, <3>1 DEF Begin, BeginNotFound, BeginGatewayNotFound, BeginOwned, Idle
    <3>3. PICK g \in gatewayKeys(k) : Get(cGateways, g) # None /\ ~Owned(cGateways[g])
      BY <3>2 DEF BeginNotOwned
    <3>4. g \in Gateways /\ cGateways[g] # None
      BY <3>3 DEF Get, TypeOK, CacheTypeOK
    <3>5. k \in findToolRoutesForToolGateway(routes, g)
      BY <1>9, <3>1, <3>3 DEF gatewayKeys, resolveToolGatewayKey, findToolRoutesForToolGateway
    <3>6. g \in wGateways \/ (gateways[g] # None /\ ~Owned(gateways[g]))
      BY <3>3, <3>4 DEF CachesSeen
    <3>. QED
      BY <1>2, <3>4, <3>5, <3>6 DEF Pending
  <2>. QED
    BY <1>3, <2>1, <2>2, <2>3
<1>. QED
  BY <1>2, <1>5, <1>6, <1>7, <1>8, <1>9, FilterKept

\* A Reconcile goes on.
LEMMA GoesOnFilter ==
  ASSUME TypeOK, TypeOK', ChildLockInv, CachesSeen, FilterInv, job # Idle,
         job'.route = job.route, job'.read = job.read,
         UNCHANGED <<routes, gateways, cRoutes, wRoutes, wGateways, queue, swallowed>>,
         FiltersKept, PolicyBeforeReady'
  PROVE  FilterInv'
<1>1. JobGoesOn
  BY DEF JobGoesOn
<1>2. Forward /\ StatusMoves
  BY <1>1, RoutesStay
<1>3. \A r \in Routes : Pending(r) => Pending(r)'
  BY DEF Pending
<1>. QED
  BY <1>2, <1>3, FilterKept

\* Writing the Backend leaves its controller as it was, for routes that have
\* their filter.
LEMMA BackendFilter ==
  ASSUME TypeOK, TypeOK', ChildLockInv, CachesSeen, FilterInv, ensureBackend
  PROVE  FilterInv'
<1>1. PICK x, o, n : x = job.route /\ o = job.read /\ n = JobKey
  OBVIOUS
<1>. DEFINE want == BackendFor(x, o, jobTarget)
            new == CreateOrPatch(backends[n], backends[n], want)
<1>2. /\ job.pc = "backend"
      /\ UNCHANGED <<routes, gateways, servers, httproutes, policies, caches, watches, queue, swallowed>>
  BY DEF ensureBackend
<1>3. job # Idle /\ x \in Routes /\ n \in ChildKeys
  BY <1>1, <1>2, AtWork
<1>4. UNCHANGED <<cRoutes, wRoutes, wGateways>>
  BY <1>2 DEF caches, watches
<1>5. CASE new = Failed
  <2>1. FailWith(reasonBackendFailed) /\ UNCHANGED backends
    BY <1>1, <1>5 DEF ensureBackend
  <2>2. job'.route = job.route /\ job'.read = job.read /\ job'.pc = "notready"
    BY <1>3, <2>1, AfterFailure
  <2>3. FiltersKept
    BY <1>2, <2>1, LockUntouched, QuietFilters
  <2>4. PolicyBeforeReady'
    BY <2>2 DEF PolicyBeforeReady
  <2>. QED
    BY <1>2, <1>3, <1>4, <2>2, <2>3, <2>4, GoesOnFilter
<1>6. CASE new # Failed
  <2>1. /\ Answered("httproute", reasonBackendFailed)
        /\ backends' = [backends EXCEPT ![n] = new]
    BY <1>1, <1>6 DEF ensureBackend
  <2>2. /\ want = [f \in DOMAIN want |-> want[f]] /\ want.owner.key = x
        /\ want.owner = ControllerRef(x, o)
    BY DEF BackendFor, ControllerRef
  <2>3. want # None
    BY <1>1, <1>2, <1>3, WantedTypes, NoneAssumption
  <2>. HIDE DEF want
  <2>4. new = want /\ (backends[n] # None => backends[n].owner.key = x)
    BY <1>6, <2>2, PatchLive
  <2>. HIDE DEF new
  <2>5. backends'[n] = want /\ \A m \in ChildKeys : m # n => backends'[m] = backends[m]
    BY <1>3, <2>1, <2>4 DEF TypeOK, ClusterTypeOK
  <2>6. LockKept(x)
    BY <1>2, <2>4, <2>5 DEF LockKept
  <2>7. ASSUME NEW g \in Gateways, NEW obj \in RouteObjects, o.uid = obj.uid, Filtered(x, obj, g)
        PROVE  Filtered(x, obj, g)'
    <3>1. PICK m \in ChildKeys : m = ChildKey(g, x)
      BY <1>3 DEF ChildKeys
    <3>2. want.owner = ControllerRef(x, obj)
      BY <2>2, <2>7 DEF ControllerRef
    <3>3. backends'[m] # None /\ backends'[m].owner = ControllerRef(x, obj)
      BY <2>3, <2>5, <2>7, <3>1, <3>2 DEF Filtered
    <3>. QED
      BY <1>2, <2>7, <3>1, <3>3 DEF Filtered
  <2>8. FiltersKept
    BY <1>1, <2>6, <2>7, LockedFilter DEF FiltersKept
  <2>9. /\ job'.route = job.route /\ job'.read = job.read
        /\ job'.pc \in {"notready", "httproute"}
    BY <1>3, <2>1, AfterAnswer
  <2>10. PolicyBeforeReady'
    BY <2>9 DEF PolicyBeforeReady
  <2>. QED
    BY <1>2, <1>3, <1>4, <2>8, <2>9, <2>10, GoesOnFilter
<1>. QED
  BY <1>5, <1>6

\* Writing the policy under the lock: other routes keep theirs, this one gets
\* the filter of the worker's copy.
LEMMA PolicyFilter ==
  ASSUME TypeOK, TypeOK', ChildLockInv, CachesSeen, FilterInv, ensurePolicy
  PROVE  FilterInv'
<1>1. PICK x, o, h, n : x = job.route /\ o = job.read /\ h = job.gw /\ n = JobKey
  OBVIOUS
<1>. DEFINE want == PolicyFor(x, o, h)
            new == IF want = None THEN None ELSE CreateOrPatch(policies[n], policies[n], want)
<1>2. /\ job.pc = "policy"
      /\ UNCHANGED <<routes, gateways, servers, backends, httproutes, caches,
                     watches, queue, swallowed>>
  BY DEF ensurePolicy
<1>3. job # Idle /\ x \in Routes /\ n \in ChildKeys /\ h \in Gateways /\ n = ChildKey(h, x)
  BY <1>1, <1>2, AtWork DEF JobKey
<1>4. UNCHANGED <<cRoutes, wRoutes, wGateways>>
  BY <1>2 DEF caches, watches
<1>5. CASE new = Failed
  <2>1. FailWith(reasonPolicyFailed) /\ UNCHANGED policies
    BY <1>1, <1>5 DEF ensurePolicy
  <2>2. job'.route = job.route /\ job'.read = job.read /\ job'.pc = "notready"
    BY <1>3, <2>1, AfterFailure
  <2>3. FiltersKept
    BY <1>2, <2>1, LockUntouched, QuietFilters
  <2>4. PolicyBeforeReady'
    BY <2>2 DEF PolicyBeforeReady
  <2>. QED
    BY <1>2, <1>3, <1>4, <2>2, <2>3, <2>4, GoesOnFilter
<1>6. CASE new # Failed
  <2>1. Answered("ready", reasonPolicyFailed) /\ policies' = [policies EXCEPT ![n] = new]
    BY <1>1, <1>6 DEF ensurePolicy
  <2>2. want # None => want = [f \in DOMAIN want |-> want[f]]
    BY DEF PolicyFor
  <2>. HIDE DEF want
  <2>3. new = want
    BY <1>6, <2>2, PatchLive
  <2>. HIDE DEF new
  <2>4. policies'[n] = want /\ \A m \in ChildKeys : m # n => policies'[m] = policies[m]
    BY <1>3, <2>1, <2>3 DEF TypeOK, ClusterTypeOK
  <2>5. /\ backends[n] # None => backends[n].owner.key = x
        /\ Live(JobRef) => backends[n] # None /\ backends[n].owner = JobRef
    BY <1>1, <1>2 DEF ChildLockInv, WorkerHoldsLock
  <2>6. LockKept(x)
    BY <1>2, <2>4, <2>5 DEF LockKept
  <2>7. ASSUME NEW g \in Gateways, NEW obj \in RouteObjects, o.uid = obj.uid, o.spec = obj.spec,
               Filtered(x, obj, g)
        PROVE  Filtered(x, obj, g)'
    <3>1. PICK m \in ChildKeys : m = ChildKey(g, x)
      BY <1>3 DEF ChildKeys
    <3>2. m = n => want = PolicyFor(x, obj, g)
      BY <1>3, <2>7, <3>1 DEF want, PolicyFor, ControllerRef
    <3>3. policies'[m] = PolicyFor(x, obj, g)
      BY <2>4, <2>7, <3>1, <3>2 DEF Filtered
    <3>. QED
      BY <1>2, <2>7, <3>1, <3>3 DEF Filtered
  <2>8. FiltersKept
    BY <1>1, <2>6, <2>7, LockedFilter DEF FiltersKept
  <2>9. /\ job'.route = job.route /\ job'.read = job.read
        /\ job'.pc = "notready" \/ (job'.pc = "ready" /\ job'.gw = job.gw)
    BY <1>3, <2>1, AfterAnswer
  <2>10. PolicyBeforeReady'
    <3>. SUFFICES ASSUME job'.pc = "ready", routes[x] # None, routes[x].uid = o.uid
                  PROVE  Filtered(x, o, h)'
      BY <1>1, <1>2, <2>9 DEF PolicyBeforeReady, Live, JobRef, ControllerRef
    <3>1. Live(JobRef) /\ JobRef = ControllerRef(x, o)
      BY <1>1 DEF Live, JobRef, ControllerRef
    <3>. QED
      BY <1>2, <1>3, <2>4, <2>5, <3>1 DEF Filtered, want
  <2>. QED
    BY <1>2, <1>3, <1>4, <2>8, <2>9, <2>10, GoesOnFilter
<1>. QED
  BY <1>5, <1>6

\* A call that does not touch Backends and policies, or that fails.
LEMMA OtherCallsFilter ==
  ASSUME TypeOK, TypeOK', ChildLockInv, CachesSeen, FilterInv, job # Idle,
         job'.route = job.route, job'.read = job.read, job'.pc # "ready",
         UNCHANGED <<routes, gateways, backends, policies, caches, wRoutes, wGateways,
                     queue, swallowed>>
  PROVE  FilterInv'
<1>1. FiltersKept
  BY LockUntouched, QuietFilters
<1>2. PolicyBeforeReady'
  BY DEF PolicyBeforeReady
<1>. QED
  BY <1>1, <1>2, GoesOnFilter DEF caches

\* Reconcile ends with a status patch.
LEMMA PatchFilter ==
  ASSUME TypeOK, TypeOK', ChildLockInv, CachesSeen, FilterInv, job # Idle, job' = Idle,
         NEW x, x = job.route, routes[x] # None, NEW want \in Statuses, PatchStatus(want),
         want.cond.gen = job.read.gen,
         (want.cond.status = "True" /\ Live(JobRef)) => Filtered(x, job.read, want.cond.msg),
         UNCHANGED <<gateways, backends, policies, caches, wGateways, swallowed>>,
         queue \subseteq queue'
  PROVE  FilterInv'
<1>1. /\ \A r \in Routes \ {x} : routes'[r] = routes[r]
      /\ routes'[x] # None
      /\ routes'[x].uid = routes[x].uid /\ routes'[x].gen = routes[x].gen
      /\ routes'[x].spec = routes[x].spec
      /\ job.read = routes[x] => routes'[x].status = want
      /\ routes'[x] = routes[x] \/ x \in wRoutes'
      /\ wRoutes \subseteq wRoutes'
  <2>1. routes'[x] \in RouteObjects
    BY StatusPatched
  <2>2. routes'[x] # None
    BY <2>1, NoObjectAssumption
  <2>. QED
    BY <2>2, StatusPatched
<1>2. routes'[x].status.cond \in {routes[x].status.cond, want.cond}
  <2>1. routes'[x].status = MergePatch(job.read.status, routes[x].status, want)
    BY StatusPatched
  <2>2. "cond" \in DOMAIN want
    BY DEF Statuses
  <2>. QED
    BY <2>1, <2>2, MergedField
<1>3. x \in Routes /\ job.read \in RouteObjects /\ cRoutes' = cRoutes
  BY ObjectTypes DEF caches
<1>4. JobGoesOn
  BY DEF JobGoesOn
<1>5. Forward
  BY <1>1, <1>3, <1>4 DEF Forward, Later
<1>6. StatusMoves
  BY <1>1, <1>2, <1>3 DEF StatusMoves
<1>7. FiltersKept
  BY LockUntouched, QuietFilters
<1>8. PolicyBeforeReady'
  BY DEF PolicyBeforeReady, Idle
<1>9. ASSUME routes'[x].status.cond = want.cond, ReportsReady(routes'[x]),
             job.read.uid = routes[x].uid, job.read.spec = routes[x].spec
      PROVE  FilteredIfReady(x)'
  <2>1. Live(JobRef) /\ want.cond.status = "True"
    BY <1>9 DEF Live, JobRef, ControllerRef, ReportsReady
  <2>2. PICK o, g : o = job.read /\ g = want.cond.msg
    OBVIOUS
  <2>3. Filtered(x, o, g)
    BY <2>1, <2>2
  <2>4. ControllerRef(x, routes'[x]) = ControllerRef(x, o) /\ PolicyFor(x, routes'[x], g) = PolicyFor(x, o, g)
    BY <1>1, <1>9, <2>2, SameFilter
  <2>. QED
    BY <1>9, <2>2, <2>3, <2>4 DEF FilteredIfReady, Filtered
<1>10. ASSUME routes'[x].status.cond # routes[x].status.cond, routes[x].uid = 0
       PROVE  FilteredIfReady(x)'
  <2>1. CASE ~ReportsReady(routes'[x])
    BY <2>1 DEF FilteredIfReady, ReportsReady
  <2>2. CASE ReportsReady(routes'[x])
    <3>1. routes'[x].status.cond = want.cond /\ job.read.gen = routes[x].gen
      BY <1>1, <1>2, <1>10, <2>2 DEF ReportsReady
    <3>2. job.read.uid = routes[x].uid /\ job.read.spec = routes[x].spec
      BY <1>10, <3>1, FirstCopies DEF FilterInv
    <3>. QED
      BY <1>9, <2>2, <3>1, <3>2
  <2>. QED
    BY <2>1, <2>2
<1>11. Pending(x)' \/ FilteredIfReady(x)'
  <2>1. CASE x \in wRoutes \cup queue
    BY <1>1, <2>1 DEF Pending
  <2>2. CASE job.read = routes[x]
    <3>1. CASE ~ReportsReady(routes'[x])
      BY <3>1 DEF FilteredIfReady, ReportsReady
    <3>. QED
      BY <1>1, <1>9, <2>2, <3>1
  <2>. QED
    BY <2>1, <2>2 DEF FilterInv, CopiesOlder
<1>12. ASSUME NEW r \in Routes, r # x, Pending(r) PROVE Pending(r)'
  <2>1. routes'[r] = routes[r]
    BY <1>1, <1>12
  <2>2. \A g : r \in findToolRoutesForToolGateway(routes, g)
                 => r \in findToolRoutesForToolGateway(routes', g)
    BY <2>1, SameConcern
  <2>. QED
    BY <1>1, <1>12, <2>2 DEF Pending
<1>. QED
  BY <1>1, <1>5, <1>6, <1>7, <1>8, <1>10, <1>11, <1>12, FilterKept

\* Reconcile ends, or the operator restarts, without a status patch: who was
\* waiting is queued or given up.
LEMMA GivesUpFilter ==
  ASSUME TypeOK, TypeOK', ChildLockInv, CachesSeen, FilterInv, job' = Idle,
         UNCHANGED <<routes, gateways, backends, policies>>,
         \A r \in Routes : cRoutes'[r] = cRoutes[r] \/ cRoutes'[r] = routes[r],
         \A r \in Routes : (routes[r] # None /\ Pending(r)) => Pending(r)'
  PROVE  FilterInv'
<1>1. Forward /\ StatusMoves
  <2>1. CASE \A r \in Routes : routes'[r] = routes[r] \/ r \in wRoutes'
    BY <2>1 DEF Forward, JobGoesOn, Later, StatusMoves
  <2>. QED
    BY <2>1
<1>2. FiltersKept
  BY LockUntouched, QuietFilters
<1>3. PolicyBeforeReady'
  BY DEF PolicyBeforeReady, Idle
<1>. QED
  BY <1>1, <1>2, <1>3, FilterKept

\* The end of a Reconcile whose status write reaches the API server, or finds
\* the route gone.
LEMMA StatusFilter ==
  ASSUME TypeOK, TypeOK', ChildLockInv, CachesSeen, FilterInv,
         updateStatusReady \/ updateStatusNotReady \/ updateStatusNotReadyNotFound
  PROVE  FilterInv'
<1>1. PICK x, g : x = job.route /\ g = job.gw
  OBVIOUS
<1>2. /\ job.pc \in {"ready", "notready"}
      /\ UNCHANGED <<gateways, backends, policies, caches, wGateways>>
  BY DEF updateStatusReady, updateStatusNotReady, updateStatusNotReadyNotFound, cluster, watches
<1>3. job # Idle /\ x \in Routes
  BY <1>1, <1>2, AtWork
<1>4. job' = Idle /\ queue \subseteq queue'
  <2>1. \E err \in BOOLEAN : Return(err)
    BY Zenon DEF updateStatusReady, updateStatusNotReady, updateStatusNotReadyNotFound,
                 NotReadyNotWritten
  <2>. QED
    BY <2>1 DEF Return
<1>5. CASE routes[x] = None
  <2>1. UNCHANGED <<routes, wRoutes>> /\ swallowed \subseteq swallowed'
    BY <1>1, <1>5 DEF updateStatusReady, updateStatusNotReady, updateStatusNotReadyNotFound,
                      NotReadyNotWritten, cluster, watches
  <2>2. \A r \in Routes : (routes[r] # None /\ Pending(r)) => Pending(r)'
    BY <1>1, <1>2, <1>4, <1>5, <2>1 DEF Pending
  <2>. QED
    BY <1>2, <1>4, <2>1, <2>2, GivesUpFilter DEF caches
<1>6. CASE updateStatusReady /\ routes[x] # None
  <2>1. PICK want : want = ReadyStatus(job.read, g)
    OBVIOUS
  <2>2. job.pc = "ready" /\ PatchStatus(want) /\ UNCHANGED swallowed
    BY <1>1, <1>6, <2>1 DEF updateStatusReady
  <2>3. want \in Statuses
    BY <1>1, <1>3, <2>1, <2>2, WantedStatus
  <2>4. want.cond.gen = job.read.gen /\ want.cond.msg = g /\ want.cond.status = "True"
    BY <2>1 DEF ReadyStatus
  <2>5. Live(JobRef) => Filtered(x, job.read, g)
    BY <1>1, <2>2 DEF FilterInv, PolicyBeforeReady
  <2>. QED
    BY <1>1, <1>2, <1>3, <1>4, <1>6, <2>2, <2>3, <2>4, <2>5, PatchFilter
<1>7. CASE updateStatusNotReady
  <2>1. PICK want : want = NotReadyStatus(job.read, job.reason, failureMessage)
    OBVIOUS
  <2>2. job.pc = "notready" /\ PatchStatus(want) /\ UNCHANGED swallowed /\ routes[x] # None
    BY <1>1, <1>7, <2>1 DEF updateStatusNotReady
  <2>3. want \in Statuses
    BY <1>3, <2>1, <2>2, WantedStatus
  <2>4. want.cond.gen = job.read.gen /\ want.cond.status = "False"
    <3>1. job.read.status \in Statuses
      BY <1>3, ObjectTypes
    <3>. QED
      BY <2>1, <3>1 DEF NotReadyStatus, Statuses
  <2>. QED
    BY <1>1, <1>2, <1>3, <1>4, <2>2, <2>3, <2>4, PatchFilter
<1>. QED
  BY <1>1, <1>5, <1>6, <1>7 DEF updateStatusNotReadyNotFound

\* A call that fails without effect.
LEMMA CallFailsFilter ==
  ASSUME TypeOK, TypeOK', ChildLockInv, CachesSeen, FilterInv, CallFails
  PROVE  FilterInv'
<1>1. PICK x : x = job.route
  OBVIOUS
<1>2. UNCHANGED <<cluster, caches, watches>>
  BY DEF CallFails
<1>3. UNCHANGED <<routes, gateways, backends, policies, wRoutes, wGateways>>
  BY <1>2 DEF cluster, watches
<1>4. \/ /\ job.pc \in {"backend", "httproute", "policy"} /\ UNCHANGED <<queue, swallowed>>
         /\ \E reason : FailWith(reason)
      \/ job.pc = "ready" /\ Return(TRUE) /\ UNCHANGED swallowed
      \/ job.pc = "notready" /\ NotReadyNotWritten
  BY DEF CallFails
<1>5. CASE job.pc \in {"backend", "httproute", "policy"} /\ UNCHANGED <<queue, swallowed>>
           /\ \E reason : FailWith(reason)
  <2>1. job # Idle
    BY <1>5, AtWork
  <2>2. job'.route = job.route /\ job'.read = job.read /\ job'.pc = "notready"
    BY <1>5, <2>1, AfterFailure
  <2>. QED
    BY <1>2, <1>3, <1>5, <2>1, <2>2, OtherCallsFilter
<1>6. ASSUME job' = Idle, queue \subseteq queue', swallowed \subseteq swallowed',
             x \in queue' \cup swallowed'
      PROVE  FilterInv'
  <2>1. \A r \in Routes : Pending(r) => Pending(r)'
    BY <1>1, <1>3, <1>6 DEF Pending
  <2>. QED
    BY <1>2, <1>3, <1>6, <2>1, GivesUpFilter DEF caches
<1>7. CASE job.pc = "ready" /\ Return(TRUE) /\ UNCHANGED swallowed
  BY <1>1, <1>6, <1>7 DEF Return
<1>8. CASE job.pc = "notready" /\ NotReadyNotWritten
  BY <1>1, <1>6, <1>8 DEF NotReadyNotWritten, Return
<1>. QED
  BY <1>4, <1>5, <1>7, <1>8

\* A restart queues every route.
LEMMA RestartFilter ==
  ASSUME TypeOK, TypeOK', ChildLockInv, CachesSeen, FilterInv, Restart
  PROVE  FilterInv'
<1>1. /\ job' = Idle /\ cRoutes' = routes
      /\ UNCHANGED <<routes, gateways, backends, policies>>
      /\ \A r \in Routes : routes[r] # None => r \in queue'
  BY DEF Restart, cluster
<1>2. \A r \in Routes : routes[r] # None => Pending(r)'
  BY <1>1 DEF Pending
<1>. QED
  BY <1>1, <1>2, GivesUpFilter

\* The steps of a Reconcile.
LEMMA ProceedFilter ==
  ASSUME TypeOK, TypeOK', ChildLockInv, CachesSeen, FilterInv, Proceed
  PROVE  FilterInv'
<1>1. CASE UpstreamUnresolved
  <2>1. /\ job.pc = "backend" /\ FailWith(reasonUpstreamUnresolved)
        /\ UNCHANGED <<cluster, caches, watches, queue, swallowed>>
    BY <1>1 DEF UpstreamUnresolved
  <2>2. job # Idle
    BY <2>1, AtWork
  <2>3. job'.route = job.route /\ job'.read = job.read /\ job'.pc = "notready"
    BY <2>1, <2>2, AfterFailure
  <2>4. UNCHANGED <<routes, gateways, backends, policies, wRoutes, wGateways>>
    BY <2>1 DEF cluster, watches
  <2>. QED
    BY <2>1, <2>2, <2>3, <2>4, OtherCallsFilter
<1>2. CASE ensureHTTPRoute
  <2>1. /\ job.pc = "httproute"
        /\ UNCHANGED <<routes, gateways, backends, policies, caches, wRoutes, wGateways,
                       queue, swallowed>>
    BY <1>2 DEF ensureHTTPRoute
  <2>2. FailWith(reasonHTTPRouteFailed) \/ Answered("policy", reasonHTTPRouteFailed)
    BY <1>2, Zenon DEF ensureHTTPRoute
  <2>3. job # Idle
    BY <2>1, AtWork
  <2>4. job'.route = job.route /\ job'.read = job.read /\ job'.pc \in {"notready", "policy"}
    BY <2>2, <2>3, AfterFailure, AfterAnswer
  <2>. QED
    BY <2>1, <2>3, <2>4, OtherCallsFilter
<1>. QED
  BY <1>1, <1>2, BackendFilter, PolicyFilter, StatusFilter DEF Proceed

\* FilterInv is inductive, given types, the lock and caches that have events.
LEMMA FilterStep ==
  TypeOK /\ TypeOK' /\ ChildLockInv /\ MirrorInv /\ FilterInv /\ [Next]_vars => FilterInv'
<1>. SUFFICES ASSUME TypeOK, TypeOK', ChildLockInv, CachesSeen, FilterInv, Next \/ UNCHANGED vars
              PROVE  FilterInv'
  BY DEF MirrorInv
<1>1. CASE Worker
  BY <1>1, BeginFilter, ProceedFilter, CallFailsFilter DEF Worker
<1>. QED
  BY <1>1, UsersFilter, InformersFilter, RestartFilter DEF Next

\* The invariant of the second argument holds throughout.
THEOREM FilterInvariant == Spec => []FilterInv
<1>1. Init => FilterInv
  <2>. SUFFICES ASSUME Init PROVE FilterInv
    OBVIOUS
  <2>1. job = Idle /\ cRoutes = routes
    BY DEF Init
  <2>2. ASSUME NEW r \in Routes, routes[r] # None PROVE routes[r].status.cond = None
    BY <2>2 DEF Init, NewRoute, NoStatus
  <2>3. CopiesOlder
    BY <2>1 DEF CopiesOlder, Older
  <2>4. ReadyNotAhead /\ ReadySeen /\ ReadyFiltered
    BY <2>2 DEF ReadyNotAhead, ReadySeen, ReadyFiltered, ReportsReady
  <2>5. PolicyBeforeReady
    BY <2>1 DEF PolicyBeforeReady, Idle
  <2>. QED
    BY <2>3, <2>4, <2>5 DEF FilterInv
<1>. QED
  BY <1>1, FilterStep, TypeCorrect, ChildLockInvariant, MirrorInvariant, PTL DEF Spec

\* A route that reports Ready for its present generation has, at the gateway
\* its condition names, exactly the tool filter of its spec, whatever is stale,
\* fails or is answered late; only a route created again under its name may
\* show a namesake's mark, while its own Reconcile is pending, was given up on,
\* or is not for this operator to do.
THEOREM FilterAlwaysInForce == Spec => []FilterInForce
<1>1. FilterInv => FilterInForce
  BY DEF FilterInv, ReadyFiltered, FilterInForce, Filtered, PolicyMirrored
<1>. QED
  BY <1>1, FilterInvariant, PTL
=============================================================================
