--------------------- MODULE ToolRouteReconciler_proofs ---------------------
(***************************************************************************)
(* Theorems about the ToolRoute controller, for every set of routes,       *)
(* gateways, servers and specs and every bound.                            *)
(***************************************************************************)
EXTENDS ToolRouteReconciler, KubeClient_proofs, TLAPS

-----------------------------------------------------------------------------
(* Lemmas about the operators the controller is built from.                *)

\* An upstream that resolves has a port in range: URLs are checked, and a
\* ToolServer's port is admitted by its CustomResourceDefinition.
LEMMA TargetPort ==
  ASSUME NEW ss \in [Servers -> ServerSpecs \cup {None}], NEW up, NEW ns,
         resolveRouteUpstream(ss, up, ns) # Failed
  PROVE  resolveRouteUpstream(ss, up, ns).port \in Ports
<1>1. ASSUME NEW k, toolServerUpstream(ss, k) # Failed
      PROVE  toolServerUpstream(ss, k).port \in Ports
  <2>. DEFINE ts == Get(ss, k)
              path == IF ts.path = "" THEN "/mcp" ELSE ts.path
              host == toolServerHost(k.name, k.ns)
  <2>1. ts # None /\ toolServerUpstream(ss, k) = [host |-> host, port |-> ts.port, path |-> path]
    BY <1>1 DEF toolServerUpstream
  <2>2. ts \in ServerSpecs
    BY <2>1 DEF Get
  <2>3. ts.port \in Ports
    BY <2>2, ServersAssumption
  <2>. HIDE DEF ts, path, host
  <2>. QED
    BY <2>1, <2>3
<1>2. ASSUME NEW u, externalUpstream(u) # Failed
      PROVE  externalUpstream(u).port \in Ports
  <2>. DEFINE path == IF u.path = "" THEN "/" ELSE u.path
              host == u.host
  <2>1. URLPort(u) \in Ports
    BY <1>2 DEF externalUpstream, ValidURL
  <2>2. externalUpstream(u) = [host |-> host, port |-> URLPort(u), path |-> path]
    BY <1>2 DEF externalUpstream
  <2>. HIDE DEF path, host
  <2>. QED
    BY <2>1, <2>2
<1>3. CASE up.toolServerRef # None
  <2>1. resolveRouteUpstream(ss, up, ns) = toolServerUpstream(ss, RefKey(up.toolServerRef, ns))
    BY <1>3 DEF resolveRouteUpstream
  <2>. QED
    BY <1>1, <2>1
<1>4. CASE up.toolServerRef = None
  <2>1. resolveRouteUpstream(ss, up, ns) = externalUpstream(up.external)
    BY <1>4 DEF resolveRouteUpstream
  <2>. QED
    BY <1>2, <2>1
<1>. QED
  BY <1>3, <1>4

\* A merge patch takes each field from the live object or from the wanted one.
LEMMA MergedStatus ==
  ASSUME NEW read, NEW live \in Statuses, NEW want \in Statuses
  PROVE  MergePatch(read, live, want) \in Statuses
BY DEF MergePatch, Statuses

\* A patch of an HTTPRoute yields an HTTPRoute with one of the two controllers.
LEMMA MergedHTTPRoute ==
  ASSUME NEW read, NEW live \in HTTPRoutes, NEW want \in HTTPRoutes
  PROVE  /\ MergePatch(read, live, want) \in HTTPRoutes
         /\ MergePatch(read, live, want).owner \in {live.owner, want.owner}
BY DEF MergePatch, HTTPRoutes

-----------------------------------------------------------------------------
(* Type correctness.                                                       *)

\* What a write to a ToolRoute leaves in the server and in the watch.
LEMMA RouteChangedType ==
  ASSUME TypeOK, NEW r \in Routes, NEW obj \in RouteObjects \cup {None}, RouteChanged(r, obj)
  PROVE  /\ routes' \in [Routes -> RouteObjects \cup {None}]
         /\ wRoutes' \subseteq Routes
BY DEF TypeOK, ClusterTypeOK, QueueTypeOK, RouteChanged

\* A changed HTTPRoute is an event for the controllers of both versions.
LEMMA HTTPRouteChangedType ==
  ASSUME TypeOK, NEW n \in ChildKeys, NEW obj \in HTTPRoutes \cup {None},
         HTTPRouteChanged(n, obj)
  PROVE  /\ httproutes' \in [ChildKeys -> HTTPRoutes \cup {None}]
         /\ wHTTPRoutes' \subseteq ChildKeys \X Routes
<1>1. httproutes' \in [ChildKeys -> HTTPRoutes \cup {None}]
  BY DEF TypeOK, ClusterTypeOK, HTTPRouteChanged
<1>2. ownersOf(n, httproutes[n], obj) \subseteq ChildKeys \X Routes
  BY DEF TypeOK, ClusterTypeOK, ownersOf, HTTPRoutes, Owners
<1>3. wHTTPRoutes' \subseteq ChildKeys \X Routes
  BY <1>2 DEF TypeOK, QueueTypeOK, HTTPRouteChanged
<1>. QED
  BY <1>1, <1>3

\* The children the worker computes have the types of the children.
LEMMA WantedTypes ==
  ASSUME TypeOK, job # Idle, job.pc # "notready"
  PROVE  /\ JobKey \in ChildKeys
         /\ ControllerRef(job.route, job.read) \in Owners
         /\ BackendFor(job.route, job.read, jobTarget) \in Backends
         /\ HTTPRouteFor(job.route, job.read, job.gw) \in HTTPRoutes
         /\ PolicyFor(job.route, job.read, job.gw) \in Policies \cup {None}
<1>1. job.route \in Routes /\ job.read \in RouteObjects /\ job.gw \in Gateways
  BY DEF TypeOK, JobTypeOK, Jobs
<1>2. JobKey \in ChildKeys
  BY <1>1 DEF JobKey, ChildKeys
<1>3. ControllerRef(job.route, job.read) \in Owners
  BY <1>1 DEF ControllerRef, Owners, RouteObjects
<1>4. jobTarget \in Targets
  BY <1>1 DEF jobTarget, Targets, TypeOK, CacheTypeOK, RouteObjects
<1>5. BackendFor(job.route, job.read, jobTarget) \in Backends
  BY <1>3, <1>4 DEF BackendFor, Backends
<1>6. HTTPRouteFor(job.route, job.read, job.gw) \in HTTPRoutes
  BY <1>1, <1>2, <1>3 DEF HTTPRouteFor, HTTPRoutes, JobKey
<1>7. PolicyFor(job.route, job.read, job.gw) \in Policies \cup {None}
  BY <1>1, <1>2, <1>3 DEF PolicyFor, Policies, JobKey, RouteObjects
<1>. QED
  BY <1>2, <1>3, <1>5, <1>6, <1>7

\* The initial states have the type.
LEMMA InitType == Init => TypeOK
<1>. SUFFICES ASSUME Init PROVE TypeOK
  OBVIOUS
<1>1. ASSUME NEW spec \in RouteSpecs PROVE NewRoute(0, spec) \in RouteObjects
  BY DEF NewRoute, NoStatus, RouteObjects, Statuses
<1>2. routes \in [Routes -> RouteObjects \cup {None}]
  BY <1>1 DEF Init
<1>3. ClusterTypeOK
  BY <1>2 DEF Init, ClusterTypeOK
<1>4. CacheTypeOK
  BY <1>3 DEF Init, CacheTypeOK, ClusterTypeOK
<1>5. QueueTypeOK /\ JobTypeOK /\ PortsOK
  BY DEF Init, QueueTypeOK, JobTypeOK, PortsOK
<1>6. BoundsOK
  BY BoundsAssumption DEF Init, BoundsOK
<1>. QED
  BY <1>3, <1>4, <1>5, <1>6 DEF TypeOK

\* The users' changes.
LEMMA UsersType == TypeOK /\ Users => TypeOK'
<1>. SUFFICES ASSUME TypeOK, Users PROVE TypeOK'
  OBVIOUS
<1>. USE DEF TypeOK
<1>1. ASSUME Edit, UNCHANGED <<faults, crashes>> PROVE BoundsOK' /\ edits' \in Nat
  BY <1>1, BoundsAssumption DEF Edit, BoundsOK
<1>2. ASSUME NEW r \in Routes, CreateRoute(r) PROVE TypeOK'
  <2>1. PICK spec \in RouteSpecs : RouteChanged(r, NewRoute(edits', spec))
    BY <1>2 DEF CreateRoute
  <2>2. NewRoute(edits', spec) \in RouteObjects
    BY <1>1, <1>2 DEF CreateRoute, NewRoute, NoStatus, RouteObjects, Statuses
  <2>3. routes' \in [Routes -> RouteObjects \cup {None}] /\ wRoutes' \subseteq Routes
    BY <2>1, <2>2, RouteChangedType
  <2>. QED
    BY <1>1, <1>2, <2>3 DEF CreateRoute, caches, ClusterTypeOK, CacheTypeOK, QueueTypeOK,
                            JobTypeOK, PortsOK
<1>3. ASSUME NEW r \in Routes, EditRoute(r) PROVE TypeOK'
  <2>1. PICK spec \in RouteSpecs : RouteChanged(r, EditedRoute(routes[r], spec))
    BY <1>3 DEF EditRoute
  <2>2. EditedRoute(routes[r], spec) \in RouteObjects
    <3>. DEFINE next == [routes[r] EXCEPT !.gen = @ + 1]
    <3>1. next \in RouteObjects
      BY <1>3 DEF EditRoute, ClusterTypeOK, RouteObjects
    <3>2. EditedRoute(routes[r], spec) = [next EXCEPT !.spec = spec]
      BY DEF EditedRoute
    <3>. HIDE DEF next
    <3>. QED
      BY <3>1, <3>2 DEF RouteObjects
  <2>3. routes' \in [Routes -> RouteObjects \cup {None}] /\ wRoutes' \subseteq Routes
    BY <2>1, <2>2, RouteChangedType
  <2>. QED
    BY <1>1, <1>3, <2>3 DEF EditRoute, caches, ClusterTypeOK, CacheTypeOK, QueueTypeOK,
                            JobTypeOK, PortsOK
<1>4. ASSUME NEW r \in Routes, DeleteRoute(r) PROVE TypeOK'
  <2>1. routes' \in [Routes -> RouteObjects \cup {None}] /\ wRoutes' \subseteq Routes
    BY <1>4, RouteChangedType DEF DeleteRoute
  <2>. QED
    BY <1>1, <1>4, <2>1 DEF DeleteRoute, caches, ClusterTypeOK, CacheTypeOK, QueueTypeOK,
                            JobTypeOK, PortsOK
<1>5. ASSUME NEW g \in Gateways, SetGateway(g) PROVE TypeOK'
  BY <1>1, <1>5 DEF SetGateway, caches, ClusterTypeOK, CacheTypeOK, QueueTypeOK,
                    JobTypeOK, PortsOK
<1>6. ASSUME NEW s \in Servers, SetServer(s) PROVE TypeOK'
  BY <1>1, <1>6 DEF SetServer, caches, ClusterTypeOK, CacheTypeOK, QueueTypeOK,
                    JobTypeOK, PortsOK
<1>7. ASSUME NEW n \in ChildKeys, TamperHTTPRoute(n) PROVE TypeOK'
  <2>1. PICK obj \in {None, [httproutes[n] EXCEPT !.rules = None]} : HTTPRouteChanged(n, obj)
    BY <1>7 DEF TamperHTTPRoute
  <2>2. obj \in HTTPRoutes \cup {None}
    BY <1>7 DEF TamperHTTPRoute, ClusterTypeOK, HTTPRoutes
  <2>3. /\ httproutes' \in [ChildKeys -> HTTPRoutes \cup {None}]
        /\ wHTTPRoutes' \subseteq ChildKeys \X Routes
    BY <2>1, <2>2, HTTPRouteChangedType
  <2>. QED
    BY <1>1, <1>7, <2>3 DEF TamperHTTPRoute, caches, ClusterTypeOK, CacheTypeOK,
                            QueueTypeOK, JobTypeOK, PortsOK
<1>. QED
  BY <1>2, <1>3, <1>4, <1>5, <1>6, <1>7 DEF Users

\* The garbage collector keeps the type.
LEMMA GarbageCollectorType == TypeOK /\ GarbageCollector => TypeOK'
<1>. SUFFICES ASSUME TypeOK, GarbageCollector PROVE TypeOK'
  OBVIOUS
<1>. USE DEF TypeOK
<1>1. ASSUME NEW n \in ChildKeys, CollectBackend(n) PROVE TypeOK'
  BY <1>1 DEF CollectBackend, caches, watches, ClusterTypeOK, CacheTypeOK, QueueTypeOK,
              JobTypeOK, PortsOK, BoundsOK
<1>2. ASSUME NEW n \in ChildKeys, CollectHTTPRoute(n) PROVE TypeOK'
  <2>1. /\ httproutes' \in [ChildKeys -> HTTPRoutes \cup {None}]
        /\ wHTTPRoutes' \subseteq ChildKeys \X Routes
    BY <1>2, HTTPRouteChangedType DEF CollectHTTPRoute
  <2>. QED
    BY <1>2, <2>1 DEF CollectHTTPRoute, caches, ClusterTypeOK, CacheTypeOK, QueueTypeOK,
                      JobTypeOK, PortsOK, BoundsOK
<1>3. ASSUME NEW n \in ChildKeys, CollectPolicy(n) PROVE TypeOK'
  BY <1>3 DEF CollectPolicy, caches, watches, ClusterTypeOK, CacheTypeOK, QueueTypeOK,
              JobTypeOK, PortsOK, BoundsOK
<1>. QED
  BY <1>1, <1>2, <1>3 DEF GarbageCollector

\* Informers and event handlers keep the type.
LEMMA InformersType == TypeOK /\ Informers => TypeOK'
<1>. SUFFICES ASSUME TypeOK, Informers PROVE TypeOK'
  OBVIOUS
<1>. USE DEF TypeOK, cluster, caches, watches, ClusterTypeOK, CacheTypeOK, QueueTypeOK,
             JobTypeOK, PortsOK, BoundsOK
<1>1. ASSUME NEW r \in Routes, SyncRoute(r) PROVE TypeOK'
  BY <1>1 DEF SyncRoute
<1>2. ASSUME NEW r \in Routes, HandleRoute(r) PROVE TypeOK'
  BY <1>2 DEF HandleRoute
<1>3. ASSUME NEW g \in Gateways, SyncGateway(g) PROVE TypeOK'
  BY <1>3 DEF SyncGateway
<1>4. ASSUME NEW g \in Gateways, HandleGateway(g) PROVE TypeOK'
  BY <1>4 DEF HandleGateway, findToolRoutesForToolGateway
<1>5. ASSUME NEW s \in Servers, SyncServer(s) PROVE TypeOK'
  BY <1>5 DEF SyncServer
<1>6. ASSUME NEW s \in Servers, HandleServer(s) PROVE TypeOK'
  BY <1>6 DEF HandleServer, findToolRoutesForToolServer
<1>7. ASSUME NEW n \in ChildKeys, SyncHTTPRoute(n) PROVE TypeOK'
  BY <1>7 DEF SyncHTTPRoute
<1>8. ASSUME NEW n \in ChildKeys, HandleHTTPRoute(n) PROVE TypeOK'
  BY <1>8 DEF HandleHTTPRoute
<1>. QED
  BY <1>1, <1>2, <1>3, <1>4, <1>5, <1>6, <1>7, <1>8 DEF Informers

\* A job that goes on, fails or ends.
LEMMA JobSteps ==
  ASSUME TypeOK, job # Idle
  PROVE  /\ \A reason \in Reasons : FailWith(reason) => JobTypeOK'
         /\ job.pc # "notready" =>
              \A pc \in {"httproute", "policy", "ready"} : job' = [job EXCEPT !.pc = pc] => JobTypeOK'
         /\ \A err : Return(err) => JobTypeOK' /\ queue' \subseteq Routes
<1>. USE DEF TypeOK, JobTypeOK, Jobs
<1>1. ASSUME NEW reason \in Reasons, FailWith(reason) PROVE JobTypeOK'
  <2>. DEFINE failed == [job EXCEPT !.pc = "notready"]
  <2>1. failed \in Jobs /\ failed.pc = "notready"
    OBVIOUS
  <2>2. job' = [failed EXCEPT !.reason = reason]
    BY <1>1 DEF FailWith
  <2>. HIDE DEF failed
  <2>. QED
    BY <2>1, <2>2
<1>2. ASSUME job.pc # "notready", NEW pc \in {"httproute", "policy", "ready"},
             job' = [job EXCEPT !.pc = pc]
      PROVE  JobTypeOK'
  BY <1>2
<1>3. ASSUME NEW err, Return(err) PROVE JobTypeOK' /\ queue' \subseteq Routes
  BY <1>3 DEF Return, QueueTypeOK
<1>. QED
  BY <1>1, <1>2, <1>3

\* The reads at the start of Reconcile keep the type.
LEMMA BeginType == TypeOK /\ (\E r \in Routes : Begin(r)) => TypeOK'
<1>. SUFFICES ASSUME TypeOK, NEW r \in Routes, Begin(r) PROVE TypeOK'
  OBVIOUS
<1>. USE DEF TypeOK
<1>1. ASSUME Dequeue(r), UNCHANGED <<cluster, caches, watches, edits, faults, crashes>>, JobTypeOK'
      PROVE  TypeOK'
  BY <1>1 DEF Dequeue, cluster, caches, watches, ClusterTypeOK, CacheTypeOK, QueueTypeOK,
              PortsOK, BoundsOK
<1>2. CASE BeginNotFound(r)
  BY <1>1, <1>2 DEF BeginNotFound, Dequeue, JobTypeOK
<1>3. CASE BeginNotOwned(r)
  BY <1>1, <1>3 DEF BeginNotOwned, Dequeue, JobTypeOK
<1>4. ASSUME cRoutes[r] # None PROVE cRoutes[r] \in RouteObjects
  BY <1>4 DEF CacheTypeOK
<1>5. ASSUME cRoutes[r] # None PROVE gatewayKeys(r) \subseteq GatewayKeys
  <2>1. cRoutes[r].spec \in RouteSpecs
    BY <1>4, <1>5 DEF RouteObjects
  <2>. QED
    BY <2>1 DEF gatewayKeys, resolveToolGatewayKey, GatewayKeys, RefKeys, CacheTypeOK
<1>6. CASE BeginGatewayNotFound(r)
  <2>1. PICK g \in gatewayKeys(r) \cup {None} :
          job' = [pc |-> "notready", route |-> r, read |-> cRoutes[r], gw |-> g,
                  reason |-> reasonGatewayNotFound]
    BY <1>6 DEF BeginGatewayNotFound
  <2>2. g \in GatewayKeys
    BY <1>5, <1>6 DEF BeginGatewayNotFound, GatewayKeys
  <2>3. cRoutes[r] \in RouteObjects
    BY <1>4, <1>6 DEF BeginGatewayNotFound
  <2>4. JobTypeOK'
    BY <2>1, <2>2, <2>3 DEF JobTypeOK, Jobs, Reasons
  <2>. QED
    BY <1>1, <1>6, <2>4 DEF BeginGatewayNotFound
<1>7. CASE BeginOwned(r)
  <2>1. PICK g \in gatewayKeys(r) :
          /\ Get(cGateways, g) # None
          /\ job' = [pc |-> "backend", route |-> r, read |-> cRoutes[r], gw |-> g,
                     reason |-> None]
    BY <1>7 DEF BeginOwned
  <2>2. g \in Gateways /\ g \in GatewayKeys
    BY <2>1 DEF Get, CacheTypeOK, GatewayKeys
  <2>3. cRoutes[r] \in RouteObjects
    BY <1>4, <1>7 DEF BeginOwned
  <2>4. JobTypeOK'
    BY <2>1, <2>2, <2>3 DEF JobTypeOK, Jobs
  <2>. QED
    BY <1>1, <1>7, <2>4 DEF BeginOwned
<1>. QED
  BY <1>2, <1>3, <1>6, <1>7 DEF Begin

\* The calls of Reconcile that write keep the type.
LEMMA ProceedType == TypeOK /\ Proceed => TypeOK'
<1>. SUFFICES ASSUME TypeOK, Proceed PROVE TypeOK'
  OBVIOUS
<1>. USE DEF TypeOK
<1>1. ASSUME Fault, UNCHANGED <<edits, crashes>> PROVE BoundsOK'
  BY <1>1, BoundsAssumption DEF Fault, BoundsOK
<1>2. ASSUME job # Idle, job.pc # "notready", NEW pc \in {"httproute", "policy", "ready"},
             NEW reason \in Reasons, Answered(pc, reason), UNCHANGED <<edits, crashes>>
      PROVE  JobTypeOK' /\ BoundsOK'
  BY <1>1, <1>2, JobSteps DEF Answered, BoundsOK
<1>3. CASE UpstreamUnresolved
  <2>1. JobTypeOK'
    BY <1>3, JobSteps DEF UpstreamUnresolved, Reasons, Idle
  <2>. QED
    BY <1>3, <2>1 DEF UpstreamUnresolved, cluster, caches, watches, ClusterTypeOK,
                      CacheTypeOK, QueueTypeOK, PortsOK, BoundsOK
<1>4. CASE ensureBackend
  <2>. DEFINE want == BackendFor(job.route, job.read, jobTarget)
              new  == CreateOrPatch(backends[JobKey], backends[JobKey], want)
  <2>0. job # Idle /\ job.pc # "notready"
    BY <1>4 DEF ensureBackend, Idle
  <2>1. JobTypeOK' /\ BoundsOK'
    BY <1>2, <1>4, <2>0, JobSteps DEF ensureBackend, Reasons, BoundsOK
  <2>2. CASE new = Failed
    <3>1. UNCHANGED backends
      BY <1>4, <2>2 DEF ensureBackend
    <3>. QED
      BY <1>4, <2>1, <3>1 DEF ensureBackend, caches, watches, ClusterTypeOK, CacheTypeOK,
                              QueueTypeOK, PortsOK
  <2>3. CASE new # Failed
    <3>1. want = [f \in DOMAIN want |-> want[f]] /\ want.targets = jobTarget
      BY DEF BackendFor
    <3>2. backends' = [backends EXCEPT ![JobKey] = want]
      <4>1. new = want
        BY <2>3, <3>1, PatchLive
      <4>. QED
        BY <1>4, <2>3, <4>1 DEF ensureBackend
    <3>3. JobKey \in ChildKeys /\ want \in Backends
      BY <2>0, WantedTypes
    <3>4. want.targets.port \in Ports
      BY <1>4, <3>1, TargetPort DEF ensureBackend, jobTarget, CacheTypeOK
    <3>. HIDE DEF want
    <3>5. ClusterTypeOK' /\ PortsOK'
      BY <1>4, <3>2, <3>3, <3>4 DEF ensureBackend, ClusterTypeOK, PortsOK
    <3>. QED
      BY <1>4, <2>1, <3>5 DEF ensureBackend, caches, watches, CacheTypeOK, QueueTypeOK
  <2>. QED
    BY <2>2, <2>3
<1>5. CASE ensureHTTPRoute
  <2>. DEFINE want == HTTPRouteFor(job.route, job.read, job.gw)
              new  == CreateOrPatch(cHTTPRoutes[JobKey], httproutes[JobKey], want)
  <2>0. job # Idle /\ job.pc # "notready"
    BY <1>5 DEF ensureHTTPRoute, Idle
  <2>1. JobTypeOK' /\ BoundsOK'
    BY <1>2, <1>5, <2>0, JobSteps DEF ensureHTTPRoute, Reasons, BoundsOK
  <2>2. /\ httproutes' \in [ChildKeys -> HTTPRoutes \cup {None}]
        /\ wHTTPRoutes' \subseteq ChildKeys \X Routes
    <3>1. CASE new = Failed
      BY <1>5, <3>1 DEF ensureHTTPRoute, ClusterTypeOK, QueueTypeOK
    <3>2. CASE new # Failed
      <4>1. JobKey \in ChildKeys /\ want \in HTTPRoutes
        BY <2>0, WantedTypes
      <4>2. httproutes[JobKey] \in HTTPRoutes \cup {None}
        BY <4>1 DEF ClusterTypeOK
      <4>3. HTTPRouteChanged(JobKey, new)
        BY <1>5, <3>2 DEF ensureHTTPRoute
      <4>4. new \in HTTPRoutes \cup {None}
        <5>. HIDE DEF want
        <5>. QED
          BY <3>2, <4>1, <4>2, PatchCached, MergedHTTPRoute
      <4>. QED
        BY <4>1, <4>3, <4>4, HTTPRouteChangedType
    <3>. QED
      BY <3>1, <3>2
  <2>. QED
    BY <1>5, <2>1, <2>2 DEF ensureHTTPRoute, caches, ClusterTypeOK, CacheTypeOK,
                            QueueTypeOK, PortsOK
<1>6. CASE ensurePolicy
  <2>. DEFINE want == PolicyFor(job.route, job.read, job.gw)
              new  == IF want = None THEN None
                      ELSE CreateOrPatch(policies[JobKey], policies[JobKey], want)
  <2>0. job # Idle /\ job.pc # "notready"
    BY <1>6 DEF ensurePolicy, Idle
  <2>1. JobTypeOK' /\ BoundsOK'
    BY <1>2, <1>6, <2>0, JobSteps DEF ensurePolicy, Reasons, BoundsOK
  <2>2. policies' \in [ChildKeys -> Policies \cup {None}]
    <3>1. CASE new = Failed
      BY <1>6, <3>1 DEF ensurePolicy, ClusterTypeOK
    <3>2. CASE new # Failed
      <4>1. JobKey \in ChildKeys /\ want \in Policies \cup {None}
        BY <2>0, WantedTypes
      <4>2. new = want
        <5>1. want \in Policies => want = [f \in DOMAIN want |-> want[f]]
          BY DEF Policies
        <5>. HIDE DEF want
        <5>. QED
          BY <3>2, <4>1, <5>1, PatchLive
      <4>3. policies' = [policies EXCEPT ![JobKey] = want]
        BY <1>6, <3>2, <4>2 DEF ensurePolicy
      <4>. QED
        BY <4>1, <4>3 DEF ClusterTypeOK
    <3>. QED
      BY <3>1, <3>2
  <2>. QED
    BY <1>6, <2>1, <2>2 DEF ensurePolicy, caches, watches, ClusterTypeOK, CacheTypeOK,
                            QueueTypeOK, PortsOK
<1>7. ASSUME job # Idle, routes[job.route] # None, NEW want \in Statuses, PatchStatus(want)
      PROVE  routes' \in [Routes -> RouteObjects \cup {None}] /\ wRoutes' \subseteq Routes
  <2>. DEFINE live == routes[job.route]
              status == MergePatch(job.read.status, live.status, want)
  <2>1. job.route \in Routes
    BY <1>7 DEF JobTypeOK, Jobs
  <2>2. live \in RouteObjects /\ live.status \in Statuses
    BY <1>7, <2>1 DEF ClusterTypeOK, RouteObjects
  <2>3. status \in Statuses
    BY <2>2, MergedStatus
  <2>4. RouteChanged(job.route, [live EXCEPT !.status = status])
    BY <1>7 DEF PatchStatus
  <2>5. [live EXCEPT !.status = status] \in RouteObjects
    <3>. HIDE DEF live, status
    <3>. QED
      BY <2>2, <2>3 DEF RouteObjects
  <2>. QED
    BY <2>1, <2>4, <2>5, RouteChangedType
<1>8. CASE updateStatusReady
  <2>0. job # Idle /\ job.read \in RouteObjects /\ job.gw \in Gateways
    BY <1>8 DEF updateStatusReady, Idle, JobTypeOK, Jobs
  <2>1. ReadyStatus(job.read, job.gw) \in Statuses
    BY <2>0 DEF ReadyStatus, Statuses, Conditions, Reasons, Messages, GatewayKeys, RouteObjects
  <2>2. routes' \in [Routes -> RouteObjects \cup {None}] /\ wRoutes' \subseteq Routes
    BY <1>7, <1>8, <2>0, <2>1 DEF updateStatusReady, ClusterTypeOK, QueueTypeOK
  <2>3. PICK err : Return(err)
    BY <1>8 DEF updateStatusReady
  <2>4. JobTypeOK' /\ queue' \subseteq Routes
    BY <2>0, <2>3, JobSteps
  <2>5. BoundsOK'
    BY <1>1, <1>8 DEF updateStatusReady, BoundsOK
  <2>. QED
    BY <1>8, <2>2, <2>4, <2>5 DEF updateStatusReady, caches, ClusterTypeOK, CacheTypeOK,
                                  QueueTypeOK, PortsOK
<1>9. CASE updateStatusNotReady
  <2>. DEFINE want == NotReadyStatus(job.read, job.reason, failureMessage)
  <2>0. job # Idle /\ job \in Jobs /\ job.read \in RouteObjects
    BY <1>9 DEF updateStatusNotReady, Idle, JobTypeOK, Jobs
  <2>1. want \in Statuses
    <3>1. job.reason \in Reasons
      BY <1>9, <2>0 DEF updateStatusNotReady, JobTypeOK
    <3>2. failureMessage \in Messages
      BY <2>0 DEF failureMessage, Messages, Jobs, RouteObjects
    <3>. QED
      BY <2>0, <3>1, <3>2 DEF NotReadyStatus, Statuses, Conditions, RouteObjects
  <2>2. routes' \in [Routes -> RouteObjects \cup {None}] /\ wRoutes' \subseteq Routes
    BY <1>7, <1>9, <2>0, <2>1 DEF updateStatusNotReady
  <2>3. JobTypeOK' /\ queue' \subseteq Routes
    BY <1>9, <2>0, JobSteps DEF updateStatusNotReady
  <2>. QED
    BY <1>9, <2>2, <2>3 DEF updateStatusNotReady, caches, ClusterTypeOK, CacheTypeOK,
                            QueueTypeOK, PortsOK, BoundsOK
<1>10. CASE updateStatusNotReadyNotFound
  <2>0. job # Idle /\ job.route \in Routes
    BY <1>10 DEF updateStatusNotReadyNotFound, Idle, JobTypeOK, Jobs
  <2>1. JobTypeOK' /\ queue' \subseteq Routes
    BY <1>10, <2>0, JobSteps DEF updateStatusNotReadyNotFound, NotReadyNotWritten
  <2>. QED
    BY <1>10, <2>0, <2>1 DEF updateStatusNotReadyNotFound, NotReadyNotWritten, cluster, caches,
                       watches, ClusterTypeOK, CacheTypeOK, QueueTypeOK, PortsOK, BoundsOK
<1>. QED
  BY <1>3, <1>4, <1>5, <1>6, <1>8, <1>9, <1>10 DEF Proceed

\* A failed call keeps the type.
LEMMA CallFailsType == TypeOK /\ CallFails => TypeOK'
<1>. SUFFICES ASSUME TypeOK, CallFails PROVE TypeOK'
  OBVIOUS
<1>. USE DEF TypeOK
<1>0. job # Idle
  <2>1. job.pc \in {"backend", "httproute", "policy", "ready", "notready"}
    BY DEF CallFails
  <2>. QED
    BY <2>1 DEF Idle
<1>1. BoundsOK'
  BY BoundsAssumption DEF CallFails, Fault, BoundsOK
<1>2. JobTypeOK' /\ queue' \subseteq Routes
  BY <1>0, JobSteps DEF CallFails, Reasons, NotReadyNotWritten, QueueTypeOK
<1>3. swallowed' \subseteq Routes
  BY <1>0 DEF CallFails, NotReadyNotWritten, QueueTypeOK, JobTypeOK, Jobs
<1>. QED
  BY <1>1, <1>2, <1>3 DEF CallFails, cluster, caches, watches, ClusterTypeOK, CacheTypeOK,
                          QueueTypeOK, PortsOK

\* A restart keeps the type.
LEMMA RestartType == TypeOK /\ Restart => TypeOK'
BY BoundsAssumption DEF TypeOK, Restart, cluster, ClusterTypeOK, CacheTypeOK, QueueTypeOK,
                        JobTypeOK, PortsOK, BoundsOK

\* Every step keeps the type.
LEMMA NextType == TypeOK /\ [Next]_vars => TypeOK'
<1>. SUFFICES ASSUME TypeOK, [Next]_vars PROVE TypeOK'
  OBVIOUS
<1>1. CASE UNCHANGED vars
  BY <1>1 DEF vars, cluster, caches, watches, TypeOK, ClusterTypeOK, CacheTypeOK, QueueTypeOK,
              JobTypeOK, PortsOK, BoundsOK
<1>. QED
  BY <1>1, UsersType, GarbageCollectorType, InformersType, BeginType, ProceedType,
     CallFailsType, RestartType DEF Next, Worker

\* Whatever users write, whatever is stale, lost or restarted, every object the
\* controller writes is one of the children, statuses and owners the code can
\* compute; every Backend has a port in range and every failure a reason.
THEOREM TypeCorrect == Spec => []TypeOK
BY InitType, NextType, PTL DEF Spec

-----------------------------------------------------------------------------
(* The Backend as the lock of a child name.                                *)
(*                                                                         *)
(* Most steps are benign: they revive no owner (a route created anew has a *)
(* new uid), they remove a Backend only when its owner is gone, they give  *)
(* no child another controller, they bring the cache of a route up to date *)
(* or leave it, and they leave the worker where it is, let it fail or end. *)

SameController(old, new) == new = None \/ (old # None /\ new.owner = old.owner)

BenignRoutes ==
  /\ edits <= edits'
  /\ \A r \in Routes : routes'[r] # None => routes'[r].uid <= edits'
  /\ \A o \in Owners : (o.uid <= edits /\ Live(o)') => Live(o)

BenignChildren ==
  /\ \A n \in ChildKeys : \/ backends'[n] = backends[n]
                          \/ backends'[n] = None /\ Garbage(backends[n])
  /\ \A n \in ChildKeys : SameController(httproutes[n], httproutes'[n])
  /\ \A n \in ChildKeys : SameController(policies[n], policies'[n])

BenignCache == \A r \in Routes : cRoutes'[r] = cRoutes[r] \/ cRoutes'[r] = routes'[r]

BenignJob ==
  \/ job' = Idle
  \/ /\ job # Idle
     /\ job'.route = job.route /\ job'.read = job.read /\ job'.gw = job.gw
     /\ job'.pc = job.pc \/ job'.pc \notin {"httproute", "policy"}

\* Steps that create no route, give no child a new controller and start no job
\* keep the lock.
LEMMA BenignSteps ==
  ASSUME TypeOK, TypeOK', ChildLockInv,
         BenignRoutes, BenignChildren, BenignCache, BenignJob
  PROVE  ChildLockInv'
<1>. USE DEF ChildLockInv
<1>1. edits \in Nat /\ edits' \in Nat
  BY BoundsAssumption DEF TypeOK, BoundsOK
<1>2. job # Idle => /\ job.route \in Routes /\ job.read \in RouteObjects /\ JobRef \in Owners
                    /\ job.read.uid \in Nat
  BY DEF TypeOK, JobTypeOK, Jobs, JobRef, ControllerRef, Owners, RouteObjects
<1>3. job' # Idle => job # Idle /\ JobRef' = JobRef
  BY DEF BenignJob, JobRef, ControllerRef
<1>4. \A n \in ChildKeys : /\ backends[n] # None => backends[n].owner \in Owners
                           /\ httproutes[n] # None => httproutes[n].owner \in Owners
                           /\ policies[n] # None => policies[n].owner \in Owners
  BY DEF TypeOK, ClusterTypeOK, Backends, HTTPRoutes, Policies
<1>5. \A o \in Owners : o.uid \in Nat /\ o.key \in Routes
  BY DEF Owners
<1>6. UidsOld'
  <2>1. \A n \in ChildKeys : /\ backends'[n] # None => backends'[n].owner.uid <= edits'
                             /\ httproutes'[n] # None => httproutes'[n].owner.uid <= edits'
                             /\ policies'[n] # None => policies'[n].owner.uid <= edits'
    BY <1>1, <1>4, <1>5 DEF UidsOld, AllChildren, BenignRoutes, BenignChildren, SameController
  <2>2. job' # Idle => job'.read.uid <= edits'
    BY <1>1, <1>2, <1>3 DEF UidsOld, BenignRoutes, BenignJob
  <2>3. \A r \in Routes : cRoutes'[r] # None => cRoutes'[r].uid <= edits'
    BY <1>1 DEF UidsOld, BenignRoutes, BenignCache, TypeOK, CacheTypeOK, RouteObjects
  <2>. QED
    BY <2>1, <2>2, <2>3 DEF UidsOld, AllChildren, BenignRoutes
<1>7. CacheCaughtUp'
  <2>1. ASSUME NEW o \in Owners, Live(o)', o.uid <= edits,
               cRoutes[o.key] # None, cRoutes[o.key].uid = o.uid
        PROVE  cRoutes'[o.key] # None /\ cRoutes'[o.key].uid = o.uid
    BY <1>5, <2>1 DEF BenignCache, Live
  <2>2. ASSUME NEW n \in ChildKeys, NEW c \in {backends, httproutes, policies}, NEW o \in Owners,
               c[n] # None, c[n].owner = o, Live(o)'
        PROVE  cRoutes'[o.key] # None /\ cRoutes'[o.key].uid = o.uid
    BY <2>1, <2>2 DEF CacheCaughtUp, UidsOld, AllChildren, BenignRoutes
  <2>3. ASSUME NEW n \in ChildKeys, NEW c \in {backends, httproutes, policies}',
               c[n] # None, Live(c[n].owner)'
        PROVE  cRoutes'[c[n].owner.key] # None /\ cRoutes'[c[n].owner.key].uid = c[n].owner.uid
    <3>1. PICK d \in {backends, httproutes, policies} : d[n] # None /\ c[n].owner = d[n].owner
      BY <2>3 DEF BenignChildren, SameController
    <3>. QED
      BY <1>4, <2>2, <2>3, <3>1
  <2>4. ASSUME job' # Idle, Live(JobRef)'
        PROVE  cRoutes'[job'.route] # None /\ cRoutes'[job'.route].uid = job'.read.uid
    BY <1>2, <1>3, <2>1, <2>4 DEF CacheCaughtUp, UidsOld, BenignRoutes, BenignJob, JobRef, ControllerRef, Live
  <2>. QED
    BY <2>3, <2>4 DEF CacheCaughtUp, AllChildren
<1>8. JobNotOutdated'
  BY <1>3, <1>4 DEF JobNotOutdated, BenignJob, BenignChildren, BenignRoutes, UidsOld, AllChildren
<1>9. BackendIsLock'
  BY <1>4 DEF BackendIsLock, BenignChildren, SameController, BenignRoutes, Garbage, UidsOld, AllChildren
<1>10. WorkerHoldsLock'
  <2>. SUFFICES ASSUME job'.pc \in {"httproute", "policy"}
                PROVE  /\ backends'[JobKey'] # None => backends'[JobKey'].owner.key = job'.route
                       /\ Live(JobRef)' => /\ backends'[JobKey'] # None
                                           /\ backends'[JobKey'].owner = JobRef'
    BY DEF WorkerHoldsLock
  <2>1. job' # Idle /\ job # Idle /\ job.pc = job'.pc /\ job'.route = job.route
    BY DEF BenignJob, Idle
  <2>2. JobKey' = JobKey /\ JobRef' = JobRef
    BY <1>3, <2>1 DEF BenignJob, JobKey
  <2>3. JobKey \in ChildKeys
    BY <2>1, WantedTypes
  <2>4. Live(JobRef)' => Live(JobRef)
    BY <1>2, <2>1, <2>2 DEF BenignRoutes, UidsOld, JobRef, ControllerRef, Live
  <2>. QED
    BY <2>1, <2>2, <2>3, <2>4 DEF WorkerHoldsLock, BenignChildren, Garbage
<1>. QED
  BY <1>6, <1>7, <1>8, <1>9, <1>10

\* No child exists at first.
LEMMA InitLock == Init => ChildLockInv
<1>. SUFFICES ASSUME Init PROVE ChildLockInv
  OBVIOUS
<1>1. \A r \in Routes : routes[r] # None => routes[r].uid <= edits
  BY DEF Init, NewRoute
<1>. QED
  BY <1>1 DEF Init, ChildLockInv, UidsOld, CacheCaughtUp, JobNotOutdated, BackendIsLock,
              WorkerHoldsLock, AllChildren, Idle

\* Users: a new route has a new uid, an edit keeps it.
LEMMA UsersLock == TypeOK /\ TypeOK' /\ ChildLockInv /\ Users => ChildLockInv'
<1>. SUFFICES ASSUME TypeOK, TypeOK', ChildLockInv, Users PROVE ChildLockInv'
  OBVIOUS
<1>0. edits \in Nat /\ edits' \in Nat /\ edits' = edits + 1
  <2>1. Edit
    BY Zenon DEF Users, CreateRoute, EditRoute, DeleteRoute, SetGateway, SetServer, TamperHTTPRoute
  <2>. QED
    BY <2>1, BoundsAssumption DEF Edit, TypeOK, BoundsOK
<1>1. \A r \in Routes : routes[r] # None => routes[r].uid \in Nat /\ routes[r].uid <= edits
  BY DEF ChildLockInv, UidsOld, TypeOK, ClusterTypeOK, RouteObjects
<1>2. BenignRoutes
  <2>1. ASSUME NEW r \in Routes, NEW obj, RouteChanged(r, obj),
               \/ obj = None \/ obj.uid = edits + 1
               \/ routes[r] # None /\ obj.uid = routes[r].uid
        PROVE  BenignRoutes
    BY <1>0, <1>1, <2>1 DEF RouteChanged, BenignRoutes, Live, Owners, TypeOK, ClusterTypeOK
  <2>2. ASSUME NEW r \in Routes, CreateRoute(r) PROVE BenignRoutes
    <3>1. PICK spec \in RouteSpecs : RouteChanged(r, NewRoute(edits', spec))
      BY <2>2 DEF CreateRoute
    <3>2. NewRoute(edits', spec).uid = edits + 1
      BY <1>0 DEF NewRoute
    <3>. QED
      BY <2>1, <3>1, <3>2
  <2>3. ASSUME NEW r \in Routes, EditRoute(r) PROVE BenignRoutes
    <3>1. PICK spec \in RouteSpecs : RouteChanged(r, EditedRoute(routes[r], spec))
      BY <2>3 DEF EditRoute
    <3>2. routes[r] # None /\ routes[r] \in RouteObjects
      BY <2>3 DEF EditRoute, TypeOK, ClusterTypeOK
    <3>3. EditedRoute(routes[r], spec).uid = routes[r].uid
      <4>. DEFINE next == [routes[r] EXCEPT !.gen = @ + 1]
      <4>1. next.uid = routes[r].uid /\ next \in RouteObjects
        BY <3>2 DEF RouteObjects
      <4>2. EditedRoute(routes[r], spec) = [next EXCEPT !.spec = spec]
        BY DEF EditedRoute
      <4>. HIDE DEF next
      <4>. QED
        BY <4>1, <4>2 DEF RouteObjects
    <3>. QED
      BY <2>1, <3>1, <3>2, <3>3
  <2>4. ASSUME NEW r \in Routes, DeleteRoute(r) PROVE BenignRoutes
    BY <2>1, <2>4 DEF DeleteRoute
  <2>5. ASSUME UNCHANGED routes PROVE BenignRoutes
    BY <1>0, <1>1, <2>5 DEF BenignRoutes, Live
  <2>. QED
    BY <2>2, <2>3, <2>4, <2>5 DEF Users, SetGateway, SetServer, TamperHTTPRoute
<1>3. BenignChildren
  <2>1. ASSUME NEW n \in ChildKeys, TamperHTTPRoute(n) PROVE BenignChildren
    <3>1. PICK obj \in {None, [httproutes[n] EXCEPT !.rules = None]} : HTTPRouteChanged(n, obj)
      BY <2>1 DEF TamperHTTPRoute
    <3>2. SameController(httproutes[n], obj)
      BY <2>1 DEF TamperHTTPRoute, SameController, TypeOK, ClusterTypeOK, HTTPRoutes
    <3>. QED
      BY <2>1, <3>1, <3>2 DEF TamperHTTPRoute, HTTPRouteChanged, BenignChildren, SameController,
                              TypeOK, ClusterTypeOK
  <2>2. ASSUME UNCHANGED <<backends, httproutes, policies>> PROVE BenignChildren
    BY <2>2 DEF BenignChildren, SameController
  <2>. QED
    BY <2>1, <2>2 DEF Users, CreateRoute, EditRoute, DeleteRoute, SetGateway, SetServer
<1>4. BenignCache /\ BenignJob
  BY DEF Users, CreateRoute, EditRoute, DeleteRoute, SetGateway, SetServer, TamperHTTPRoute,
         caches, BenignCache, BenignJob
<1>. QED
  BY <1>2, <1>3, <1>4, BenignSteps

\* Steps that leave the routes alone.
LEMMA RoutesKept ==
  ASSUME TypeOK, ChildLockInv, UNCHANGED <<routes, edits>>
  PROVE  BenignRoutes
<1>1. edits \in Nat
  BY BoundsAssumption DEF TypeOK, BoundsOK
<1>. QED
  BY <1>1 DEF BenignRoutes, Live, ChildLockInv, UidsOld

\* Children that do not change keep their controllers.
LEMMA ChildrenKept ==
  ASSUME UNCHANGED <<backends, httproutes, policies>>
  PROVE  BenignChildren
BY DEF BenignChildren, SameController

\* The garbage collector takes children of routes that are gone only.
LEMMA GarbageCollectorLock ==
  TypeOK /\ TypeOK' /\ ChildLockInv /\ GarbageCollector => ChildLockInv'
<1>. SUFFICES ASSUME TypeOK, TypeOK', ChildLockInv, GarbageCollector PROVE ChildLockInv'
  OBVIOUS
<1>1. BenignRoutes
  BY RoutesKept DEF GarbageCollector, CollectBackend, CollectHTTPRoute, CollectPolicy
<1>2. BenignChildren
  BY DEF GarbageCollector, CollectBackend, CollectHTTPRoute, CollectPolicy, HTTPRouteChanged,
         BenignChildren, SameController, TypeOK, ClusterTypeOK
<1>3. BenignCache /\ BenignJob
  BY DEF GarbageCollector, CollectBackend, CollectHTTPRoute, CollectPolicy, caches,
         BenignCache, BenignJob
<1>. QED
  BY <1>1, <1>2, <1>3, BenignSteps

\* Informers bring the cache forward.
LEMMA InformersLock == TypeOK /\ TypeOK' /\ ChildLockInv /\ Informers => ChildLockInv'
<1>. SUFFICES ASSUME TypeOK, TypeOK', ChildLockInv, Informers PROVE ChildLockInv'
  OBVIOUS
<1>. USE DEF Informers, SyncRoute, SyncGateway, SyncServer, SyncHTTPRoute,
             HandleRoute, HandleGateway, HandleServer, HandleHTTPRoute, cluster
<1>1. BenignRoutes
  BY RoutesKept
<1>2. BenignChildren
  BY ChildrenKept
<1>3. BenignCache
  BY DEF BenignCache, caches, TypeOK, CacheTypeOK
<1>4. BenignJob
  BY DEF BenignJob
<1>. QED
  BY <1>1, <1>2, <1>3, <1>4, BenignSteps

\* A restart has no job and caches that are up to date.
LEMMA RestartLock == TypeOK /\ TypeOK' /\ ChildLockInv /\ Restart => ChildLockInv'
<1>. SUFFICES ASSUME TypeOK, TypeOK', ChildLockInv, Restart PROVE ChildLockInv'
  OBVIOUS
<1>. USE DEF Restart, cluster
<1>1. BenignRoutes
  BY RoutesKept
<1>2. BenignChildren
  BY ChildrenKept
<1>3. BenignCache /\ BenignJob
  BY DEF BenignCache, BenignJob
<1>. QED
  BY <1>1, <1>2, <1>3, BenignSteps

\* Reconcile starts from the cache, which has caught up with the live children.
LEMMA BeginLock ==
  TypeOK /\ TypeOK' /\ ChildLockInv /\ (\E r \in Routes : Begin(r)) => ChildLockInv'
<1>. SUFFICES ASSUME TypeOK, TypeOK', ChildLockInv, NEW r \in Routes, Begin(r)
              PROVE  ChildLockInv'
  OBVIOUS
<1>1. UNCHANGED <<cluster, caches, edits>>
  BY DEF Begin, BeginNotFound, BeginGatewayNotFound, BeginNotOwned, BeginOwned
<1>2. BenignRoutes /\ BenignChildren
  BY <1>1, RoutesKept, ChildrenKept DEF cluster
<1>3. CASE job' = Idle
  <2>1. BenignCache /\ BenignJob
    BY <1>1, <1>3 DEF caches, BenignCache, BenignJob
  <2>. QED
    BY <1>2, <2>1, BenignSteps
<1>4. CASE job' # Idle
  <2>1. /\ cRoutes[r] # None /\ job'.route = r /\ job'.read = cRoutes[r]
        /\ job'.pc \notin {"httproute", "policy"}
    BY <1>4 DEF Begin, BeginNotFound, BeginGatewayNotFound, BeginNotOwned, BeginOwned, Dequeue
  <2>2. JobRef' = [key |-> r, uid |-> cRoutes[r].uid]
    BY <2>1 DEF JobRef, ControllerRef
  <2>3. UidsOld'
    BY <1>1, <2>1 DEF ChildLockInv, UidsOld, AllChildren, cluster, caches
  <2>4. CacheCaughtUp'
    BY <1>1, <2>1 DEF ChildLockInv, CacheCaughtUp, AllChildren, Live, cluster, caches
  <2>5. JobNotOutdated'
    <3>1. ASSUME NEW n \in ChildKeys, backends[n] # None, Live(backends[n].owner),
                 backends[n].owner.key = r
          PROVE  backends[n].owner = JobRef'
      <4>1. backends[n].owner \in Owners
        BY <3>1 DEF TypeOK, ClusterTypeOK, Backends
      <4>2. cRoutes[r].uid = backends[n].owner.uid
        BY <3>1 DEF ChildLockInv, CacheCaughtUp, AllChildren
      <4>. QED
        BY <2>2, <3>1, <4>1, <4>2 DEF Owners
    <3>. QED
      BY <1>1, <2>1, <3>1 DEF JobNotOutdated, Live, cluster
  <2>6. BackendIsLock'
    BY <1>1 DEF ChildLockInv, BackendIsLock, Live, cluster
  <2>7. WorkerHoldsLock'
    BY <2>1 DEF WorkerHoldsLock
  <2>. QED
    BY <2>3, <2>4, <2>5, <2>6, <2>7 DEF ChildLockInv
<1>. QED
  BY <1>3, <1>4

\* A step of the worker keeps its route, its copy of it and its gateway.
LEMMA JobKept ==
  ASSUME TypeOK, job # Idle
  PROVE  /\ \A reason : FailWith(reason) => BenignJob
         /\ \A pc : job' = [job EXCEPT !.pc = pc] =>
              /\ job'.route = job.route /\ job'.read = job.read /\ job'.gw = job.gw
              /\ job'.pc = pc
         /\ \A err : Return(err) => BenignJob
<1>0. job \in Jobs
  BY DEF TypeOK, JobTypeOK
<1>1. ASSUME NEW reason, FailWith(reason) PROVE BenignJob
  <2>. DEFINE failed == [job EXCEPT !.pc = "notready"]
  <2>1. /\ failed.route = job.route /\ failed.read = job.read /\ failed.gw = job.gw
        /\ failed.pc = "notready" /\ failed \in Jobs
    BY <1>0 DEF Jobs
  <2>2. job' = [failed EXCEPT !.reason = reason]
    BY <1>1 DEF FailWith
  <2>. HIDE DEF failed
  <2>3. /\ job'.route = job.route /\ job'.read = job.read /\ job'.gw = job.gw
        /\ job'.pc = "notready"
    BY <2>1, <2>2 DEF Jobs
  <2>. QED
    BY <2>3 DEF BenignJob
<1>2. ASSUME NEW pc, job' = [job EXCEPT !.pc = pc]
      PROVE  /\ job'.route = job.route /\ job'.read = job.read /\ job'.gw = job.gw
             /\ job'.pc = pc
  BY <1>0, <1>2 DEF Jobs
<1>3. ASSUME NEW err, Return(err) PROVE BenignJob
  BY <1>3 DEF Return, BenignJob
<1>. QED
  BY <1>1, <1>2, <1>3

\* The worker goes on with the same route, copy and gateway.
SameJob == /\ job # Idle /\ job' # Idle
           /\ job'.route = job.route /\ job'.read = job.read /\ job'.gw = job.gw

\* The outcome of a call moves the job's pc and changes nothing else it knows.
LEMMA AnsweredSameJob ==
  ASSUME TypeOK, job # Idle, NEW pc \in {"httproute", "policy", "ready"}, NEW reason,
         Answered(pc, reason)
  PROVE  SameJob /\ job'.pc \in {pc, "notready"}
<1>0. job \in Jobs
  BY DEF TypeOK, JobTypeOK
<1>1. CASE job' = [job EXCEPT !.pc = pc]
  BY <1>0, <1>1 DEF SameJob, Jobs, Idle
<1>2. CASE FailWith(reason)
  <2>. DEFINE failed == [job EXCEPT !.pc = "notready"]
  <2>1. /\ failed.route = job.route /\ failed.read = job.read /\ failed.gw = job.gw
        /\ failed.pc = "notready" /\ failed \in Jobs
    BY <1>0 DEF Jobs
  <2>2. job' = [failed EXCEPT !.reason = reason]
    BY <1>2 DEF FailWith
  <2>. HIDE DEF failed
  <2>3. /\ job'.route = job.route /\ job'.read = job.read /\ job'.gw = job.gw
        /\ job'.pc = "notready"
    BY <2>1, <2>2 DEF Jobs
  <2>. QED
    BY <2>3 DEF SameJob, Idle
<1>. QED
  BY <1>1, <1>2 DEF Answered

\* Writing the Backend takes the lock: nobody else held it, and if this very
\* route did, it is the same route object.
LEMMA TakesLock ==
  ASSUME TypeOK, ChildLockInv, SameJob, JobKey \in ChildKeys, NEW want \in Backends,
         want.owner = JobRef, backends[JobKey] # None => backends[JobKey].owner.key = job.route,
         backends' = [backends EXCEPT ![JobKey] = want],
         UNCHANGED <<routes, httproutes, policies, cRoutes, edits>>
  PROVE  ChildLockInv'
<1>. USE DEF ChildLockInv
<1>1. JobRef' = JobRef /\ JobKey' = JobKey
  BY DEF SameJob, JobRef, ControllerRef, JobKey
<1>2. JobRef.key = job.route /\ JobRef.uid = job.read.uid
  BY DEF JobRef, ControllerRef
<1>3. /\ backends'[JobKey] = want /\ want # None
      /\ \A n \in ChildKeys : n # JobKey => backends'[n] = backends[n]
  BY NoneAssumption DEF TypeOK, ClusterTypeOK
<1>4. UidsOld'
  BY <1>2, <1>3 DEF UidsOld, AllChildren, SameJob
<1>5. CacheCaughtUp'
  <2>1. ASSUME NEW n \in ChildKeys, backends'[n] # None, Live(backends'[n].owner)
        PROVE  /\ cRoutes[backends'[n].owner.key] # None
               /\ cRoutes[backends'[n].owner.key].uid = backends'[n].owner.uid
    <3>1. CASE n = JobKey
      BY <1>2, <1>3, <2>1, <3>1 DEF CacheCaughtUp, SameJob, Live
    <3>2. CASE n # JobKey
      BY <1>3, <2>1, <3>2 DEF CacheCaughtUp, AllChildren, Live
    <3>. QED
      BY <3>1, <3>2
  <2>. QED
    BY <1>1, <2>1 DEF CacheCaughtUp, AllChildren, SameJob, Live
<1>6. JobNotOutdated'
  BY <1>1, <1>3 DEF JobNotOutdated, SameJob, Live
<1>7. BackendIsLock'
  BY <1>2, <1>3 DEF BackendIsLock, JobNotOutdated, SameJob, Live
<1>8. WorkerHoldsLock'
  BY <1>1, <1>2, <1>3 DEF WorkerHoldsLock, SameJob
<1>. QED
  BY <1>4, <1>5, <1>6, <1>7, <1>8

\* A child that keeps its controller, or gets the one who holds the lock.
Written(n, old, new) == SameController(old, new) \/ (n = JobKey /\ new.owner = JobRef)

\* The writes after ensureBackend, by the route that controls the Backend.
LEMMA WritesUnderLock ==
  ASSUME TypeOK, ChildLockInv, SameJob, job.pc \in {"httproute", "policy"}, JobKey \in ChildKeys,
         \A n \in ChildKeys : Written(n, httproutes[n], httproutes'[n]),
         \A n \in ChildKeys : Written(n, policies[n], policies'[n]),
         UNCHANGED <<routes, backends, cRoutes, edits>>
  PROVE  ChildLockInv'
<1>. USE DEF ChildLockInv
<1>1. JobRef' = JobRef /\ JobKey' = JobKey
  BY DEF SameJob, JobRef, ControllerRef, JobKey
<1>2. JobRef.key = job.route /\ JobRef.uid = job.read.uid
  BY DEF JobRef, ControllerRef
<1>3. ASSUME NEW n \in ChildKeys, NEW obj \in {httproutes'[n], policies'[n]}, obj # None
      PROVE  \/ obj.owner = JobRef /\ n = JobKey
             \/ \E old \in {httproutes[n], policies[n]} : old # None /\ obj.owner = old.owner
  BY <1>3 DEF Written, SameController
<1>4. UidsOld'
  BY <1>2, <1>3 DEF UidsOld, AllChildren, SameJob
<1>5. CacheCaughtUp'
  <2>1. ASSUME NEW n \in ChildKeys, NEW obj \in {httproutes'[n], policies'[n]},
               obj # None, Live(obj.owner)'
        PROVE  cRoutes[obj.owner.key] # None /\ cRoutes[obj.owner.key].uid = obj.owner.uid
    <3>1. Live(obj.owner)
      BY <2>1 DEF Live
    <3>2. CASE obj.owner = JobRef
      BY <1>2, <3>1, <3>2 DEF CacheCaughtUp, SameJob
    <3>3. CASE \E old \in {httproutes[n], policies[n]} : old # None /\ obj.owner = old.owner
      BY <3>1, <3>3 DEF CacheCaughtUp, AllChildren
    <3>. QED
      BY <1>3, <2>1, <3>2, <3>3
  <2>. QED
    BY <1>1, <2>1 DEF CacheCaughtUp, AllChildren, SameJob, Live
<1>6. JobNotOutdated'
  BY <1>1 DEF JobNotOutdated, SameJob, Live
<1>7. BackendIsLock'
  BY <1>3 DEF BackendIsLock, WorkerHoldsLock, Live
<1>8. WorkerHoldsLock'
  BY <1>1 DEF WorkerHoldsLock, SameJob, Live
<1>. QED
  BY <1>4, <1>5, <1>6, <1>7, <1>8

\* Steps of the worker that touch neither children nor caches.
LEMMA StatusLock ==
  ASSUME TypeOK, TypeOK', ChildLockInv, BenignRoutes, BenignJob,
         UNCHANGED <<backends, httproutes, policies, cRoutes>>
  PROVE  ChildLockInv'
<1>1. BenignChildren
  BY ChildrenKept
<1>2. BenignCache
  BY DEF BenignCache
<1>. QED
  BY <1>1, <1>2, BenignSteps

\* The calls of Reconcile that write keep the lock.
LEMMA ProceedLock == TypeOK /\ TypeOK' /\ ChildLockInv /\ Proceed => ChildLockInv'
<1>. SUFFICES ASSUME TypeOK, TypeOK', ChildLockInv, Proceed PROVE ChildLockInv'
  OBVIOUS
<1>1. CASE UpstreamUnresolved
  <2>1. BenignJob
    BY <1>1, JobKept DEF UpstreamUnresolved, Idle
  <2>. QED
    BY <1>1, <2>1, RoutesKept, StatusLock DEF UpstreamUnresolved, cluster, caches
<1>2. CASE ensureBackend
  <2>. DEFINE want == BackendFor(job.route, job.read, jobTarget)
              new  == CreateOrPatch(backends[JobKey], backends[JobKey], want)
  <2>0. job # Idle /\ job.pc # "notready"
    BY <1>2 DEF ensureBackend, Idle
  <2>1. CASE new = Failed
    <3>1. BenignJob /\ UNCHANGED backends
      BY <1>2, <2>0, <2>1, JobKept DEF ensureBackend
    <3>. QED
      BY <1>2, <3>1, RoutesKept, StatusLock DEF ensureBackend, caches
  <2>2. CASE new # Failed
    <3>1. /\ want = [f \in DOMAIN want |-> want[f]]
          /\ want.owner = JobRef /\ want.owner.key = job.route
      BY DEF BackendFor, JobRef, ControllerRef
    <3>2. want \in Backends /\ JobKey \in ChildKeys
      BY <2>0, WantedTypes
    <3>3. new = want /\ (backends[JobKey] # None => backends[JobKey].owner.key = job.route)
      BY <2>2, <3>1, PatchLive
    <3>4. backends' = [backends EXCEPT ![JobKey] = want]
      BY <1>2, <2>2, <3>3 DEF ensureBackend
    <3>5. SameJob
      BY <1>2, <2>0, <2>2, AnsweredSameJob DEF ensureBackend
    <3>. HIDE DEF want
    <3>. QED
      BY <1>2, <3>1, <3>2, <3>3, <3>4, <3>5, TakesLock DEF ensureBackend, caches
  <2>. QED
    BY <2>1, <2>2
<1>3. CASE ensureHTTPRoute
  <2>. DEFINE want == HTTPRouteFor(job.route, job.read, job.gw)
              new  == CreateOrPatch(cHTTPRoutes[JobKey], httproutes[JobKey], want)
  <2>0. job # Idle /\ job.pc = "httproute"
    BY <1>3 DEF ensureHTTPRoute, Idle
  <2>1. CASE new = Failed
    <3>1. BenignJob /\ UNCHANGED httproutes
      BY <1>3, <2>0, <2>1, JobKept DEF ensureHTTPRoute
    <3>. QED
      BY <1>3, <3>1, RoutesKept, StatusLock DEF ensureHTTPRoute, caches
  <2>2. CASE new # Failed
    <3>1. JobKey \in ChildKeys /\ want \in HTTPRoutes
      BY <2>0, WantedTypes
    <3>2. want.owner = JobRef
      BY DEF HTTPRouteFor, JobRef
    <3>3. httproutes[JobKey] \in HTTPRoutes \cup {None}
      BY <3>1 DEF TypeOK, ClusterTypeOK
    <3>4. Written(JobKey, httproutes[JobKey], new)
      <4>. HIDE DEF want
      <4>. QED
        BY <2>2, <3>1, <3>2, <3>3, PatchCached, MergedHTTPRoute DEF Written, SameController
    <3>5. httproutes' = [httproutes EXCEPT ![JobKey] = new]
      BY <1>3, <2>2 DEF ensureHTTPRoute, HTTPRouteChanged
    <3>6. SameJob
      BY <1>3, <2>0, <2>2, AnsweredSameJob DEF ensureHTTPRoute
    <3>. HIDE DEF want, new
    <3>7. \A n \in ChildKeys : Written(n, httproutes[n], httproutes'[n])
      BY <3>1, <3>4, <3>5 DEF Written, SameController, TypeOK, ClusterTypeOK
    <3>8. \A n \in ChildKeys : Written(n, policies[n], policies'[n])
      BY <1>3 DEF ensureHTTPRoute, Written, SameController
    <3>. QED
      BY <1>3, <2>0, <3>1, <3>6, <3>7, <3>8, WritesUnderLock DEF ensureHTTPRoute, caches
  <2>. QED
    BY <2>1, <2>2
<1>4. CASE ensurePolicy
  <2>. DEFINE want == PolicyFor(job.route, job.read, job.gw)
              new  == IF want = None THEN None
                      ELSE CreateOrPatch(policies[JobKey], policies[JobKey], want)
  <2>0. job # Idle /\ job.pc = "policy"
    BY <1>4 DEF ensurePolicy, Idle
  <2>1. CASE new = Failed
    <3>1. BenignJob /\ UNCHANGED policies
      BY <1>4, <2>0, <2>1, JobKept DEF ensurePolicy
    <3>. QED
      BY <1>4, <3>1, RoutesKept, StatusLock DEF ensurePolicy, caches
  <2>2. CASE new # Failed
    <3>1. JobKey \in ChildKeys /\ want \in Policies \cup {None}
      BY <2>0, WantedTypes
    <3>2. want # None => want.owner = JobRef
      BY DEF PolicyFor, JobRef
    <3>3. new = want
      <4>1. want \in Policies => want = [f \in DOMAIN want |-> want[f]]
        BY DEF Policies
      <4>. HIDE DEF want
      <4>. QED
        BY <2>2, <3>1, <4>1, PatchLive
    <3>4. policies' = [policies EXCEPT ![JobKey] = want]
      BY <1>4, <2>2, <3>3 DEF ensurePolicy
    <3>5. SameJob
      BY <1>4, <2>0, <2>2, AnsweredSameJob DEF ensurePolicy
    <3>. HIDE DEF want
    <3>6. \A n \in ChildKeys : Written(n, policies[n], policies'[n])
      BY <3>1, <3>2, <3>4 DEF Written, SameController, TypeOK, ClusterTypeOK
    <3>7. \A n \in ChildKeys : Written(n, httproutes[n], httproutes'[n])
      BY <1>4 DEF ensurePolicy, Written, SameController
    <3>. QED
      BY <1>4, <2>0, <3>1, <3>5, <3>6, <3>7, WritesUnderLock DEF ensurePolicy, caches
  <2>. QED
    BY <2>1, <2>2
<1>5. ASSUME job # Idle, routes[job.route] # None, NEW want, PatchStatus(want), UNCHANGED edits
      PROVE  BenignRoutes
  <2>. DEFINE live == routes[job.route]
              obj  == [live EXCEPT !.status = MergePatch(job.read.status, @, want)]
  <2>1. job.route \in Routes
    BY <1>5 DEF TypeOK, JobTypeOK, Jobs
  <2>2. live \in RouteObjects
    BY <1>5, <2>1 DEF TypeOK, ClusterTypeOK
  <2>3. obj.uid = live.uid
    BY <2>2 DEF RouteObjects
  <2>4. routes' = [routes EXCEPT ![job.route] = obj]
    BY <1>5 DEF PatchStatus, RouteChanged
  <2>5. edits \in Nat /\ edits' = edits
    BY <1>5, BoundsAssumption DEF TypeOK, BoundsOK
  <2>. HIDE DEF obj
  <2>. QED
    BY <1>5, <2>1, <2>3, <2>4, <2>5 DEF BenignRoutes, Live, ChildLockInv, UidsOld,
                                        TypeOK, ClusterTypeOK
<1>6. CASE updateStatusReady
  <2>0. job # Idle
    BY <1>6 DEF updateStatusReady, Idle
  <2>1. BenignRoutes
    <3>1. CASE routes[job.route] = None
      BY <1>6, <3>1, RoutesKept DEF updateStatusReady
    <3>2. CASE routes[job.route] # None
      BY <1>5, <1>6, <2>0, <3>2 DEF updateStatusReady
    <3>. QED
      BY <3>1, <3>2
  <2>2. BenignJob
    <3>1. PICK err : Return(err)
      BY <1>6 DEF updateStatusReady
    <3>. QED
      BY <2>0, <3>1, JobKept
  <2>. QED
    BY <1>6, <2>1, <2>2, StatusLock DEF updateStatusReady, caches
<1>7. CASE updateStatusNotReady
  <2>1. BenignRoutes
    BY <1>5, <1>7 DEF updateStatusNotReady, Idle
  <2>2. BenignJob
    BY <1>7, JobKept DEF updateStatusNotReady, Idle
  <2>. QED
    BY <1>7, <2>1, <2>2, StatusLock DEF updateStatusNotReady, caches
<1>8. CASE updateStatusNotReadyNotFound
  <2>1. BenignJob
    BY <1>8, JobKept DEF updateStatusNotReadyNotFound, NotReadyNotWritten, Idle
  <2>. QED
    BY <1>8, <2>1, RoutesKept, StatusLock DEF updateStatusNotReadyNotFound, cluster, caches
<1>. QED
  BY <1>1, <1>2, <1>3, <1>4, <1>6, <1>7, <1>8 DEF Proceed

\* A failed call keeps the lock.
LEMMA CallFailsLock == TypeOK /\ TypeOK' /\ ChildLockInv /\ CallFails => ChildLockInv'
<1>. SUFFICES ASSUME TypeOK, TypeOK', ChildLockInv, CallFails PROVE ChildLockInv'
  OBVIOUS
<1>1. job.pc \in {"backend", "httproute", "policy", "ready", "notready"}
  BY DEF CallFails
<1>2. BenignJob
  <2>1. job # Idle
    BY <1>1 DEF Idle
  <2>2. (\E reason : FailWith(reason)) \/ (\E err : Return(err))
    BY Zenon DEF CallFails, NotReadyNotWritten
  <2>. QED
    BY <2>1, <2>2, JobKept
<1>. QED
  BY <1>2, RoutesKept, StatusLock DEF CallFails, cluster, caches

\* Every step keeps the lock.
LEMMA NextLock == TypeOK /\ TypeOK' /\ ChildLockInv /\ [Next]_vars => ChildLockInv'
<1>. SUFFICES ASSUME TypeOK, TypeOK', ChildLockInv, [Next]_vars PROVE ChildLockInv'
  OBVIOUS
<1>1. CASE UNCHANGED vars
  <2>1. BenignJob
    BY <1>1 DEF vars, BenignJob
  <2>. QED
    BY <1>1, <2>1, RoutesKept, StatusLock DEF vars, cluster, caches
<1>. QED
  BY <1>1, UsersLock, GarbageCollectorLock, InformersLock, BeginLock, ProceedLock,
     CallFailsLock, RestartLock DEF Next, Worker

\* Whoever controls a live HTTPRoute or policy, or writes one, controls the
\* Backend of that name; the worker never acts on an outdated route object for
\* which a newer one's children already exist.
THEOREM ChildLockInvariant == Spec => []ChildLockInv
<1>1. TypeOK /\ ChildLockInv /\ [Next]_vars => (TypeOK /\ ChildLockInv)'
  BY NextType, NextLock
<1>. QED
  BY <1>1, InitType, InitLock, PTL DEF Spec

\* The worker writes under one name, and nothing of another live route is there.
LEMMA ProceedForeign == TypeOK /\ ChildLockInv /\ Proceed => ForeignUntouchedStep
<1>. SUFFICES ASSUME TypeOK, ChildLockInv, Proceed PROVE ForeignUntouchedStep
  OBVIOUS
<1>1. ASSUME UNCHANGED <<backends, httproutes, policies>> PROVE ForeignUntouchedStep
  BY <1>1 DEF ForeignUntouchedStep
<1>2. CASE ensureBackend
  <2>. DEFINE want == BackendFor(job.route, job.read, jobTarget)
              new  == CreateOrPatch(backends[JobKey], backends[JobKey], want)
  <2>1. want = [f \in DOMAIN want |-> want[f]] /\ want.owner.key = job.route
    BY DEF BackendFor, ControllerRef
  <2>2. CASE new = Failed
    <3>1. UNCHANGED backends
      BY <1>2, <2>2 DEF ensureBackend
    <3>. QED
      BY <1>1, <1>2, <3>1 DEF ensureBackend
  <2>3. CASE new # Failed
    <3>1. backends[JobKey] # None => backends[JobKey].owner.key = job.route
      BY <2>1, <2>3, PatchLive
    <3>2. backends' = [backends EXCEPT ![JobKey] = new]
      BY <1>2, <2>3 DEF ensureBackend
    <3>. HIDE DEF new
    <3>3. \A n \in ChildKeys : Foreign(backends[n]) => backends'[n] = backends[n]
      BY <3>1, <3>2 DEF Foreign, TypeOK, ClusterTypeOK
    <3>. QED
      BY <1>2, <3>3 DEF ensureBackend, ForeignUntouchedStep
  <2>. QED
    BY <2>2, <2>3
<1>3. ASSUME job.pc \in {"httproute", "policy"}
      PROVE  /\ JobKey \in ChildKeys
             /\ ~Foreign(httproutes[JobKey]) /\ ~Foreign(policies[JobKey])
  <2>1. JobKey \in ChildKeys
    BY <1>3, WantedTypes DEF Idle
  <2>. QED
    BY <1>3, <2>1 DEF ChildLockInv, BackendIsLock, WorkerHoldsLock, Foreign
<1>4. CASE ensureHTTPRoute
  <2>1. \A n \in ChildKeys : n # JobKey => httproutes'[n] = httproutes[n]
    BY <1>4 DEF ensureHTTPRoute, HTTPRouteChanged, TypeOK, ClusterTypeOK
  <2>. QED
    BY <1>3, <1>4, <2>1 DEF ensureHTTPRoute, ForeignUntouchedStep
<1>5. CASE ensurePolicy
  <2>1. \A n \in ChildKeys : n # JobKey => policies'[n] = policies[n]
    BY <1>5 DEF ensurePolicy, TypeOK, ClusterTypeOK
  <2>. QED
    BY <1>3, <1>5, <2>1 DEF ensurePolicy, ForeignUntouchedStep
<1>. QED
  BY <1>1, <1>2, <1>4, <1>5 DEF Proceed, UpstreamUnresolved, updateStatusReady,
     updateStatusNotReady, updateStatusNotReadyNotFound, cluster

\* With the lock, no step touches a child of another existing route.
LEMMA NextForeign == TypeOK /\ ChildLockInv /\ [Next]_vars => [ForeignUntouchedStep]_vars
<1>. SUFFICES ASSUME TypeOK, ChildLockInv, Next PROVE ForeignUntouchedStep
  OBVIOUS
<1>1. ASSUME UNCHANGED <<backends, httproutes, policies>> PROVE ForeignUntouchedStep
  BY <1>1 DEF ForeignUntouchedStep
<1>2. CASE Users
  <2>1. edits' # edits
    <3>1. Edit
      BY <1>2, Zenon DEF Users, CreateRoute, EditRoute, DeleteRoute, SetGateway, SetServer,
                         TamperHTTPRoute
    <3>. QED
      BY <3>1 DEF Edit, TypeOK, BoundsOK
  <2>2. UNCHANGED <<backends, policies>>
    BY <1>2, Zenon DEF Users, CreateRoute, EditRoute, DeleteRoute, SetGateway, SetServer,
                       TamperHTTPRoute
  <2>. QED
    BY <2>1, <2>2 DEF ForeignUntouchedStep
<1>3. CASE GarbageCollector
  BY <1>3 DEF GarbageCollector, CollectBackend, CollectHTTPRoute, CollectPolicy,
              HTTPRouteChanged, Garbage, Foreign, ForeignUntouchedStep, TypeOK, ClusterTypeOK
<1>4. CASE Informers
  BY <1>1, <1>4 DEF Informers, SyncRoute, SyncGateway, SyncServer, SyncHTTPRoute,
                    HandleRoute, HandleGateway, HandleServer, HandleHTTPRoute, cluster
<1>5. CASE \E r \in Routes : Begin(r)
  BY <1>1, <1>5 DEF Begin, BeginNotFound, BeginGatewayNotFound, BeginNotOwned, BeginOwned, cluster
<1>6. CASE CallFails
  BY <1>1, <1>6 DEF CallFails, cluster
<1>7. CASE Restart
  BY <1>1, <1>7 DEF Restart, cluster
<1>. QED
  BY <1>2, <1>3, <1>4, <1>5, <1>6, <1>7, ProceedForeign DEF Next, Worker

\* No Reconcile ever overwrites or deletes a child that another existing route
\* controls, for any number of routes and gateways whose names may collide and
\* although HTTPRoutes are patched from a stale cache and policies are deleted
\* by name.
THEOREM ForeignChildrenSafe == Spec => ForeignChildrenUntouched
<1>1. Init => TypeOK /\ ChildLockInv
  BY InitType, InitLock
<1>2. TypeOK /\ ChildLockInv /\ [Next]_vars => (TypeOK /\ ChildLockInv)'
  BY NextType, NextLock
<1>. QED
  BY <1>1, <1>2, NextForeign, PTL DEF Spec, ForeignChildrenUntouched
=============================================================================
