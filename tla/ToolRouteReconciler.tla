------------------------ MODULE ToolRouteReconciler ------------------------
(***************************************************************************)
(* The ToolRoute controller (toolroute_reconciler.go) in its cluster: the  *)
(* API server's objects, the users who change them, the garbage collector, *)
(* the informers that copy them into caches and enqueue the routes they    *)
(* concern, and the one worker that takes a route from the queue and runs  *)
(* Reconcile on it, one API call at a time.                                *)
(*                                                                         *)
(* ToolRoutes, ToolGateways, ToolServers and HTTPRoutes are read from the  *)
(* caches; AgentgatewayBackends and AgentgatewayPolicies are unstructured  *)
(* and are read from the API server.  Every write goes to the server.      *)
(***************************************************************************)
EXTENDS RouteResources

CONSTANTS
  Routes, Gateways, Servers,   \* the keys [ns, name] that may be in use
  RouteSpecs,                  \* [gw, upstream, filter] a user may write
  ClassNames,                  \* spec.toolGatewayClassName a user may write
  ServerSpecs,                 \* [port, path] a user may write
  Classes,                     \* the ToolGatewayClasses of the cluster
  MaxEdits,                    \* bound on the users' changes
  MaxFaults,                   \* bound on the API calls that fail
  MaxCrashes,                  \* bound on the restarts of the operator
  MaxDisturbances              \* bound on all three together

ASSUME BoundsAssumption ==
  /\ MaxEdits \in Nat /\ MaxFaults \in Nat /\ MaxCrashes \in Nat
  /\ MaxDisturbances \in Nat

\* The ports the CustomResourceDefinition of ToolServer admits.
ASSUME ServersAssumption == \A s \in ServerSpecs : s.port \in Ports

(* The children that can ever be written.                                  *)
ChildKeys == {ChildKey(g, r) : g \in Gateways, r \in Routes}
Owners    == [key : Routes, uid : Nat]
Targets   == {resolveRouteUpstream(ss, spec.upstream, r.ns) :
                ss \in [Servers -> ServerSpecs \cup {None}], spec \in RouteSpecs, r \in Routes}
Backends  == [owner : Owners, targets : Targets]
HTTPRoutes == [owner : Owners, parentRefs : Gateways,
               rules : [backend : ChildKeys, path : {RoutePath(r) : r \in Routes}] \cup {None}]
Policies  == [owner : Owners, targetRefs : ChildKeys,
              authorization : {buildMcpAuthorizationRules(spec.filter) : spec \in RouteSpecs}]

ASSUME NoneAssumption ==
  /\ None \notin Backends /\ None \notin HTTPRoutes /\ None \notin Owners
  /\ None \notin Routes /\ None \notin Gateways
  /\ None \notin RouteSpecs /\ None \notin ClassNames /\ None \notin ServerSpecs
  /\ Failed # None

VARIABLES
  routes,      \* Routes -> [uid, gen, spec, status] or None
  gateways,    \* Gateways -> class name or None
  servers,     \* Servers -> [port, path] or None
  backends, httproutes, policies,   \* the children, by ChildKey, or None
  cRoutes, cGateways, cServers, cHTTPRoutes,   \* the informer caches
  wRoutes,     \* routes with a watch event not yet handled
  wGateways, wServers,              \* the same for gateways and servers
  wHTTPRoutes, \* <<child key, controlling route>> of unhandled events
  queue,       \* the workqueue: a set, as it deduplicates
  job,         \* what the worker is doing
  swallowed,   \* routes whose last status write failed without a retry
  edits, faults, crashes            \* how much of each bound is used

cluster  == <<routes, gateways, servers, backends, httproutes, policies>>
caches   == <<cRoutes, cGateways, cServers, cHTTPRoutes>>
watches  == <<wRoutes, wGateways, wServers, wHTTPRoutes>>
vars     == <<cluster, caches, watches, queue, job, swallowed, edits, faults, crashes>>

reasonReconciled          == "Reconciled"
reasonGatewayNotFound     == "GatewayNotFound"
reasonUpstreamUnresolved  == "UpstreamUnresolved"
reasonBackendFailed       == "BackendReconciliationFailed"
reasonHTTPRouteFailed     == "HTTPRouteReconciliationFailed"
reasonPolicyFailed        == "PolicyReconciliationFailed"

NoStatus == [cond |-> None, url |-> None]

Idle == [pc |-> "idle", route |-> None, read |-> None, gw |-> None, reason |-> None]

-----------------------------------------------------------------------------
(* Watches: which routes an event enqueues (SetupWithManager).             *)

\* Mutant: routes that rely on the default gateway are forgotten.
findToolRoutesByRefOnly(rts, g) ==
  {r \in Routes : /\ rts[r] # None /\ rts[r].spec.gw # None
                  /\ RefKey(rts[r].spec.gw, r.ns) = g}

findToolRoutesForToolGateway(rts, g) ==
  {r \in Routes : /\ rts[r] # None
                  /\ IF rts[r].spec.gw = None
                     THEN g.ns = defaultToolGatewayNamespace
                     ELSE RefKey(rts[r].spec.gw, r.ns) = g}

\* Mutant: the namespace of a reference does not default to the route's.
findToolRoutesNoDefaultNamespace(rts, s) ==
  {r \in Routes : /\ rts[r] # None
                  /\ rts[r].spec.upstream.toolServerRef # None
                  /\ rts[r].spec.upstream.toolServerRef = s}

findToolRoutesForToolServer(rts, s) ==
  {r \in Routes : /\ rts[r] # None
                  /\ rts[r].spec.upstream.toolServerRef # None
                  /\ RefKey(rts[r].spec.upstream.toolServerRef, r.ns) = s}

\* Owns(HTTPRoute): the controllers of the old and of the new version.
ownersOf(n, old, new) == {<<n, o.owner.key>> : o \in {old, new} \ {None}}

RouteChanged(r, obj) ==
  /\ routes'  = [routes EXCEPT ![r] = obj]
  /\ wRoutes' = IF obj = routes[r] THEN wRoutes ELSE wRoutes \cup {r}

HTTPRouteChanged(n, obj) ==
  /\ httproutes'  = [httproutes EXCEPT ![n] = obj]
  /\ wHTTPRoutes' = IF obj = httproutes[n] THEN wHTTPRoutes
                    ELSE wHTTPRoutes \cup ownersOf(n, httproutes[n], obj)

-----------------------------------------------------------------------------
(* The users.                                                              *)

MayDisturb == edits + faults + crashes < MaxDisturbances

Edit == MayDisturb /\ edits < MaxEdits /\ edits' = edits + 1

\* A route as its user creates it.
NewRoute(uid, spec) == [uid |-> uid, gen |-> 1, spec |-> spec, status |-> NoStatus]

\* The API server counts the changes of a spec in metadata.generation.
EditedRoute(obj, spec) ==
  LET next == [obj EXCEPT !.gen = @ + 1] IN [next EXCEPT !.spec = spec]

CreateRoute(r) ==
  /\ Edit
  /\ routes[r] = None
  /\ \E spec \in RouteSpecs : RouteChanged(r, NewRoute(edits', spec))
  /\ UNCHANGED <<gateways, servers, backends, httproutes, policies, caches,
                 wGateways, wServers, wHTTPRoutes, queue, job, swallowed, faults, crashes>>

EditRoute(r) ==
  /\ Edit
  /\ routes[r] # None
  /\ \E spec \in RouteSpecs \ {routes[r].spec} : RouteChanged(r, EditedRoute(routes[r], spec))
  /\ UNCHANGED <<gateways, servers, backends, httproutes, policies, caches,
                 wGateways, wServers, wHTTPRoutes, queue, job, swallowed, faults, crashes>>

DeleteRoute(r) ==
  /\ Edit
  /\ routes[r] # None
  /\ RouteChanged(r, None)
  /\ UNCHANGED <<gateways, servers, backends, httproutes, policies, caches,
                 wGateways, wServers, wHTTPRoutes, queue, job, swallowed, faults, crashes>>

\* A ToolGateway is created, deleted or moved to another class.
SetGateway(g) ==
  /\ Edit
  /\ \E c \in (ClassNames \cup {None}) \ {gateways[g]} :
       gateways' = [gateways EXCEPT ![g] = c]
  /\ wGateways' = wGateways \cup {g}
  /\ UNCHANGED <<routes, servers, backends, httproutes, policies, caches,
                 wRoutes, wServers, wHTTPRoutes, queue, job, swallowed, faults, crashes>>

SetServer(s) ==
  /\ Edit
  /\ \E v \in (ServerSpecs \cup {None}) \ {servers[s]} :
       servers' = [servers EXCEPT ![s] = v]
  /\ wServers' = wServers \cup {s}
  /\ UNCHANGED <<routes, gateways, backends, httproutes, policies, caches,
                 wRoutes, wGateways, wHTTPRoutes, queue, job, swallowed, faults, crashes>>

\* Someone deletes a generated HTTPRoute, or edits its rules.
TamperHTTPRoute(n) ==
  /\ Edit
  /\ httproutes[n] # None
  /\ \E obj \in {None, [httproutes[n] EXCEPT !.rules = None]} : HTTPRouteChanged(n, obj)
  /\ UNCHANGED <<routes, gateways, servers, backends, policies, caches,
                 wRoutes, wGateways, wServers, queue, job, swallowed, faults, crashes>>

-----------------------------------------------------------------------------
(* The garbage collector removes a child whose owner's uid is gone.        *)

Live(owner) == /\ routes[owner.key] # None
               /\ routes[owner.key].uid = owner.uid

Garbage(obj) == obj # None /\ ~Live(obj.owner)

CollectBackend(n) ==
  /\ Garbage(backends[n])
  /\ backends' = [backends EXCEPT ![n] = None]
  /\ UNCHANGED <<routes, gateways, servers, httproutes, policies, caches,
                 watches, queue, job, swallowed, edits, faults, crashes>>

CollectHTTPRoute(n) ==
  /\ Garbage(httproutes[n])
  /\ HTTPRouteChanged(n, None)
  /\ UNCHANGED <<routes, gateways, servers, backends, policies, caches,
                 wRoutes, wGateways, wServers, queue, job, swallowed, edits, faults, crashes>>

CollectPolicy(n) ==
  /\ Garbage(policies[n])
  /\ policies' = [policies EXCEPT ![n] = None]
  /\ UNCHANGED <<routes, gateways, servers, backends, httproutes, caches,
                 watches, queue, job, swallowed, edits, faults, crashes>>

-----------------------------------------------------------------------------
(* The informers.  An informer first updates its cache and then, in        *)
(* another goroutine, calls the event handler that enqueues.               *)

SyncRoute(r) ==
  /\ cRoutes[r] # routes[r]
  /\ cRoutes' = [cRoutes EXCEPT ![r] = routes[r]]
  /\ UNCHANGED <<cluster, cGateways, cServers, cHTTPRoutes, watches, queue, job,
                 swallowed, edits, faults, crashes>>

SyncGateway(g) ==
  /\ cGateways[g] # gateways[g]
  /\ cGateways' = [cGateways EXCEPT ![g] = gateways[g]]
  /\ UNCHANGED <<cluster, cRoutes, cServers, cHTTPRoutes, watches, queue, job,
                 swallowed, edits, faults, crashes>>

SyncServer(s) ==
  /\ cServers[s] # servers[s]
  /\ cServers' = [cServers EXCEPT ![s] = servers[s]]
  /\ UNCHANGED <<cluster, cRoutes, cGateways, cHTTPRoutes, watches, queue, job,
                 swallowed, edits, faults, crashes>>

SyncHTTPRoute(n) ==
  /\ cHTTPRoutes[n] # httproutes[n]
  /\ cHTTPRoutes' = [cHTTPRoutes EXCEPT ![n] = httproutes[n]]
  /\ UNCHANGED <<cluster, cRoutes, cGateways, cServers, watches, queue, job,
                 swallowed, edits, faults, crashes>>

HandleRoute(r) ==
  /\ r \in wRoutes /\ cRoutes[r] = routes[r]
  /\ wRoutes' = wRoutes \ {r}
  /\ queue'   = queue \cup {r}
  /\ UNCHANGED <<cluster, caches, wGateways, wServers, wHTTPRoutes, job,
                 swallowed, edits, faults, crashes>>

HandleGateway(g) ==
  /\ g \in wGateways /\ cGateways[g] = gateways[g]
  /\ wGateways' = wGateways \ {g}
  /\ queue'     = queue \cup findToolRoutesForToolGateway(cRoutes, g)
  /\ UNCHANGED <<cluster, caches, wRoutes, wServers, wHTTPRoutes, job,
                 swallowed, edits, faults, crashes>>

HandleServer(s) ==
  /\ s \in wServers /\ cServers[s] = servers[s]
  /\ wServers' = wServers \ {s}
  /\ queue'    = queue \cup findToolRoutesForToolServer(cRoutes, s)
  /\ UNCHANGED <<cluster, caches, wRoutes, wGateways, wHTTPRoutes, job,
                 swallowed, edits, faults, crashes>>

HandleHTTPRoute(n) ==
  LET owners == {r \in Routes : <<n, r>> \in wHTTPRoutes}
  IN  /\ owners # {} /\ cHTTPRoutes[n] = httproutes[n]
      /\ wHTTPRoutes' = wHTTPRoutes \ {<<n, r>> : r \in owners}
      /\ queue'       = queue \cup owners
      /\ UNCHANGED <<cluster, caches, wRoutes, wGateways, wServers, job,
                     swallowed, edits, faults, crashes>>

-----------------------------------------------------------------------------
(* Reconcile.  Begin(r) is everything up to the first API write.           *)

Dequeue(r) == /\ job = Idle
              /\ r \in queue
              /\ queue' = queue \ {r}
              /\ swallowed' = swallowed \ {r}

\* The ToolGateway keys that Reconcile may settle on for the cached route.
gatewayKeys(r) == resolveToolGatewayKey(cGateways, cRoutes[r].spec.gw, r.ns)

Owned(class) == isToolGatewayOwnedByController(Classes, class)

\* The route is gone: nothing to do, its children are garbage.
BeginNotFound(r) ==
  /\ Dequeue(r)
  /\ cRoutes[r] = None
  /\ UNCHANGED <<cluster, caches, watches, job, edits, faults, crashes>>

\* errNoDefaultToolGateway, or the referenced ToolGateway does not exist.
BeginGatewayNotFound(r) ==
  /\ Dequeue(r)
  /\ cRoutes[r] # None
  /\ \E g \in gatewayKeys(r) \cup {None} :
       /\ IF g = None THEN gatewayKeys(r) = {} ELSE Get(cGateways, g) = None
       /\ job' = [pc |-> "notready", route |-> r, read |-> cRoutes[r], gw |-> g,
                  reason |-> reasonGatewayNotFound]
  /\ UNCHANGED <<cluster, caches, watches, edits, faults, crashes>>

\* Another controller's gateway: neither status nor children are touched.
BeginNotOwned(r) ==
  /\ Dequeue(r)
  /\ cRoutes[r] # None
  /\ \E g \in gatewayKeys(r) : Get(cGateways, g) # None /\ ~Owned(cGateways[g])
  /\ UNCHANGED <<cluster, caches, watches, job, edits, faults, crashes>>

BeginOwned(r) ==
  /\ Dequeue(r)
  /\ cRoutes[r] # None
  /\ \E g \in gatewayKeys(r) :
       /\ Get(cGateways, g) # None /\ Owned(cGateways[g])
       /\ job' = [pc |-> "backend", route |-> r, read |-> cRoutes[r], gw |-> g,
                  reason |-> None]
  /\ UNCHANGED <<cluster, caches, watches, edits, faults, crashes>>

-----------------------------------------------------------------------------
(* The steps of reconcileToolRoute, one per call that writes.              *)

JobKey == ChildKey(job.gw, job.route)

FailWith(reason) ==
  LET failed == [job EXCEPT !.pc = "notready"] IN job' = [failed EXCEPT !.reason = reason]

Fault == MayDisturb /\ faults < MaxFaults /\ faults' = faults + 1

\* A call took effect: Reconcile goes on, unless the answer was lost.
Answered(pc, reason) == \/ job' = [job EXCEPT !.pc = pc] /\ UNCHANGED faults
                        \/ FailWith(reason) /\ Fault

jobTarget == resolveRouteUpstream(cServers, job.read.spec.upstream, job.route.ns)

UpstreamUnresolved ==
  /\ job.pc = "backend"
  /\ jobTarget = Failed
  /\ FailWith(reasonUpstreamUnresolved)
  /\ UNCHANGED <<cluster, caches, watches, queue, swallowed, edits, faults, crashes>>

\* Mutant: the Backend is taken over from whoever controls it.
ensureBackendAdopting ==
  /\ job.pc = "backend"
  /\ jobTarget # Failed
  /\ job' = [job EXCEPT !.pc = "httproute"]
  /\ backends' = [backends EXCEPT ![JobKey] = BackendFor(job.route, job.read, jobTarget)]
  /\ UNCHANGED <<routes, gateways, servers, httproutes, policies, caches,
                 watches, queue, swallowed, edits, faults, crashes>>

ensureBackend ==
  /\ job.pc = "backend"
  /\ jobTarget # Failed
  /\ LET live == backends[JobKey]
         new  == CreateOrPatch(live, live, BackendFor(job.route, job.read, jobTarget))
     IN  IF new = Failed
         THEN FailWith(reasonBackendFailed) /\ UNCHANGED <<backends, faults>>
         ELSE Answered("httproute", reasonBackendFailed) /\ backends' = [backends EXCEPT ![JobKey] = new]
  /\ UNCHANGED <<routes, gateways, servers, httproutes, policies, caches,
                 watches, queue, swallowed, edits, crashes>>

ensureHTTPRoute ==
  /\ job.pc = "httproute"
  /\ LET new == CreateOrPatch(cHTTPRoutes[JobKey], httproutes[JobKey],
                              HTTPRouteFor(job.route, job.read, job.gw))
     IN  IF new = Failed
         THEN FailWith(reasonHTTPRouteFailed) /\ UNCHANGED <<httproutes, wHTTPRoutes, faults>>
         ELSE Answered("policy", reasonHTTPRouteFailed) /\ HTTPRouteChanged(JobKey, new)
  /\ UNCHANGED <<routes, gateways, servers, backends, policies, caches,
                 wRoutes, wGateways, wServers, queue, swallowed, edits, crashes>>

\* Mutant: a policy that cannot be written does not stop Reconcile.
ensurePolicyBestEffort ==
  /\ job.pc = "policy"
  /\ LET live == policies[JobKey]
         want == PolicyFor(job.route, job.read, job.gw)
         new  == IF want = None THEN None ELSE CreateOrPatch(live, live, want)
     IN  \/ /\ policies' = [policies EXCEPT ![JobKey] = IF new = Failed THEN @ ELSE new]
            /\ UNCHANGED faults
         \/ UNCHANGED policies /\ Fault
  /\ job' = [job EXCEPT !.pc = "ready"]
  /\ UNCHANGED <<routes, gateways, servers, backends, httproutes, caches,
                 watches, queue, swallowed, edits, crashes>>

\* Without rules the policy is deleted by name, whoever controls it.
ensurePolicy ==
  /\ job.pc = "policy"
  /\ LET live == policies[JobKey]
         want == PolicyFor(job.route, job.read, job.gw)
         new  == IF want = None THEN None ELSE CreateOrPatch(live, live, want)
     IN  IF new = Failed
         THEN FailWith(reasonPolicyFailed) /\ UNCHANGED <<policies, faults>>
         ELSE Answered("ready", reasonPolicyFailed) /\ policies' = [policies EXCEPT ![JobKey] = new]
  /\ UNCHANGED <<routes, gateways, servers, backends, httproutes, caches,
                 watches, queue, swallowed, edits, crashes>>

-----------------------------------------------------------------------------
(* The end of Reconcile: the status patch and the return.                  *)

\* An error returned by Reconcile puts the route back in the queue.
Return(err) == /\ job' = Idle
               /\ queue' = IF err THEN queue \cup {job.route} ELSE queue

ReadyStatus(obj, g) ==
  [cond |-> [status |-> "True", reason |-> reasonReconciled, msg |-> g, gen |-> obj.gen],
   url  |-> g]

\* The URL is left as it was.
NotReadyStatus(obj, reason, msg) ==
  [obj.status EXCEPT !.cond = [status |-> "False", reason |-> reason, msg |-> msg,
                               gen |-> obj.gen]]

\* What the message of the condition names.
failureMessage == IF job.reason = reasonUpstreamUnresolved
                  THEN job.read.spec.upstream ELSE job.gw

PatchStatus(want) ==
  LET live == routes[job.route]
  IN  RouteChanged(job.route, [live EXCEPT !.status = MergePatch(job.read.status, @, want)])

updateStatusReady ==
  /\ job.pc = "ready"
  /\ IF routes[job.route] = None
     THEN Return(TRUE) /\ UNCHANGED <<routes, wRoutes, faults>>
     ELSE /\ PatchStatus(ReadyStatus(job.read, job.gw))
          /\ (Return(FALSE) /\ UNCHANGED faults) \/ (Return(TRUE) /\ Fault)
  /\ UNCHANGED <<gateways, servers, backends, httproutes, policies, caches, wGateways,
                 wServers, wHTTPRoutes, swallowed, edits, crashes>>

\* GatewayNotFound returns nil: the ToolGateway watch is to bring the route back.
updateStatusNotReady ==
  /\ job.pc = "notready"
  /\ routes[job.route] # None
  /\ PatchStatus(NotReadyStatus(job.read, job.reason, failureMessage))
  /\ Return(job.reason # reasonGatewayNotFound)
  /\ UNCHANGED <<gateways, servers, backends, httproutes, policies, caches, wGateways,
                 wServers, wHTTPRoutes, swallowed, edits, faults, crashes>>

\* The status patch failed: logged, and forgotten.
NotReadyNotWritten ==
  /\ Return(job.reason # reasonGatewayNotFound)
  /\ swallowed' = IF job.reason = reasonGatewayNotFound
                  THEN swallowed \cup {job.route} ELSE swallowed

updateStatusNotReadyNotFound ==
  /\ job.pc = "notready"
  /\ routes[job.route] = None
  /\ NotReadyNotWritten
  /\ UNCHANGED <<cluster, caches, watches, edits, faults, crashes>>

\* The worker's next call does not reach the API server, or is refused.
CallFails ==
  /\ Fault
  /\ \/ job.pc = "backend"   /\ jobTarget # Failed
        /\ FailWith(reasonBackendFailed) /\ UNCHANGED <<queue, swallowed>>
     \/ job.pc = "httproute" /\ FailWith(reasonHTTPRouteFailed) /\ UNCHANGED <<queue, swallowed>>
     \/ job.pc = "policy"    /\ FailWith(reasonPolicyFailed)    /\ UNCHANGED <<queue, swallowed>>
     \/ job.pc = "ready"     /\ Return(TRUE)                    /\ UNCHANGED swallowed
     \/ job.pc = "notready"  /\ NotReadyNotWritten
  /\ UNCHANGED <<cluster, caches, watches, edits, crashes>>

\* The operator restarts (or another replica takes the lease): the informers
\* list everything and every listed object is an event.
Restart ==
  /\ MayDisturb /\ crashes < MaxCrashes
  /\ crashes' = crashes + 1
  /\ job' = Idle
  /\ cRoutes' = routes /\ cGateways' = gateways
  /\ cServers' = servers /\ cHTTPRoutes' = httproutes
  /\ wRoutes' = {} /\ wGateways' = {} /\ wServers' = {} /\ wHTTPRoutes' = {}
  /\ queue' = {r \in Routes : \/ routes[r] # None
                              \/ \E n \in ChildKeys : /\ httproutes[n] # None
                                                      /\ httproutes[n].owner.key = r}
  /\ UNCHANGED <<cluster, swallowed, edits, faults>>

-----------------------------------------------------------------------------
\* The operator starts in a cluster that may hold routes, gateways and servers.
Init ==
  /\ routes   \in [Routes -> {NewRoute(0, spec) : spec \in RouteSpecs} \cup {None}]
  /\ gateways \in [Gateways -> ClassNames \cup {None}]
  /\ servers  \in [Servers -> ServerSpecs \cup {None}]
  /\ backends   = [n \in ChildKeys |-> None]
  /\ httproutes = [n \in ChildKeys |-> None]
  /\ policies   = [n \in ChildKeys |-> None]
  /\ cRoutes = routes /\ cGateways = gateways /\ cServers = servers
  /\ cHTTPRoutes = httproutes
  /\ wRoutes = {} /\ wGateways = {} /\ wServers = {} /\ wHTTPRoutes = {}
  /\ queue = {r \in Routes : routes[r] # None} /\ job = Idle /\ swallowed = {}
  /\ edits = 0 /\ faults = 0 /\ crashes = 0

Users == \/ \E r \in Routes : CreateRoute(r) \/ EditRoute(r) \/ DeleteRoute(r)
         \/ \E g \in Gateways : SetGateway(g)
         \/ \E s \in Servers : SetServer(s)
         \/ \E n \in ChildKeys : TamperHTTPRoute(n)

GarbageCollector ==
  \E n \in ChildKeys : CollectBackend(n) \/ CollectHTTPRoute(n) \/ CollectPolicy(n)

Informers == \/ \E r \in Routes : SyncRoute(r) \/ HandleRoute(r)
             \/ \E g \in Gateways : SyncGateway(g) \/ HandleGateway(g)
             \/ \E s \in Servers : SyncServer(s) \/ HandleServer(s)
             \/ \E n \in ChildKeys : SyncHTTPRoute(n) \/ HandleHTTPRoute(n)

Begin(r) == \/ BeginNotFound(r) \/ BeginGatewayNotFound(r)
            \/ BeginNotOwned(r) \/ BeginOwned(r)

Proceed == \/ UpstreamUnresolved \/ ensureBackend \/ ensureHTTPRoute \/ ensurePolicy
           \/ updateStatusReady \/ updateStatusNotReady \/ updateStatusNotReadyNotFound

Worker == (\E r \in Routes : Begin(r)) \/ Proceed \/ CallFails

Next == Users \/ GarbageCollector \/ Informers \/ Worker \/ Restart

Spec == Init /\ [][Next]_vars

(***************************************************************************)
(* Informers, garbage collector and worker keep running; the workqueue is  *)
(* first in first out, so no queued route is passed over for ever.         *)
(***************************************************************************)
Fairness ==
  /\ \A r \in Routes : WF_vars(SyncRoute(r)) /\ WF_vars(HandleRoute(r)) /\ SF_vars(Begin(r))
  /\ \A g \in Gateways : WF_vars(SyncGateway(g)) /\ WF_vars(HandleGateway(g))
  /\ \A s \in Servers : WF_vars(SyncServer(s)) /\ WF_vars(HandleServer(s))
  /\ \A n \in ChildKeys : /\ WF_vars(SyncHTTPRoute(n)) /\ WF_vars(HandleHTTPRoute(n))
                          /\ WF_vars(CollectBackend(n)) /\ WF_vars(CollectHTTPRoute(n))
                          /\ WF_vars(CollectPolicy(n))
  /\ WF_vars(Proceed)

FairSpec == Spec /\ Fairness

-----------------------------------------------------------------------------
(* What is checked.                                                        *)

RefKeys == {RefKey(s.gw, r.ns) : s \in {t \in RouteSpecs : t.gw # None}, r \in Routes}
GatewayKeys == Gateways \cup RefKeys \cup {None}
Reasons == {reasonReconciled, reasonGatewayNotFound, reasonUpstreamUnresolved,
            reasonBackendFailed, reasonHTTPRouteFailed, reasonPolicyFailed}
Messages == GatewayKeys \cup {s.upstream : s \in RouteSpecs}
Conditions == [status : {"True", "False"}, reason : Reasons, msg : Messages, gen : Nat]
Statuses   == [cond : Conditions \cup {None}, url : Gateways \cup {None}]
RouteObjects == [uid : Nat, gen : Nat, spec : RouteSpecs, status : Statuses]

ASSUME NoObjectAssumption == None \notin RouteObjects

Jobs == [pc : {"backend", "httproute", "policy", "ready", "notready"}, route : Routes,
         read : RouteObjects, gw : GatewayKeys, reason : Reasons \cup {None}]

ClusterTypeOK ==
  /\ routes   \in [Routes -> RouteObjects \cup {None}]
  /\ gateways \in [Gateways -> ClassNames \cup {None}]
  /\ servers  \in [Servers -> ServerSpecs \cup {None}]
  /\ backends   \in [ChildKeys -> Backends \cup {None}]
  /\ httproutes \in [ChildKeys -> HTTPRoutes \cup {None}]
  /\ policies   \in [ChildKeys -> Policies \cup {None}]

CacheTypeOK ==
  /\ cRoutes   \in [Routes -> RouteObjects \cup {None}]
  /\ cGateways \in [Gateways -> ClassNames \cup {None}]
  /\ cServers  \in [Servers -> ServerSpecs \cup {None}]
  /\ cHTTPRoutes \in [ChildKeys -> HTTPRoutes \cup {None}]

QueueTypeOK ==
  /\ wRoutes \subseteq Routes /\ wGateways \subseteq Gateways /\ wServers \subseteq Servers
  /\ wHTTPRoutes \subseteq ChildKeys \X Routes
  /\ queue \subseteq Routes /\ swallowed \subseteq Routes

\* Children are only written for a gateway that was found in the cache, and
\* a failed job has a reason to report.
JobTypeOK ==
  \/ job = Idle
  \/ /\ job \in Jobs
     /\ IF job.pc = "notready" THEN job.reason \in Reasons ELSE job.gw \in Gateways

\* A Backend has a port that can be dialled, whatever URL the route gave.
PortsOK == \A n \in ChildKeys : backends[n] # None => backends[n].targets.port \in Ports

BoundsOK == edits \in 0..MaxEdits /\ faults \in 0..MaxFaults /\ crashes \in 0..MaxCrashes

\* Every variable holds what the code can put there; in particular every
\* Backend target has a port an MCP client can dial.
TypeOK == /\ ClusterTypeOK /\ CacheTypeOK /\ QueueTypeOK
          /\ JobTypeOK /\ PortsOK /\ BoundsOK

\* Nothing is left to do for route r: no event waits for its handler, r is
\* not queued, and the worker is not busy with it.
EventsHandled == wRoutes = {} /\ wGateways = {} /\ wServers = {} /\ wHTTPRoutes = {}
Settled(r) == EventsHandled /\ r \notin queue /\ job.route # r

\* The children that route r must have towards gateway g.
Target(r) == resolveRouteUpstream(servers, routes[r].spec.upstream, r.ns)

BackendMirrored(r, g) == /\ Target(r) # Failed
                         /\ backends[ChildKey(g, r)] = BackendFor(r, routes[r], Target(r))

HTTPRouteMirrored(r, g) == httproutes[ChildKey(g, r)] = HTTPRouteFor(r, routes[r], g)

PolicyMirrored(r, g) == policies[ChildKey(g, r)] = PolicyFor(r, routes[r], g)

GatewayNotFoundCond(obj, g) ==
  [status |-> "False", reason |-> reasonGatewayNotFound, msg |-> g, gen |-> obj.gen]

\* The status and the children that route r must have towards gateway g.
Mirrored(r, g) ==
  IF Get(gateways, g) = None
  THEN routes[r].status.cond = GatewayNotFoundCond(routes[r], g)
  ELSE Owned(gateways[g]) =>
         /\ routes[r].status = ReadyStatus(routes[r], g)
         /\ BackendMirrored(r, g) /\ HTTPRouteMirrored(r, g) /\ PolicyMirrored(r, g)

\* The gateways a Reconcile of route r may settle on; None when there is none.
OutcomeKeys(r) ==
  LET keys == resolveToolGatewayKey(gateways, routes[r].spec.gw, r.ns)
  IN  IF keys = {} THEN {None} ELSE keys

MirrorsOutcome(r) == \E g \in OutcomeKeys(r) : Mirrored(r, g)

(***************************************************************************)
(* Whatever stale copies the worker acted on, in whatever order events and *)
(* failures came: once a route has settled, its status and its children    *)
(* are those that its present spec, gateway and server call for.  The only *)
(* exception is a route whose status write was lost without a retry.       *)
(***************************************************************************)
SettledMirrors ==
  \A r \in Routes : (routes[r] # None /\ Settled(r) /\ r \notin swallowed)
                      => MirrorsOutcome(r)

(***************************************************************************)
(* HTTPRoutes go live before their tool filter, but a route that reports   *)
(* Ready for its present generation has, at the gateway its condition      *)
(* names, exactly the filter of its spec: no stale copy, lost answer or    *)
(* retry makes Ready run ahead of the policy, or puts an older filter      *)
(* back.  (status.url may lag behind: a merge patch leaves it out when a   *)
(* stale copy had it already.)  Only a route created while a deleted       *)
(* namesake was being reconciled may show the namesake's status, until the *)
(* Reconcile that its own creation brings about writes another one: not if *)
(* that status write is lost, or while its gateway is not ours.            *)
(***************************************************************************)
ReportsReady(obj) == /\ obj # None /\ obj.status.cond # None
                     /\ obj.status.cond.status = "True" /\ obj.status.cond.gen = obj.gen

CreatedAndPending(r) == routes[r].uid > 0 /\ (r \in wRoutes \cup queue \/ job.route = r)

\* No Reconcile of r is to write a status: the last one gave up on it, or
\* its gateway is not ours, or was not until an event still under way.
CreatedAndLeft(r) ==
  /\ routes[r].uid > 0
  /\ \/ r \in swallowed
     \/ \E g \in Gateways : /\ r \in findToolRoutesForToolGateway(routes, g)
                            /\ g \in wGateways \/ (gateways[g] # None /\ ~Owned(gateways[g]))

FilterInForce ==
  \A r \in Routes : ReportsReady(routes[r]) =>
    \/ PolicyMirrored(r, routes[r].status.cond.msg)
    \/ CreatedAndPending(r) \/ CreatedAndLeft(r)

(***************************************************************************)
(* The worker never changes or deletes a child that another existing route *)
(* controls, although children of two routes may have the same name and    *)
(* ensurePolicy deletes by name.                                           *)
(***************************************************************************)
Foreign(obj) == obj # None /\ Live(obj.owner) /\ obj.owner.key # job.route

ForeignUntouchedStep ==
  job # Idle =>
    \A n \in ChildKeys :
      /\ Foreign(backends[n]) => backends'[n] = backends[n]
      /\ Foreign(policies[n]) => policies'[n] = policies[n]
      /\ (Foreign(httproutes[n]) /\ edits' = edits) => httproutes'[n] = httproutes[n]

ForeignChildrenUntouched == [][ForeignUntouchedStep]_vars

(***************************************************************************)
(* Why that is so: the Backend, written first and refused when another     *)
(* route controls it, acts as the lock of a child name.                    *)
(***************************************************************************)
AllChildren == {backends, httproutes, policies}
JobRef == ControllerRef(job.route, job.read)

\* The uid of a new route is in use nowhere.
UidsOld ==
  /\ \A r \in Routes : /\ routes[r] # None => routes[r].uid <= edits
                       /\ cRoutes[r] # None => cRoutes[r].uid <= edits
  /\ \A c \in AllChildren : \A n \in ChildKeys : c[n] # None => c[n].owner.uid <= edits
  /\ job # Idle => job.read.uid <= edits

\* The cache has the route that a live child or a live job belongs to.
CacheCaughtUp ==
  /\ \A c \in AllChildren : \A n \in ChildKeys :
       (c[n] # None /\ Live(c[n].owner)) =>
         /\ cRoutes[c[n].owner.key] # None
         /\ cRoutes[c[n].owner.key].uid = c[n].owner.uid
  /\ (job # Idle /\ Live(JobRef)) =>
       cRoutes[job.route] # None /\ cRoutes[job.route].uid = job.read.uid

\* The worker never acts on a route older than the one a live Backend is for.
JobNotOutdated ==
  job # Idle =>
    \A n \in ChildKeys : (backends[n] # None /\ Live(backends[n].owner)
                            /\ backends[n].owner.key = job.route) => backends[n].owner = JobRef

\* Who controls a live HTTPRoute or policy controls the Backend of that name.
BackendIsLock ==
  \A n \in ChildKeys : \A obj \in {httproutes[n], policies[n]} :
    (obj # None /\ Live(obj.owner)) => backends[n] # None /\ backends[n].owner = obj.owner

\* So does the worker, past ensureBackend, for as long as its route exists.
WorkerHoldsLock ==
  job.pc \in {"httproute", "policy"} =>
    /\ backends[JobKey] # None => backends[JobKey].owner.key = job.route
    /\ Live(JobRef) => backends[JobKey] # None /\ backends[JobKey].owner = JobRef

ChildLockInv ==
  UidsOld /\ CacheCaughtUp /\ JobNotOutdated /\ BackendIsLock /\ WorkerHoldsLock

(***************************************************************************)
(* Why a settled route is mirrored.  An event is due for whatever a cache  *)
(* has not seen yet.  As long as nothing is due for a route, the worker's  *)
(* copy of it, of its gateway and its server is right, and the lock keeps  *)
(* the children that nobody watches.                                       *)
(***************************************************************************)
HTTPRouteEvent(n, r) == <<n, r>> \in wHTTPRoutes

\* Reconcile is to run (again) for r.
Due(r) == \/ r \in wRoutes \cup queue
          \/ \E n \in ChildKeys : HTTPRouteEvent(n, r)
          \/ \E g \in wGateways : r \in findToolRoutesForToolGateway(routes, g)
          \/ \E s \in wServers : r \in findToolRoutesForToolServer(routes, s)

CachesSeen ==
  /\ \A r \in Routes : cRoutes[r] = routes[r] \/ r \in wRoutes
  /\ \A g \in Gateways : cGateways[g] = gateways[g] \/ g \in wGateways
  /\ \A s \in Servers : cServers[s] = servers[s] \/ s \in wServers
  /\ \A n \in ChildKeys :
       \/ cHTTPRoutes[n] = httproutes[n] \/ cHTTPRoutes[n] = None
       \/ HTTPRouteEvent(n, cHTTPRoutes[n].owner.key)

\* What the worker has read and written so far is right.
JobRight ==
  LET r == job.route
      g == job.gw
  IN  /\ routes[r] = job.read /\ g \in OutcomeKeys(r)
      /\ IF job.pc = "notready"
         THEN Get(gateways, g) = None
         ELSE /\ Get(gateways, g) # None /\ Owned(gateways[g])
              /\ job.pc # "backend" => BackendMirrored(r, g)
              /\ job.pc \in {"policy", "ready"} => HTTPRouteMirrored(r, g)
              /\ job.pc = "ready" => PolicyMirrored(r, g)

\* After any other failure the route is queued again.
JobRightOrDue ==
  (job # Idle /\ (job.pc = "notready" => job.reason = reasonGatewayNotFound))
    => JobRight \/ Due(job.route)

MirroredOrDue ==
  \A r \in Routes : routes[r] # None =>
    MirrorsOutcome(r) \/ Due(r) \/ job.route = r \/ r \in swallowed

MirrorInv == CachesSeen /\ JobRightOrDue /\ MirroredOrDue

(***************************************************************************)
(* Why Ready does not run ahead of the filter.  A status patch carries no  *)
(* uid, so only the status of a route that was never created again (uid 0) *)
(* is its own; for any other, what is pending must be tracked.             *)
(***************************************************************************)
\* x is a copy of obj, or of what had its name before, never of its future.
Older(x, obj) ==
  (x # None /\ obj # None) =>
    \/ x.uid < obj.uid
    \/ x.uid = obj.uid /\ (x.gen < obj.gen \/ (x.gen = obj.gen /\ x.spec = obj.spec))

Current(x, obj) == x # None /\ x.uid = obj.uid /\ x.gen = obj.gen

CopiesOlder ==
  /\ \A r \in Routes : Older(cRoutes[r], routes[r])
  /\ job # Idle => /\ Older(job.read, routes[job.route])
                   /\ Live(JobRef) => job.read.gen <= cRoutes[job.route].gen
                   /\ job.read = routes[job.route] \/ job.route \in wRoutes \cup queue

\* Only a mark left by a namesake's Reconcile can be ahead of the generation.
ReadyNotAhead ==
  \A r \in Routes : (routes[r] # None /\ routes[r].uid = 0 /\ routes[r].status.cond # None)
                      => routes[r].status.cond.gen <= routes[r].gen

\* Who says Ready is in the cache, and in the worker's hands, as it is now.
ReadySeen ==
  \A r \in Routes : (ReportsReady(routes[r]) /\ routes[r].uid = 0) =>
    /\ Current(cRoutes[r], routes[r])
    /\ job.route = r => Current(job.read, routes[r])

\* Route obj under key r controls the Backend and has its filter at gateway g.
Filtered(r, obj, g) ==
  /\ g \in Gateways
  /\ backends[ChildKey(g, r)] # None
  /\ backends[ChildKey(g, r)].owner = ControllerRef(r, obj)
  /\ policies[ChildKey(g, r)] = PolicyFor(r, obj, g)

PolicyBeforeReady == (job.pc = "ready" /\ Live(JobRef)) => Filtered(job.route, job.read, job.gw)

ReadyFiltered ==
  \A r \in Routes : ReportsReady(routes[r]) =>
    \/ Filtered(r, routes[r], routes[r].status.cond.msg)
    \/ CreatedAndPending(r) \/ CreatedAndLeft(r)

FilterInv == CopiesOlder /\ ReadyNotAhead /\ ReadySeen /\ PolicyBeforeReady /\ ReadyFiltered

(***************************************************************************)
(* Seen from outside: holder of a name is the existing route that controls *)
(* the Backend; children of routes that are gone count as removed already. *)
(***************************************************************************)
LiveOwner(obj) == IF obj # None /\ Live(obj.owner) THEN obj.owner ELSE None

Existing == {[key |-> r, uid |-> routes[r].uid] : r \in {s \in Routes : routes[s] # None}}

Lock == INSTANCE ChildNames WITH
          Names    <- ChildKeys,
          Holders  <- Owners,
          alive    <- Existing,
          holder   <- [n \in ChildKeys |-> LiveOwner(backends[n])],
          attached <- [n \in ChildKeys |-> [p \in {"httproute", "policy"} |->
                         LiveOwner(IF p = "httproute" THEN httproutes[n] ELSE policies[n])]]

(***************************************************************************)
(* The controller implements the exclusive holding of child names:         *)
(* CreateOrPatch of the Backend acquires a name in one step, no step of a  *)
(* reconcile, of a retry or of the garbage collector takes it from an      *)
(* existing route, and HTTPRoutes and policies follow the holder.          *)
(***************************************************************************)
ImplementsChildNames == Lock!Spec

\* An upstream that cannot be resolved is retried for ever and says so.
ReportsUnresolved(r) ==
  LET obj == routes[r]
  IN  \E g \in resolveToolGatewayKey(gateways, obj.spec.gw, r.ns) :
        /\ Get(gateways, g) # None /\ Owned(gateways[g])
        /\ resolveRouteUpstream(servers, obj.spec.upstream, r.ns) = Failed
        /\ obj.status.cond = [status |-> "False", reason |-> reasonUpstreamUnresolved,
                              msg |-> obj.spec.upstream, gen |-> obj.gen]

(***************************************************************************)
(* When users and failures let go, every route ends up, for good, with the *)
(* outcome its spec calls for, or reported as unresolvable; no event, retry*)
(* or restart is needed that the code does not bring about itself.         *)
(***************************************************************************)
Converges ==
  \A r \in Routes :
    <>[]((routes[r] # None /\ r \notin swallowed) => MirrorsOutcome(r) \/ ReportsUnresolved(r))
=============================================================================
