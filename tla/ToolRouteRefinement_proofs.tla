--------------------- MODULE ToolRouteRefinement_proofs ---------------------
(***************************************************************************)
(* The ToolRoute controller implements ChildNames: the Backend, taken in   *)
(* one CreateOrPatch, is the lock on a child name.                         *)
(*                                                                         *)
(* Of what the controller does only five things are visible through the    *)
(* mapping: a route appears, a route vanishes with all it held, a name is  *)
(* acquired, a child is attached by the holder, a child is detached.       *)
(***************************************************************************)
EXTENDS ToolRouteReconciler_proofs

\* What the mapping shows of the children called n.
Holder(n)        == LiveOwner(backends[n])
HolderOfRoute(n) == LiveOwner(httproutes[n])
HolderOfPolicy(n) == LiveOwner(policies[n])

Attachments ==
  [n \in ChildKeys |-> [p \in {"httproute", "policy"} |->
     LiveOwner(IF p = "httproute" THEN httproutes[n] ELSE policies[n])]]

SameUids == \A r \in Routes : /\ routes'[r] = None <=> routes[r] = None
                              /\ routes[r] # None => routes'[r].uid = routes[r].uid

SameLive == \A o \in Owners : Live(o)' <=> Live(o)

\* Children have controllers.
LEMMA ChildOwners ==
  ASSUME TypeOK, NEW n \in ChildKeys
  PROVE  /\ backends[n] # None => backends[n].owner \in Owners
         /\ httproutes[n] # None => httproutes[n].owner \in Owners
         /\ policies[n] # None => policies[n].owner \in Owners
BY DEF TypeOK, ClusterTypeOK, Backends, HTTPRoutes, Policies

\* Routes that keep their uids are the same routes of the abstract lock.
LEMMA KeptUids ==
  ASSUME TypeOK, SameUids
  PROVE  Existing' = Existing /\ SameLive
<1>1. SameLive
  BY DEF SameUids, SameLive, Live, Owners
<1>2. {s \in Routes : routes[s] # None}' = {s \in Routes : routes[s] # None}
  BY DEF SameUids
<1>3. \A r \in {s \in Routes : routes[s] # None} :
        [key |-> r, uid |-> routes'[r].uid] = [key |-> r, uid |-> routes[r].uid]
  BY DEF SameUids
<1>4. Existing' = Existing
  BY <1>2, <1>3 DEF Existing
<1>. QED
  BY <1>1, <1>4

\* A step that changes none of what the mapping shows.
LEMMA Hidden ==
  ASSUME Existing' = Existing, \A n \in ChildKeys : Holder(n)' = Holder(n),
         \A n \in ChildKeys : HolderOfRoute(n)' = HolderOfRoute(n),
         \A n \in ChildKeys : HolderOfPolicy(n)' = HolderOfPolicy(n)
  PROVE  UNCHANGED Lock!vars
BY DEF Lock!vars, Holder, HolderOfRoute, HolderOfPolicy

\* The same children and the same live routes show the same holders.
LEMMA KeptHolders ==
  ASSUME TypeOK, SameLive
  PROVE  /\ UNCHANGED backends => \A n \in ChildKeys : Holder(n)' = Holder(n)
         /\ UNCHANGED httproutes => \A n \in ChildKeys : HolderOfRoute(n)' = HolderOfRoute(n)
         /\ UNCHANGED policies => \A n \in ChildKeys : HolderOfPolicy(n)' = HolderOfPolicy(n)
BY ChildOwners DEF SameLive, Holder, HolderOfRoute, HolderOfPolicy, LiveOwner

\* Steps that create, delete and write no object are hidden.
LEMMA HiddenCluster ==
  ASSUME TypeOK, SameUids, UNCHANGED <<backends, httproutes, policies>>
  PROVE  UNCHANGED Lock!vars
BY KeptUids, KeptHolders, Hidden

\* The holder of a name attaches a child where none of a live route was.
LEMMA AttachStep ==
  ASSUME TypeOK, UNCHANGED <<routes, backends>>, NEW n \in ChildKeys, Holder(n) # None,
         \/ /\ HolderOfRoute(n) = None /\ HolderOfRoute(n)' = Holder(n)
            /\ \A m \in ChildKeys \ {n} : httproutes'[m] = httproutes[m]
            /\ UNCHANGED policies
         \/ /\ HolderOfPolicy(n) = None /\ HolderOfPolicy(n)' = Holder(n)
            /\ \A m \in ChildKeys \ {n} : policies'[m] = policies[m]
            /\ UNCHANGED httproutes
  PROVE  Lock!Next
<1>1. Existing' = Existing /\ SameLive
  BY KeptUids DEF SameUids
<1>2. \A m \in ChildKeys : Holder(m)' = Holder(m)
  BY <1>1, KeptHolders
<1>3. CASE /\ HolderOfRoute(n) = None /\ HolderOfRoute(n)' = Holder(n)
           /\ \A m \in ChildKeys \ {n} : httproutes'[m] = httproutes[m]
           /\ UNCHANGED policies
  <2>1. \A m \in ChildKeys : HolderOfPolicy(m)' = HolderOfPolicy(m)
    BY <1>1, <1>3, KeptHolders
  <2>2. ASSUME NEW m \in ChildKeys \ {n} PROVE HolderOfRoute(m)' = HolderOfRoute(m)
    <3>1. httproutes'[m] = httproutes[m] /\ (httproutes[m] # None => httproutes[m].owner \in Owners)
      BY <1>3, ChildOwners
    <3>. QED
      BY <1>1, <3>1 DEF SameLive, HolderOfRoute, LiveOwner
  <2>3. Lock!Attach(n, "httproute")
    BY <1>1, <1>2, <1>3, <2>1, <2>2, ZenonT(40)
       DEF Lock!Attach, Holder, HolderOfRoute, HolderOfPolicy
  <2>. QED
    BY <2>3 DEF Lock!Next, Lock!Parts
<1>4. CASE /\ HolderOfPolicy(n) = None /\ HolderOfPolicy(n)' = Holder(n)
           /\ \A m \in ChildKeys \ {n} : policies'[m] = policies[m]
           /\ UNCHANGED httproutes
  <2>1. \A m \in ChildKeys : HolderOfRoute(m)' = HolderOfRoute(m)
    BY <1>1, <1>4, KeptHolders
  <2>2. \A m \in ChildKeys \ {n} : HolderOfPolicy(m)' = HolderOfPolicy(m)
    BY <1>1, <1>4, ChildOwners DEF SameLive, HolderOfPolicy, LiveOwner
  <2>3. Lock!Attach(n, "policy")
    BY <1>1, <1>2, <1>4, <2>1, <2>2, ZenonT(40)
       DEF Lock!Attach, Holder, HolderOfRoute, HolderOfPolicy
  <2>. QED
    BY <2>3 DEF Lock!Next, Lock!Parts
<1>. QED
  BY <1>3, <1>4

\* The two entries of a name's attachments.
LEMMA AttachmentEntries ==
  /\ Attachments = [n \in ChildKeys |-> [p \in {"httproute", "policy"} |-> Attachments[n][p]]]
  /\ \A n \in ChildKeys : /\ Attachments[n]["httproute"] = HolderOfRoute(n)
                           /\ Attachments[n]["policy"] = HolderOfPolicy(n)
BY DEF Attachments, HolderOfRoute, HolderOfPolicy

\* The same after a step.
LEMMA AttachmentEntriesPrimed ==
  /\ Attachments' = [n \in ChildKeys |-> [p \in {"httproute", "policy"} |-> Attachments'[n][p]]]
  /\ \A n \in ChildKeys : /\ Attachments'[n]["httproute"] = HolderOfRoute(n)'
                           /\ Attachments'[n]["policy"] = HolderOfPolicy(n)'
BY DEF Attachments, HolderOfRoute, HolderOfPolicy

\* A function of functions that differs in one entry only.
LEMMA ReplacedEntry ==
  ASSUME NEW S, NEW T, NEW f, NEW g, NEW n \in S, NEW p \in T, NEW v,
         f = [m \in S |-> [q \in T |-> f[m][q]]],
         g = [m \in S |-> [q \in T |-> g[m][q]]],
         \A m \in S, q \in T : g[m][q] = IF m = n /\ q = p THEN v ELSE f[m][q]
  PROVE  g = [f EXCEPT ![n][p] = v]
<1>. DEFINE h == [f EXCEPT ![n][p] = v]
<1>1. h = [m \in S |-> h[m]]
  OBVIOUS
<1>2. h[n] = [f[n] EXCEPT ![p] = v] /\ \A m \in S \ {n} : h[m] = f[m]
  OBVIOUS
<1>3. g[n] = [f[n] EXCEPT ![p] = v]
  OBVIOUS
<1>4. ASSUME NEW m \in S \ {n} PROVE g[m] = f[m]
  OBVIOUS
<1>. HIDE DEF h
<1>5. g = [m \in S |-> g[m]]
  OBVIOUS
<1>6. \A m \in S : g[m] = h[m]
  BY <1>2, <1>3, <1>4
<1>7. g = h
  BY <1>1, <1>5, <1>6
<1>. QED
  BY <1>7 DEF h

\* A child is removed, whether or not it belonged to a live route.
LEMMA DetachStep ==
  ASSUME TypeOK, UNCHANGED <<routes, backends>>, NEW n \in ChildKeys,
         \/ httproutes' = [httproutes EXCEPT ![n] = None] /\ UNCHANGED policies
         \/ policies' = [policies EXCEPT ![n] = None] /\ UNCHANGED httproutes
  PROVE  Lock!Next
<1>1. Existing' = Existing /\ SameLive
  BY KeptUids DEF SameUids
<1>2. \A m \in ChildKeys : Holder(m)' = Holder(m)
  BY <1>1, KeptHolders
<1>3. CASE httproutes' = [httproutes EXCEPT ![n] = None] /\ UNCHANGED policies
  <2>1. \A m \in ChildKeys : HolderOfPolicy(m)' = HolderOfPolicy(m)
    BY <1>1, <1>3, KeptHolders
  <2>2. \A m \in ChildKeys \ {n} : httproutes'[m] = httproutes[m]
    BY <1>3 DEF TypeOK, ClusterTypeOK
  <2>3. \A m \in ChildKeys \ {n} : HolderOfRoute(m)' = HolderOfRoute(m)
    BY <1>1, <2>2, ChildOwners DEF SameLive, HolderOfRoute, LiveOwner
  <2>4. HolderOfRoute(n)' = None
    BY <1>3 DEF TypeOK, ClusterTypeOK, HolderOfRoute, LiveOwner
  <2>5. Attachments' = [Attachments EXCEPT ![n]["httproute"] = None]
    BY <2>1, <2>3, <2>4, AttachmentEntries, AttachmentEntriesPrimed, ReplacedEntry
  <2>6. Lock!Detach(n, "httproute")
    BY <1>1, <1>2, <2>5 DEF Lock!Detach, Holder, Attachments
  <2>. QED
    BY <2>6 DEF Lock!Next, Lock!Parts
<1>4. CASE policies' = [policies EXCEPT ![n] = None] /\ UNCHANGED httproutes
  <2>1. \A m \in ChildKeys : HolderOfRoute(m)' = HolderOfRoute(m)
    BY <1>1, <1>4, KeptHolders
  <2>2. \A m \in ChildKeys \ {n} : policies'[m] = policies[m]
    BY <1>4 DEF TypeOK, ClusterTypeOK
  <2>3. \A m \in ChildKeys \ {n} : HolderOfPolicy(m)' = HolderOfPolicy(m)
    BY <1>1, <2>2, ChildOwners DEF SameLive, HolderOfPolicy, LiveOwner
  <2>4. HolderOfPolicy(n)' = None
    BY <1>4 DEF TypeOK, ClusterTypeOK, HolderOfPolicy, LiveOwner
  <2>5. Attachments' = [Attachments EXCEPT ![n]["policy"] = None]
    BY <2>1, <2>3, <2>4, AttachmentEntries, AttachmentEntriesPrimed, ReplacedEntry
  <2>6. Lock!Detach(n, "policy")
    BY <1>1, <1>2, <2>5 DEF Lock!Detach, Holder, Attachments
  <2>. QED
    BY <2>6 DEF Lock!Next, Lock!Parts
<1>. QED
  BY <1>3, <1>4

-----------------------------------------------------------------------------
(* The steps of the controller and of its environment.                     *)

\* A route created is a route of the lock with a fresh uid.
LEMMA CreateRouteStep ==
  ASSUME TypeOK, ChildLockInv, NEW r \in Routes, CreateRoute(r)
  PROVE  Lock!Next
<1>0. edits \in Nat /\ edits' = edits + 1 /\ UNCHANGED <<backends, httproutes, policies>>
  BY BoundsAssumption DEF CreateRoute, Edit, TypeOK, BoundsOK
<1>1. PICK spec \in RouteSpecs : RouteChanged(r, NewRoute(edits', spec))
  BY DEF CreateRoute
<1>. DEFINE o == [key |-> r, uid |-> edits']
<1>2. /\ routes[r] = None /\ routes'[r] # None /\ routes'[r].uid = edits'
      /\ \A s \in Routes \ {r} : routes'[s] = routes[s]
  <2>1. NewRoute(edits', spec) \in RouteObjects
    BY <1>0 DEF NewRoute, NoStatus, RouteObjects, Statuses
  <2>2. NewRoute(edits', spec) # None
    BY <2>1, NoObjectAssumption
  <2>. QED
    BY <1>1, <2>2 DEF CreateRoute, RouteChanged, NewRoute, TypeOK, ClusterTypeOK
<1>3. Existing' = Existing \cup {o}
  BY <1>2 DEF Existing
<1>4. o \notin Existing /\ o \in Owners
  <2>1. \A x \in Existing : x.key # r
    BY <1>2 DEF Existing
  <2>2. edits' \in Nat /\ o.key = r
    BY <1>0
  <2>. QED
    BY <2>1, <2>2 DEF Owners
<1>5. \A x \in Owners : x.uid <= edits => (Live(x)' <=> Live(x))
  BY <1>0, <1>2 DEF Live, Owners
<1>6. \A n \in ChildKeys : /\ Holder(n)' = Holder(n) /\ HolderOfRoute(n)' = HolderOfRoute(n)
                           /\ HolderOfPolicy(n)' = HolderOfPolicy(n)
  BY <1>0, <1>5, ChildOwners DEF Holder, HolderOfRoute, HolderOfPolicy, LiveOwner,
                                 ChildLockInv, UidsOld, AllChildren
<1>7. Lock!Appear
  BY <1>3, <1>4, <1>6 DEF Lock!Appear, Holder, HolderOfRoute, HolderOfPolicy
<1>. QED
  BY <1>7 DEF Lock!Next

\* A route deleted releases what it holds and what it attached.
LEMMA DeleteRouteStep ==
  ASSUME TypeOK, NEW r \in Routes, DeleteRoute(r)
  PROVE  Lock!Next
<1>. DEFINE o == [key |-> r, uid |-> routes[r].uid]
<1>1. /\ routes[r] # None /\ routes'[r] = None
      /\ \A s \in Routes \ {r} : routes'[s] = routes[s]
      /\ UNCHANGED <<backends, httproutes, policies>>
  BY DEF DeleteRoute, RouteChanged, TypeOK, ClusterTypeOK
<1>2. o \in Existing /\ o \in Owners
  BY <1>1 DEF Existing, Owners, TypeOK, ClusterTypeOK, RouteObjects
<1>3. Existing' = Existing \ {o}
  BY <1>1 DEF Existing
<1>4. \A x \in Owners : Live(x)' <=> Live(x) /\ x # o
  BY <1>1 DEF Live, Owners
<1>5. ASSUME NEW n \in ChildKeys
      PROVE  /\ Holder(n)' = IF Holder(n) = o THEN None ELSE Holder(n)
             /\ HolderOfRoute(n)' = IF HolderOfRoute(n) = o THEN None ELSE HolderOfRoute(n)
             /\ HolderOfPolicy(n)' = IF HolderOfPolicy(n) = o THEN None ELSE HolderOfPolicy(n)
  BY <1>1, <1>4, ChildOwners DEF Holder, HolderOfRoute, HolderOfPolicy, LiveOwner
<1>6. Lock!Vanish(o)
  <2>. HIDE DEF o
  <2>. QED
    BY <1>3, <1>5 DEF Lock!Vanish, Lock!Parts, Holder, HolderOfRoute, HolderOfPolicy
<1>. QED
  BY <1>2, <1>6 DEF Lock!Next

\* An edit of the spec keeps the uid.
LEMMA EditRouteStep ==
  ASSUME TypeOK, NEW r \in Routes, EditRoute(r)
  PROVE  UNCHANGED Lock!vars
<1>1. PICK spec \in RouteSpecs : RouteChanged(r, EditedRoute(routes[r], spec))
  BY DEF EditRoute
<1>2. routes[r] # None /\ routes[r] \in RouteObjects
  BY DEF EditRoute, TypeOK, ClusterTypeOK
<1>. DEFINE next == [routes[r] EXCEPT !.gen = @ + 1]
            obj  == EditedRoute(routes[r], spec)
<1>3. next.uid = routes[r].uid /\ next \in RouteObjects
  BY <1>2 DEF RouteObjects
<1>4. obj = [next EXCEPT !.spec = spec]
  BY DEF EditedRoute
<1>. HIDE DEF next
<1>5. obj.uid = routes[r].uid /\ obj # None
  BY <1>3, <1>4, NoObjectAssumption DEF RouteObjects
<1>6. routes' = [routes EXCEPT ![r] = obj]
  BY <1>1 DEF RouteChanged
<1>. HIDE DEF obj
<1>7. SameUids
  BY <1>2, <1>5, <1>6 DEF SameUids, TypeOK, ClusterTypeOK
<1>. QED
  BY <1>7, HiddenCluster DEF EditRoute

\* A user's change to an HTTPRoute keeps its controller or detaches it.
LEMMA TamperStep ==
  ASSUME TypeOK, NEW n \in ChildKeys, TamperHTTPRoute(n)
  PROVE  Lock!Next \/ UNCHANGED Lock!vars
<1>1. PICK obj \in {None, [httproutes[n] EXCEPT !.rules = None]} : HTTPRouteChanged(n, obj)
  BY DEF TamperHTTPRoute
<1>2. UNCHANGED <<routes, backends, policies>> /\ httproutes' = [httproutes EXCEPT ![n] = obj]
  BY <1>1 DEF TamperHTTPRoute, HTTPRouteChanged
<1>3. CASE obj = None
  BY <1>2, <1>3, DetachStep
<1>4. CASE obj # None
  <2>1. httproutes[n] # None /\ obj.owner = httproutes[n].owner
    BY <1>1, <1>4 DEF TamperHTTPRoute, TypeOK, ClusterTypeOK, HTTPRoutes
  <2>2. Existing' = Existing /\ SameLive
    BY <1>2, KeptUids DEF SameUids
  <2>3. \A m \in ChildKeys : HolderOfRoute(m)' = HolderOfRoute(m)
    <3>1. \A m \in ChildKeys : /\ httproutes'[m] # None <=> httproutes[m] # None
                               /\ httproutes[m] # None => httproutes'[m].owner = httproutes[m].owner
      BY <1>2, <1>4, <2>1 DEF TypeOK, ClusterTypeOK
    <3>. QED
      BY <2>2, <3>1, ChildOwners DEF SameLive, HolderOfRoute, LiveOwner
  <2>. QED
    BY <1>2, <2>2, <2>3, KeptHolders, Hidden
<1>. QED
  BY <1>3, <1>4

\* What the garbage collector removes had no holder any more.
LEMMA GarbageCollectorStep ==
  ASSUME TypeOK, GarbageCollector
  PROVE  UNCHANGED Lock!vars
<1>1. UNCHANGED routes
  BY DEF GarbageCollector, CollectBackend, CollectHTTPRoute, CollectPolicy
<1>2. Existing' = Existing /\ SameLive
  BY <1>1, KeptUids DEF SameUids
<1>3. ASSUME NEW m \in ChildKeys
      PROVE  /\ backends'[m] = backends[m] \/ (backends'[m] = None /\ Garbage(backends[m]))
             /\ httproutes'[m] = httproutes[m] \/ (httproutes'[m] = None /\ Garbage(httproutes[m]))
             /\ policies'[m] = policies[m] \/ (policies'[m] = None /\ Garbage(policies[m]))
  BY DEF GarbageCollector, CollectBackend, CollectHTTPRoute, CollectPolicy, HTTPRouteChanged,
         TypeOK, ClusterTypeOK
<1>4. ASSUME NEW m \in ChildKeys
      PROVE  /\ Holder(m)' = Holder(m) /\ HolderOfRoute(m)' = HolderOfRoute(m)
             /\ HolderOfPolicy(m)' = HolderOfPolicy(m)
  BY <1>2, <1>3, ChildOwners DEF SameLive, Garbage, Holder, HolderOfRoute, HolderOfPolicy, LiveOwner
<1>. QED
  BY <1>2, <1>4, Hidden

\* Under the lock: the worker's name is held by nobody but its own route.
LEMMA UnderLock ==
  ASSUME TypeOK, ChildLockInv, job # Idle, JobKey \in ChildKeys,
         job.pc \in {"httproute", "policy"}
  PROVE  /\ JobRef \in Owners /\ JobRef # None
         /\ Live(JobRef) => Holder(JobKey) = JobRef
         /\ HolderOfRoute(JobKey) \in {None} \cup (IF Live(JobRef) THEN {JobRef} ELSE {})
         /\ HolderOfPolicy(JobKey) \in {None} \cup (IF Live(JobRef) THEN {JobRef} ELSE {})
<1>1. JobRef \in Owners /\ JobRef # None
  BY NoneAssumption DEF TypeOK, JobTypeOK, Jobs, JobRef, ControllerRef, Owners, RouteObjects
<1>2. Live(JobRef) => Holder(JobKey) = JobRef
  BY DEF ChildLockInv, WorkerHoldsLock, Holder, LiveOwner
<1>3. ASSUME NEW obj \in {httproutes[JobKey], policies[JobKey]}, obj # None, Live(obj.owner)
      PROVE  obj.owner = JobRef
  <2>1. backends[JobKey] # None /\ backends[JobKey].owner = obj.owner
    BY <1>3 DEF ChildLockInv, BackendIsLock
  <2>2. backends[JobKey].owner.key = job.route
    BY <2>1 DEF ChildLockInv, WorkerHoldsLock
  <2>. QED
    BY <1>3, <2>1, <2>2 DEF ChildLockInv, JobNotOutdated
<1>. QED
  BY <1>1, <1>2, <1>3 DEF HolderOfRoute, HolderOfPolicy, LiveOwner

\* ensureBackend takes a free name, or writes its own Backend, which is hidden.
LEMMA EnsureBackendStep ==
  ASSUME TypeOK, ChildLockInv, ensureBackend
  PROVE  Lock!Next \/ UNCHANGED Lock!vars
<1>. DEFINE want == BackendFor(job.route, job.read, jobTarget)
            new  == CreateOrPatch(backends[JobKey], backends[JobKey], want)
<1>0. job # Idle /\ job.pc # "notready" /\ UNCHANGED <<routes, httproutes, policies>>
  BY DEF ensureBackend, Idle
<1>1. Existing' = Existing /\ SameLive
  BY <1>0, KeptUids DEF SameUids
<1>2. CASE new = Failed
  BY <1>0, <1>2, HiddenCluster DEF ensureBackend, SameUids
<1>3. CASE new # Failed
  <2>1. /\ want = [f \in DOMAIN want |-> want[f]]
        /\ want.owner = JobRef /\ want.owner.key = job.route
    BY DEF BackendFor, JobRef, ControllerRef
  <2>2. want \in Backends /\ JobKey \in ChildKeys /\ JobRef \in Owners
    BY <1>0, WantedTypes DEF JobRef
  <2>3. new = want /\ (backends[JobKey] # None => backends[JobKey].owner.key = job.route)
    BY <1>3, <2>1, PatchLive
  <2>4. backends' = [backends EXCEPT ![JobKey] = want]
    BY <1>3, <2>3 DEF ensureBackend
  <2>5. PICK n \in ChildKeys, o \in Owners, w \in Backends : n = JobKey /\ o = JobRef /\ w = want
    BY <2>2
  <2>. HIDE DEF want
  <2>6. w # None /\ o # None /\ w.owner = o
    BY <2>1, <2>5, NoneAssumption
  <2>7. /\ Holder(n) # None => Holder(n) = o
        /\ Holder(n) = o => Live(o)
    BY <1>0, <2>3, <2>5, <2>6 DEF ChildLockInv, JobNotOutdated, Holder, LiveOwner
  <2>8. backends'[n] = w /\ \A m \in ChildKeys \ {n} : backends'[m] = backends[m]
    BY <2>4, <2>5 DEF TypeOK, ClusterTypeOK
  <2>9. \A m \in ChildKeys \ {n} : Holder(m)' = Holder(m)
    BY <1>1, <2>8, ChildOwners DEF SameLive, Holder, LiveOwner
  <2>10. Holder(n)' = IF Live(o) THEN o ELSE None
    BY <1>1, <2>6, <2>8 DEF Holder, LiveOwner, SameLive
  <2>11. \A m \in ChildKeys : /\ HolderOfRoute(m)' = HolderOfRoute(m)
                              /\ HolderOfPolicy(m)' = HolderOfPolicy(m)
    BY <1>0, <1>1, KeptHolders
  <2>12. CASE Holder(n) = None /\ Live(o)
    <3>. DEFINE held == [m \in ChildKeys |-> LiveOwner(backends[m])]
    <3>1. held' = [held EXCEPT ![n] = o] /\ held[n] = None
      BY <2>9, <2>10, <2>12 DEF Holder
    <3>2. Attachments' = Attachments
      BY <2>11, AttachmentEntries, AttachmentEntriesPrimed
    <3>3. o \in Existing
      BY <2>12 DEF Existing, Live, Owners
    <3>4. Lock!Acquire(n, o)
      BY <1>1, <3>1, <3>2 DEF Lock!Acquire, Attachments
    <3>. QED
      BY <3>3, <3>4 DEF Lock!Next
  <2>13. CASE ~(Holder(n) = None /\ Live(o))
    <3>1. \A m \in ChildKeys : Holder(m)' = Holder(m)
      BY <2>7, <2>9, <2>10, <2>13
    <3>. QED
      BY <1>1, <2>11, <3>1, Hidden
  <2>. QED
    BY <2>12, <2>13
<1>. QED
  BY <1>2, <1>3

\* A child written by the worker belongs to the holder of the name, or keeps
\* the controller it had.
LEMMA ChildWriteStep ==
  ASSUME TypeOK, ChildLockInv, job # Idle, JobKey \in ChildKeys,
         job.pc \in {"httproute", "policy"}, UNCHANGED <<routes, backends>>, NEW obj,
         \/ /\ httproutes' = [httproutes EXCEPT ![JobKey] = obj] /\ UNCHANGED policies
            /\ Written(JobKey, httproutes[JobKey], obj)
         \/ /\ policies' = [policies EXCEPT ![JobKey] = obj] /\ UNCHANGED httproutes
            /\ Written(JobKey, policies[JobKey], obj)
  PROVE  Lock!Next \/ UNCHANGED Lock!vars
<1>1. Existing' = Existing /\ SameLive
  BY KeptUids DEF SameUids
<1>2. CASE obj = None
  BY <1>2, DetachStep
<1>3. PICK n \in ChildKeys, o \in Owners : n = JobKey /\ o = JobRef
  BY UnderLock
<1>4. /\ o # None /\ (Live(o) => Holder(n) = o)
      /\ HolderOfRoute(n) = None \/ (Live(o) /\ HolderOfRoute(n) = o)
      /\ HolderOfPolicy(n) = None \/ (Live(o) /\ HolderOfPolicy(n) = o)
  BY <1>3, UnderLock
<1>5. CASE obj # None /\ httproutes' = [httproutes EXCEPT ![n] = obj] /\ UNCHANGED policies
           /\ Written(JobKey, httproutes[n], obj)
  <2>1. httproutes'[n] = obj /\ \A m \in ChildKeys \ {n} : httproutes'[m] = httproutes[m]
    BY <1>5 DEF TypeOK, ClusterTypeOK
  <2>2. \A m \in ChildKeys \ {n} : HolderOfRoute(m)' = HolderOfRoute(m)
    BY <1>1, <2>1, ChildOwners DEF SameLive, HolderOfRoute, LiveOwner
  <2>3. CASE obj.owner = o
    <3>1. HolderOfRoute(n)' = IF Live(o) THEN o ELSE None
      BY <1>1, <1>5, <2>1, <2>3 DEF HolderOfRoute, LiveOwner, SameLive
    <3>2. CASE HolderOfRoute(n) = None /\ Live(o)
      BY <1>4, <1>5, <2>1, <3>1, <3>2, AttachStep
    <3>3. CASE ~(HolderOfRoute(n) = None /\ Live(o))
      <4>1. \A m \in ChildKeys : HolderOfRoute(m)' = HolderOfRoute(m)
        BY <1>4, <2>2, <3>1, <3>3
      <4>. QED
        BY <1>1, <1>5, <4>1, KeptHolders, Hidden
    <3>. QED
      BY <3>2, <3>3
  <2>4. CASE httproutes[n] # None /\ obj.owner = httproutes[n].owner
    <3>1. HolderOfRoute(n)' = HolderOfRoute(n)
      BY <1>1, <1>5, <2>1, <2>4, ChildOwners DEF HolderOfRoute, LiveOwner, SameLive
    <3>. QED
      BY <1>1, <1>5, <2>2, <3>1, KeptHolders, Hidden
  <2>. QED
    BY <1>3, <1>5, <2>3, <2>4 DEF Written, SameController
<1>6. CASE obj # None /\ policies' = [policies EXCEPT ![n] = obj] /\ UNCHANGED httproutes
           /\ Written(JobKey, policies[n], obj)
  <2>1. policies'[n] = obj /\ \A m \in ChildKeys \ {n} : policies'[m] = policies[m]
    BY <1>6 DEF TypeOK, ClusterTypeOK
  <2>2. \A m \in ChildKeys \ {n} : HolderOfPolicy(m)' = HolderOfPolicy(m)
    BY <1>1, <2>1, ChildOwners DEF SameLive, HolderOfPolicy, LiveOwner
  <2>3. CASE obj.owner = o
    <3>1. HolderOfPolicy(n)' = IF Live(o) THEN o ELSE None
      BY <1>1, <1>6, <2>1, <2>3 DEF HolderOfPolicy, LiveOwner, SameLive
    <3>2. CASE HolderOfPolicy(n) = None /\ Live(o)
      BY <1>4, <1>6, <2>1, <3>1, <3>2, AttachStep
    <3>3. CASE ~(HolderOfPolicy(n) = None /\ Live(o))
      <4>1. \A m \in ChildKeys : HolderOfPolicy(m)' = HolderOfPolicy(m)
        BY <1>4, <2>2, <3>1, <3>3
      <4>. QED
        BY <1>1, <1>6, <4>1, KeptHolders, Hidden
    <3>. QED
      BY <3>2, <3>3
  <2>4. CASE policies[n] # None /\ obj.owner = policies[n].owner
    <3>1. HolderOfPolicy(n)' = HolderOfPolicy(n)
      BY <1>1, <1>6, <2>1, <2>4, ChildOwners DEF HolderOfPolicy, LiveOwner, SameLive
    <3>. QED
      BY <1>1, <1>6, <2>2, <3>1, KeptHolders, Hidden
  <2>. QED
    BY <1>3, <1>6, <2>3, <2>4 DEF Written, SameController
<1>. QED
  BY <1>2, <1>3, <1>5, <1>6

\* ensureHTTPRoute attaches under the lock, or writes its own HTTPRoute.
LEMMA EnsureHTTPRouteStep ==
  ASSUME TypeOK, ChildLockInv, ensureHTTPRoute
  PROVE  Lock!Next \/ UNCHANGED Lock!vars
<1>. DEFINE want == HTTPRouteFor(job.route, job.read, job.gw)
            new  == CreateOrPatch(cHTTPRoutes[JobKey], httproutes[JobKey], want)
<1>0. job # Idle /\ job.pc = "httproute" /\ UNCHANGED <<routes, backends, policies>>
  BY DEF ensureHTTPRoute, Idle
<1>1. CASE new = Failed
  BY <1>0, <1>1, HiddenCluster DEF ensureHTTPRoute, SameUids
<1>2. CASE new # Failed
  <2>1. JobKey \in ChildKeys /\ want \in HTTPRoutes
    BY <1>0, WantedTypes
  <2>2. want.owner = JobRef
    BY DEF HTTPRouteFor, JobRef
  <2>3. httproutes[JobKey] \in HTTPRoutes \cup {None}
    BY <2>1 DEF TypeOK, ClusterTypeOK
  <2>4. httproutes' = [httproutes EXCEPT ![JobKey] = new]
    BY <1>2 DEF ensureHTTPRoute, HTTPRouteChanged
  <2>5. Written(JobKey, httproutes[JobKey], new)
    <3>. HIDE DEF want
    <3>. QED
      BY <1>2, <2>1, <2>2, <2>3, PatchCached, MergedHTTPRoute DEF Written, SameController
  <2>. HIDE DEF want, new
  <2>. QED
    BY <1>0, <2>1, <2>4, <2>5, ChildWriteStep
<1>. QED
  BY <1>1, <1>2

\* ensurePolicy attaches or detaches under the lock.
LEMMA EnsurePolicyStep ==
  ASSUME TypeOK, ChildLockInv, ensurePolicy
  PROVE  Lock!Next \/ UNCHANGED Lock!vars
<1>. DEFINE want == PolicyFor(job.route, job.read, job.gw)
            new  == IF want = None THEN None
                    ELSE CreateOrPatch(policies[JobKey], policies[JobKey], want)
<1>0. job # Idle /\ job.pc = "policy" /\ UNCHANGED <<routes, backends, httproutes>>
  BY DEF ensurePolicy, Idle
<1>1. CASE new = Failed
  BY <1>0, <1>1, HiddenCluster DEF ensurePolicy, SameUids
<1>2. CASE new # Failed
  <2>1. JobKey \in ChildKeys /\ want \in Policies \cup {None}
    BY <1>0, WantedTypes
  <2>2. want # None => want.owner = JobRef
    BY DEF PolicyFor, JobRef
  <2>3. new = want
    <3>1. want \in Policies => want = [f \in DOMAIN want |-> want[f]]
      BY DEF Policies
    <3>. HIDE DEF want
    <3>. QED
      BY <1>2, <2>1, <3>1, PatchLive
  <2>4. policies' = [policies EXCEPT ![JobKey] = want]
    BY <1>2, <2>3 DEF ensurePolicy
  <2>5. Written(JobKey, policies[JobKey], want)
    BY <2>2 DEF Written, SameController
  <2>. HIDE DEF want
  <2>. QED
    BY <1>0, <2>1, <2>4, <2>5, ChildWriteStep
<1>. QED
  BY <1>1, <1>2

\* The statuses that Reconcile wants are statuses.
LEMMA WantedStatus ==
  ASSUME TypeOK, job # Idle
  PROVE  /\ job.pc = "ready" => ReadyStatus(job.read, job.gw) \in Statuses
         /\ job.pc = "notready" =>
              NotReadyStatus(job.read, job.reason, failureMessage) \in Statuses
<1>1. job \in Jobs /\ job.read \in RouteObjects
  BY DEF TypeOK, JobTypeOK, Jobs
<1>2. ASSUME job.pc = "ready" PROVE ReadyStatus(job.read, job.gw) \in Statuses
  <2>1. job.gw \in Gateways
    BY <1>2 DEF TypeOK, JobTypeOK
  <2>. QED
    BY <1>1, <2>1 DEF ReadyStatus, Statuses, Conditions, Reasons, Messages, GatewayKeys,
                      RouteObjects
<1>3. ASSUME job.pc = "notready"
      PROVE  NotReadyStatus(job.read, job.reason, failureMessage) \in Statuses
  <2>1. job.reason \in Reasons
    BY <1>3 DEF TypeOK, JobTypeOK
  <2>2. failureMessage \in Messages
    BY <1>1 DEF failureMessage, Messages, Jobs, RouteObjects
  <2>. QED
    BY <1>1, <2>1, <2>2 DEF NotReadyStatus, Statuses, Conditions, RouteObjects
<1>. QED
  BY <1>2, <1>3

\* A status patch changes the status of one route and nothing else.
LEMMA StatusPatched ==
  ASSUME TypeOK, job # Idle, routes[job.route] # None, NEW want \in Statuses, PatchStatus(want)
  PROVE  /\ routes'[job.route] \in RouteObjects /\ routes'[job.route] # None
         /\ routes'[job.route].uid = routes[job.route].uid
         /\ routes'[job.route].gen = routes[job.route].gen
         /\ routes'[job.route].spec = routes[job.route].spec
         /\ routes'[job.route].status =
              MergePatch(job.read.status, routes[job.route].status, want)
         /\ \A r \in Routes \ {job.route} : routes'[r] = routes[r]
<1>. DEFINE live == routes[job.route]
            status == MergePatch(job.read.status, live.status, want)
            obj == [live EXCEPT !.status = status]
<1>1. job.route \in Routes
  BY DEF TypeOK, JobTypeOK, Jobs
<1>2. live \in RouteObjects /\ live.status \in Statuses
  BY <1>1 DEF TypeOK, ClusterTypeOK, RouteObjects
<1>3. status \in Statuses
  BY <1>2, MergedStatus
<1>4. routes' = [routes EXCEPT ![job.route] = obj]
  BY DEF PatchStatus, RouteChanged
<1>5. /\ obj \in RouteObjects /\ obj.uid = live.uid /\ obj.gen = live.gen /\ obj.spec = live.spec
      /\ obj.status = status
  <2>. HIDE DEF live, status
  <2>. QED
    BY <1>2, <1>3 DEF RouteObjects
<1>6. routes'[job.route] = obj /\ \A r \in Routes \ {job.route} : routes'[r] = routes[r]
  <2>. HIDE DEF obj
  <2>. QED
    BY <1>1, <1>4 DEF TypeOK, ClusterTypeOK
<1>. HIDE DEF obj, status
<1>7. obj # None
  BY <1>5, NoObjectAssumption
<1>. QED
  BY <1>5, <1>6, <1>7 DEF status

\* Status writes are hidden.
LEMMA StatusStep ==
  ASSUME TypeOK, updateStatusReady \/ updateStatusNotReady
  PROVE  UNCHANGED Lock!vars
<1>0. job # Idle /\ UNCHANGED <<backends, httproutes, policies>>
  <2>1. job.pc \in {"ready", "notready"} /\ UNCHANGED <<backends, httproutes, policies>>
    BY Zenon DEF updateStatusReady, updateStatusNotReady
  <2>. QED
    BY <2>1 DEF Idle
<1>1. CASE routes[job.route] = None
  BY <1>0, <1>1, HiddenCluster DEF updateStatusReady, updateStatusNotReady, SameUids
<1>2. CASE routes[job.route] # None
  <2>1. PICK want \in Statuses : PatchStatus(want)
    BY <1>0, <1>2, WantedStatus DEF updateStatusReady, updateStatusNotReady
  <2>2. SameUids
    BY <1>0, <1>2, <2>1, StatusPatched DEF SameUids
  <2>. QED
    BY <1>0, <2>2, HiddenCluster
<1>. QED
  BY <1>1, <1>2

\* Every step is a step of the lock or hidden.
LEMMA NextRefines ==
  TypeOK /\ ChildLockInv /\ [Next]_vars => [Lock!Next]_(Lock!vars)
<1>. SUFFICES ASSUME TypeOK, ChildLockInv, [Next]_vars
              PROVE  Lock!Next \/ UNCHANGED Lock!vars
  OBVIOUS
<1>1. ASSUME UNCHANGED cluster PROVE UNCHANGED Lock!vars
  BY <1>1, HiddenCluster DEF cluster, SameUids
<1>2. CASE Users
  <2>1. ASSUME UNCHANGED <<routes, backends, httproutes, policies>> PROVE UNCHANGED Lock!vars
    BY <2>1, HiddenCluster DEF SameUids
  <2>. QED
    BY <1>2, <2>1, CreateRouteStep, EditRouteStep, DeleteRouteStep, TamperStep
       DEF Users, SetGateway, SetServer
<1>3. CASE Informers
  BY <1>1, <1>3 DEF Informers, SyncRoute, SyncGateway, SyncServer, SyncHTTPRoute,
                    HandleRoute, HandleGateway, HandleServer, HandleHTTPRoute
<1>4. CASE \E r \in Routes : Begin(r)
  BY <1>1, <1>4 DEF Begin, BeginNotFound, BeginGatewayNotFound, BeginNotOwned, BeginOwned
<1>5. CASE Proceed
  BY <1>1, <1>5, EnsureBackendStep, EnsureHTTPRouteStep, EnsurePolicyStep, StatusStep
     DEF Proceed, UpstreamUnresolved, updateStatusNotReadyNotFound
<1>6. CASE CallFails \/ Restart
  BY <1>1, <1>6 DEF CallFails, Restart
<1>7. CASE UNCHANGED vars
  BY <1>1, <1>7 DEF vars
<1>. QED
  BY <1>2, <1>3, <1>4, <1>5, <1>6, <1>7, GarbageCollectorStep DEF Next, Worker

\* Initial states map to initial states.
LEMMA InitRefines == Init => Lock!Init
<1>. SUFFICES ASSUME Init PROVE Lock!Init
  OBVIOUS
<1>1. Existing \subseteq Owners
  <2>1. \A r \in Routes : routes[r] # None => routes[r].uid \in Nat
    BY InitType DEF TypeOK, ClusterTypeOK, RouteObjects
  <2>. QED
    BY <2>1 DEF Existing, Owners
<1>. QED
  BY <1>1 DEF Init, Lock!Init, Lock!Parts, LiveOwner

\* The controller, with its caches, retries, restarts and garbage collection,
\* implements the lock of ChildNames: a child name is acquired in one step,
\* stays with its holder until that route is deleted, and only the holder
\* attaches an HTTPRoute or a policy under it.
THEOREM RefinesChildNames == Spec => ImplementsChildNames
<1>1. TypeOK /\ ChildLockInv /\ [Next]_vars => (TypeOK /\ ChildLockInv)'
  BY NextType, NextLock
<1>. QED
  BY <1>1, InitType, InitLock, InitRefines, NextRefines, PTL
     DEF Spec, ImplementsChildNames, Lock!Spec
=============================================================================
