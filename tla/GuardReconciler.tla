-------------------------- MODULE GuardReconciler --------------------------
(***************************************************************************)
(* The Guard controller (guard_reconciler.go) in its cluster.  For every   *)
(* Guard it keeps the adapter triple: a ConfigMap with the rendered        *)
(* configuration, a Deployment whose pod template carries the hash of that *)
(* configuration, and a Service.  All kinds it reads are cached.           *)
(*                                                                         *)
(* The Deployment's pods are modelled as far as the hash annotation        *)
(* matters: a change of the pod template replaces them, and starting pods  *)
(* load the ConfigMap as it is then.                                       *)
(***************************************************************************)
EXTENDS Integers, GuardStaticConfig

CONSTANTS
  Guards, Providers,       \* the keys [ns, name] that may be in use
  GuardSpecs,              \* [provider, mode, presidio] a user may write
  ProviderSpecs,           \* [type, baseUrl] a user may write
  AdapterImages,           \* --guardrail-adapter-image of a start; None: not set
  MaxEdits, MaxFaults, MaxCrashes,   \* bounds on changes, failing calls, restarts
  MaxDisturbances                    \* bound on all three together

ASSUME BoundsAssumption ==
  /\ MaxEdits \in Nat /\ MaxFaults \in Nat /\ MaxCrashes \in Nat
  /\ MaxDisturbances \in Nat

ASSUME NoneAssumption ==
  /\ None \notin Guards /\ None \notin GuardSpecs /\ None \notin ProviderSpecs
  /\ Failed # None

VARIABLES
  guards,      \* Guards -> [uid, gen, spec, status] or None
  providers,   \* Providers -> [type, baseUrl] or None
  adapters,    \* kind -> Guards -> child or None
  pods,        \* Guards -> the configuration the pods loaded, or None
  cGuards, cProviders, cAdapters,      \* the informer caches
  wGuards, wProviders, wAdapters,      \* unhandled watch events
  image,       \* the adapter image this process was started with
  queue, job,
  swallowed,   \* Guards whose last status write failed without a retry
  edits, faults, crashes

cluster == <<guards, providers, adapters, pods>>
caches  == <<cGuards, cProviders, cAdapters>>
watches == <<wGuards, wProviders, wAdapters>>
vars    == <<cluster, caches, watches, image, queue, job, swallowed, edits, faults, crashes>>

Kinds == {"configmap", "deployment", "service"}

NoStatus == [cond |-> None]

\* read is Reconcile's copy of the Guard, config what it rendered from it.
Job(pc, k, read, config, reason, message) ==
  [pc |-> pc, key |-> k, read |-> read, config |-> config,
   reason |-> reason, message |-> message]

Idle == Job("idle", None, None, None, None, None)

-----------------------------------------------------------------------------
(* The children of a Guard, all named <guard>-adapter in its namespace.    *)

\* Mutant: the owner reference lacks the uid.
OwnerWithoutUID(k, obj) == [key |-> k, uid |-> None]

Owner(k, obj) == [key |-> k, uid |-> obj.uid]

ConfigMapFor(k, obj, config) == [owner |-> Owner(k, obj), data |-> config]

DeploymentFor(k, obj, config, img) ==
  [owner |-> Owner(k, obj), hash |-> configHash(config), podSpec |-> img]

ServiceFor(k, obj) == [owner |-> Owner(k, obj), ports |-> "ext-proc"]

AdapterFor(kind, k, obj, config, img) ==
  CASE kind = "configmap"  -> ConfigMapFor(k, obj, config)
    [] kind = "deployment" -> DeploymentFor(k, obj, config, img)
    [] kind = "service"    -> ServiceFor(k, obj)

\* Mutant: the namespace of a provider reference does not default.
findGuardsNoDefaultNamespace(objs, p) ==
  {k \in Guards : objs[k] # None /\ objs[k].spec.provider = p}

findGuardsForProvider(objs, p) ==
  {k \in Guards : objs[k] # None /\ RefKey(objs[k].spec.provider, k.ns) = p}

GuardChanged(k, obj) ==
  /\ guards'  = [guards EXCEPT ![k] = obj]
  /\ wGuards' = IF obj = guards[k] THEN wGuards ELSE wGuards \cup {k}

\* A new pod template, or none, ends the pods of the old one.
SameTemplate(old, new) == /\ old # None /\ new # None
                          /\ old.hash = new.hash /\ old.podSpec = new.podSpec

\* Mutant: Deployments are not watched.
AdapterChangedUnwatched(kind, k, obj) ==
  /\ adapters'  = [adapters EXCEPT ![kind][k] = obj]
  /\ wAdapters' = IF kind = "deployment" \/ obj = adapters[kind][k] THEN wAdapters
                  ELSE wAdapters \cup {<<kind, k>>}
  /\ UNCHANGED pods

AdapterChanged(kind, k, obj) ==
  LET old == adapters[kind][k]
  IN  /\ adapters'  = [adapters EXCEPT ![kind][k] = obj]
      /\ wAdapters' = IF obj = old THEN wAdapters ELSE wAdapters \cup {<<kind, k>>}
      /\ pods'      = IF kind = "deployment" /\ ~SameTemplate(old, obj)
                      THEN [pods EXCEPT ![k] = None] ELSE pods

-----------------------------------------------------------------------------
(* The users, the garbage collector and the kubelet.                       *)

MayDisturb == edits + faults + crashes < MaxDisturbances

Edit == MayDisturb /\ edits < MaxEdits /\ edits' = edits + 1

NewGuard(uid, spec) == [uid |-> uid, gen |-> 1, spec |-> spec, status |-> NoStatus]

\* The API server counts the changes of a spec in metadata.generation.
EditedGuard(obj, spec) ==
  [uid |-> obj.uid, gen |-> obj.gen + 1, spec |-> spec, status |-> obj.status]

CreateGuard(k) ==
  /\ Edit
  /\ guards[k] = None
  /\ \E spec \in GuardSpecs : GuardChanged(k, NewGuard(edits', spec))
  /\ UNCHANGED <<providers, adapters, pods, caches, wProviders, wAdapters, image, queue,
                 job, swallowed, faults, crashes>>

EditGuard(k) ==
  /\ Edit
  /\ guards[k] # None
  /\ \E spec \in GuardSpecs \ {guards[k].spec} :
       GuardChanged(k, EditedGuard(guards[k], spec))
  /\ UNCHANGED <<providers, adapters, pods, caches, wProviders, wAdapters, image, queue,
                 job, swallowed, faults, crashes>>

DeleteGuard(k) ==
  /\ Edit
  /\ guards[k] # None
  /\ GuardChanged(k, None)
  /\ UNCHANGED <<providers, adapters, pods, caches, wProviders, wAdapters, image, queue,
                 job, swallowed, faults, crashes>>

SetProvider(p) ==
  /\ Edit
  /\ \E v \in (ProviderSpecs \cup {None}) \ {providers[p]} :
       providers' = [providers EXCEPT ![p] = v]
  /\ wProviders' = wProviders \cup {p}
  /\ UNCHANGED <<guards, adapters, pods, caches, wGuards, wAdapters, image, queue,
                 job, swallowed, faults, crashes>>

\* Someone deletes a child.
DeleteAdapter(kind, k) ==
  /\ Edit
  /\ adapters[kind][k] # None
  /\ AdapterChanged(kind, k, None)
  /\ UNCHANGED <<guards, providers, caches, wGuards, wProviders, image, queue,
                 job, swallowed, faults, crashes>>

Live(owner) == guards[owner.key] # None /\ guards[owner.key].uid = owner.uid

Collect(kind, k) ==
  /\ adapters[kind][k] # None /\ ~Live(adapters[kind][k].owner)
  /\ AdapterChanged(kind, k, None)
  /\ UNCHANGED <<guards, providers, caches, wGuards, wProviders, image, queue,
                 job, swallowed, edits, faults, crashes>>

StartPods(k) ==
  /\ pods[k] = None
  /\ adapters["deployment"][k] # None /\ adapters["configmap"][k] # None
  /\ pods' = [pods EXCEPT ![k] = adapters["configmap"][k].data]
  /\ UNCHANGED <<guards, providers, adapters, caches, watches, image, queue,
                 job, swallowed, edits, faults, crashes>>

-----------------------------------------------------------------------------
(* The informers update a cache first and call the event handler later.    *)

SyncGuard(k) ==
  /\ cGuards[k] # guards[k]
  /\ cGuards' = [cGuards EXCEPT ![k] = guards[k]]
  /\ UNCHANGED <<cluster, cProviders, cAdapters, watches, image, queue, job, swallowed,
                 edits, faults, crashes>>

SyncProvider(p) ==
  /\ cProviders[p] # providers[p]
  /\ cProviders' = [cProviders EXCEPT ![p] = providers[p]]
  /\ UNCHANGED <<cluster, cGuards, cAdapters, watches, image, queue, job, swallowed,
                 edits, faults, crashes>>

SyncAdapter(kind, k) ==
  /\ cAdapters[kind][k] # adapters[kind][k]
  /\ cAdapters' = [cAdapters EXCEPT ![kind][k] = adapters[kind][k]]
  /\ UNCHANGED <<cluster, cGuards, cProviders, watches, image, queue, job, swallowed,
                 edits, faults, crashes>>

HandleGuard(k) ==
  /\ k \in wGuards /\ cGuards[k] = guards[k]
  /\ wGuards' = wGuards \ {k}
  /\ queue'   = queue \cup {k}
  /\ UNCHANGED <<cluster, caches, wProviders, wAdapters, image, job, swallowed,
                 edits, faults, crashes>>

HandleProvider(p) ==
  /\ p \in wProviders /\ cProviders[p] = providers[p]
  /\ wProviders' = wProviders \ {p}
  /\ queue'      = queue \cup findGuardsForProvider(cGuards, p)
  /\ UNCHANGED <<cluster, caches, wGuards, wAdapters, image, job, swallowed,
                 edits, faults, crashes>>

\* Owns: a child's event enqueues its controller, the Guard it is named after.
HandleAdapter(kind, k) ==
  /\ <<kind, k>> \in wAdapters /\ cAdapters[kind][k] = adapters[kind][k]
  /\ wAdapters' = wAdapters \ {<<kind, k>>}
  /\ queue'     = queue \cup {k}
  /\ UNCHANGED <<cluster, caches, wGuards, wProviders, image, job, swallowed,
                 edits, faults, crashes>>

-----------------------------------------------------------------------------
(* Reconcile up to its first write.                                        *)

Dequeue(k) == /\ job = Idle /\ k \in queue
              /\ queue' = queue \ {k}
              /\ swallowed' = swallowed \ {k}

fetchProvider(obj, k, provs) == Get(provs, RefKey(obj.spec.provider, k.ns))

\* What reconcileGuard decides before it writes anything.
Decision(obj, k, provs, img) ==
  LET provider == fetchProvider(obj, k, provs)
  IN  IF img = None THEN Rejected(guardReasonAdapterNotConfigured, None)
      ELSE IF provider = None THEN Rejected(guardReasonProviderNotFound, None)
      ELSE renderStaticConfig(obj.spec, provider)

\* Mutant: every failure counts as terminal.
isAnyReason(reason) == reason # None

isTerminalReason(reason) ==
  reason \in {guardReasonAdapterNotConfigured, guardReasonProviderNotFound,
              guardReasonUnsupportedProviderType, guardReasonInvalidConfig}

BeginNotFound(k) ==
  /\ Dequeue(k)
  /\ cGuards[k] = None
  /\ UNCHANGED <<cluster, caches, watches, image, job, edits, faults, crashes>>

Begin(k) ==
  /\ Dequeue(k)
  /\ cGuards[k] # None
  /\ LET d == Decision(cGuards[k], k, cProviders, image)
     IN  job' = Job(IF d.reason = None THEN "configmap" ELSE "notready",
                    k, cGuards[k], d.config, d.reason, d.message)
  /\ UNCHANGED <<cluster, caches, watches, image, edits, faults, crashes>>

-----------------------------------------------------------------------------
(* ensureConfigMap, ensureDeployment, ensureService, in this order.        *)

Fault == MayDisturb /\ faults < MaxFaults /\ faults' = faults + 1

Fail == job' = Job("notready", job.key, job.read, job.config, guardReasonReconcileFailed, None)

ensure(kind, next) ==
  /\ job.pc = kind
  /\ LET new == CreateOrPatch(cAdapters[kind][job.key], adapters[kind][job.key],
                              AdapterFor(kind, job.key, job.read, job.config, image))
     IN  IF new = Failed
         THEN Fail /\ UNCHANGED <<adapters, wAdapters, pods, faults>>
         ELSE /\ AdapterChanged(kind, job.key, new)
              /\ \/ /\ job' = Job(next, job.key, job.read, job.config, None, None)
                    /\ UNCHANGED faults
                 \/ Fail /\ Fault            \* the answer was lost
  /\ UNCHANGED <<guards, providers, caches, wGuards, wProviders, image, queue, swallowed,
                 edits, crashes>>

ensureConfigMap  == ensure("configmap", "deployment")
ensureDeployment == ensure("deployment", "service")
ensureService    == ensure("service", "ready")

-----------------------------------------------------------------------------
(* The status patch and the return.                                        *)

Return(err) == job' = Idle /\ queue' = IF err THEN queue \cup {job.key} ELSE queue

Condition(obj, status, reason, message) ==
  [status |-> status, reason |-> reason, message |-> message, gen |-> obj.gen]

setReadyCondition(status, reason, message) ==
  LET live == guards[job.key]
      want == [cond |-> Condition(job.read, status, reason, message)]
  IN  GuardChanged(job.key, [live EXCEPT !.status = MergePatch(job.read.status, @, want)])

WriteReady ==
  /\ job.pc = "ready"
  /\ IF guards[job.key] = None
     THEN Return(TRUE) /\ UNCHANGED <<guards, wGuards, faults>>
     ELSE /\ setReadyCondition("True", guardReasonReconciled, None)
          /\ (Return(FALSE) /\ UNCHANGED faults) \/ (Return(TRUE) /\ Fault)
  /\ UNCHANGED <<providers, adapters, pods, caches, wProviders, wAdapters, image, swallowed,
                 edits, crashes>>

\* A terminal reason returns nil: the watches are to bring the Guard back.
WriteNotReady ==
  /\ job.pc = "notready"
  /\ guards[job.key] # None
  /\ setReadyCondition("False", job.reason, job.message)
  /\ Return(~isTerminalReason(job.reason))
  /\ UNCHANGED <<providers, adapters, pods, caches, wProviders, wAdapters, image, swallowed,
                 edits, faults, crashes>>

\* The status patch failed: logged, and forgotten if the reason is terminal.
NotReadyNotWritten ==
  /\ Return(~isTerminalReason(job.reason))
  /\ swallowed' = IF isTerminalReason(job.reason) THEN swallowed \cup {job.key} ELSE swallowed

WriteNotReadyNotFound ==
  /\ job.pc = "notready"
  /\ guards[job.key] = None
  /\ NotReadyNotWritten
  /\ UNCHANGED <<cluster, caches, watches, image, edits, faults, crashes>>

\* The call the worker is about to make fails without effect.
CallFails ==
  /\ Fault
  /\ \/ job.pc \in Kinds     /\ Fail         /\ UNCHANGED <<queue, swallowed>>
     \/ job.pc = "ready"     /\ Return(TRUE) /\ UNCHANGED swallowed
     \/ job.pc = "notready"  /\ NotReadyNotWritten
  /\ UNCHANGED <<cluster, caches, watches, image, edits, crashes>>

\* The operator restarts, perhaps with another adapter image.
Restart ==
  /\ MayDisturb /\ crashes < MaxCrashes
  /\ crashes' = crashes + 1
  /\ image' \in AdapterImages
  /\ job' = Idle
  /\ cGuards' = guards /\ cProviders' = providers /\ cAdapters' = adapters
  /\ wGuards' = {} /\ wProviders' = {} /\ wAdapters' = {}
  /\ queue' = {k \in Guards : guards[k] # None \/ \E kind \in Kinds : adapters[kind][k] # None}
  /\ UNCHANGED <<cluster, swallowed, edits, faults>>

-----------------------------------------------------------------------------
Init ==
  /\ guards \in [Guards -> {NewGuard(0, spec) : spec \in GuardSpecs} \cup {None}]
  /\ providers \in [Providers -> ProviderSpecs \cup {None}]
  /\ adapters = [kind \in Kinds |-> [k \in Guards |-> None]]
  /\ pods = [k \in Guards |-> None]
  /\ cGuards = guards /\ cProviders = providers /\ cAdapters = adapters
  /\ wGuards = {} /\ wProviders = {} /\ wAdapters = {}
  /\ image \in AdapterImages
  /\ queue = {k \in Guards : guards[k] # None} /\ job = Idle /\ swallowed = {}
  /\ edits = 0 /\ faults = 0 /\ crashes = 0

Users == \/ \E k \in Guards : \/ CreateGuard(k) \/ EditGuard(k) \/ DeleteGuard(k)
                              \/ \E kind \in Kinds : DeleteAdapter(kind, k)
         \/ \E p \in Providers : SetProvider(p)

Informers == \/ \E k \in Guards : \/ SyncGuard(k) \/ HandleGuard(k)
                                  \/ \E kind \in Kinds : SyncAdapter(kind, k) \/ HandleAdapter(kind, k)
             \/ \E p \in Providers : SyncProvider(p) \/ HandleProvider(p)

Cluster == \E k \in Guards : StartPods(k) \/ \E kind \in Kinds : Collect(kind, k)

Proceed == \/ ensureConfigMap \/ ensureDeployment \/ ensureService
           \/ WriteReady \/ WriteNotReady \/ WriteNotReadyNotFound

Worker == (\E k \in Guards : BeginNotFound(k) \/ Begin(k)) \/ Proceed \/ CallFails

Next == Users \/ Informers \/ Cluster \/ Worker \/ Restart

Spec == Init /\ [][Next]_vars

-----------------------------------------------------------------------------
(* What is checked.                                                        *)

Reasons == {guardReasonReconciled, guardReasonAdapterNotConfigured,
            guardReasonProviderNotFound, guardReasonUnsupportedProviderType,
            guardReasonInvalidConfig, guardReasonReconcileFailed}
Messages   == {p.type : p \in ProviderSpecs} \cup
              {"modes is required", "mode not supported", "baseUrl is required", None}
Conditions == [status : {"True", "False"}, reason : Reasons, message : Messages, gen : Nat]
Statuses   == [cond : Conditions \cup {None}]
GuardObjects == [uid : Nat, gen : Nat, spec : GuardSpecs, status : Statuses]
Configs == [modes    : {s.mode : s \in GuardSpecs}, endpoint : {p.baseUrl : p \in ProviderSpecs},
            presidio : {s.presidio : s \in GuardSpecs}]
Owners  == [key : Guards, uid : Nat]

\* What the children of a kind look like.
Children(kind) ==
  CASE kind = "configmap"  -> [owner : Owners, data : Configs]
    [] kind = "deployment" -> [owner : Owners, hash : {configHash(c) : c \in Configs},
                               podSpec : AdapterImages \ {None}]
    [] kind = "service"    -> [owner : Owners, ports : {"ext-proc"}]

ASSUME NoObjectAssumption ==
  /\ None \notin GuardObjects /\ None \notin Conditions /\ None \notin Configs
  /\ None \notin Reasons
  /\ \A kind \in Kinds : None \notin Children(kind)

ClusterTypeOK ==
  /\ guards \in [Guards -> GuardObjects \cup {None}]
  /\ cGuards \in [Guards -> GuardObjects \cup {None}]
  /\ providers \in [Providers -> ProviderSpecs \cup {None}]
  /\ cProviders \in [Providers -> ProviderSpecs \cup {None}]
  /\ DOMAIN pods = Guards /\ image \in AdapterImages

\* A child has the key of the Guard it is for.
ChildOf(kind, k, obj) == obj # None => obj \in Children(kind) /\ obj.owner.key = k

AdaptersTypeOK ==
  /\ DOMAIN adapters = Kinds /\ DOMAIN cAdapters = Kinds
  /\ \A kind \in Kinds :
       /\ DOMAIN adapters[kind] = Guards /\ DOMAIN cAdapters[kind] = Guards
       /\ \A k \in Guards : /\ ChildOf(kind, k, adapters[kind][k])
                            /\ ChildOf(kind, k, cAdapters[kind][k])

QueueTypeOK ==
  /\ wGuards \subseteq Guards /\ wProviders \subseteq Providers
  /\ wAdapters \subseteq Kinds \X Guards
  /\ queue \subseteq Guards /\ swallowed \subseteq Guards

JobTypeOK ==
  \/ job = Idle
  \/ /\ job.pc \in Kinds \cup {"ready", "notready"}
     /\ job.key \in Guards /\ job.read \in GuardObjects
     /\ IF job.pc = "notready" THEN job.reason \in Reasons
        ELSE job.reason = None /\ job.config \in Configs /\ image # None
     /\ job.message \in Messages

BoundsOK == edits \in 0..MaxEdits /\ faults \in 0..MaxFaults /\ crashes \in 0..MaxCrashes

\* Every variable holds what the code can put there: a child carries the key of
\* its Guard, a worker that writes a child has a configuration and an image to
\* write, and one that gave up has a reason to report.
TypeOK == ClusterTypeOK /\ AdaptersTypeOK /\ QueueTypeOK /\ JobTypeOK /\ BoundsOK

AdapterEvent(kind, k) == <<kind, k>> \in wAdapters

EventsHandled == wGuards = {} /\ wProviders = {} /\ wAdapters = {}
Settled(k) == EventsHandled /\ k \notin queue /\ job.key # k

\* The status, and for a valid Guard the triple, of the present spec.
Mirrored(k) ==
  LET obj == guards[k]
      d   == Decision(obj, k, providers, image)
  IN  IF d.reason # None
      THEN obj.status.cond = Condition(obj, "False", d.reason, d.message)
      ELSE /\ obj.status.cond = Condition(obj, "True", guardReasonReconciled, None)
           /\ \A kind \in Kinds :
                adapters[kind][k] = AdapterFor(kind, k, obj, d.config, image)

(***************************************************************************)
(* A settled Guard has the status that its spec, its provider and the      *)
(* operator's flags call for and, when they are valid, a ConfigMap, a      *)
(* Deployment and a Service that agree on one configuration, whatever      *)
(* stale copies were read and wherever the operator crashed in between.    *)
(***************************************************************************)
SettledMirrors ==
  \A k \in Guards : (guards[k] # None /\ Settled(k) /\ k \notin swallowed) => Mirrored(k)

SaysReady(k) == /\ guards[k] # None /\ guards[k].status.cond # None
                /\ guards[k].status.cond.status = "True"

\* The child of the Guard as it exists now, not of a deleted namesake.
AdapterHere(kind, k) == /\ guards[k] # None /\ adapters[kind][k] # None
                        /\ adapters[kind][k].owner = Owner(k, guards[k])

AdapterOrDue(kind, k) == \/ AdapterHere(kind, k)
                         \/ AdapterEvent(kind, k) \/ k \in wGuards \cup queue

(***************************************************************************)
(* A Guard that says Ready, on which ToolGateways rely, has an adapter:    *)
(* ConfigMap, Deployment and Service exist and are its own.  If one is     *)
(* gone, or the Ready condition was meant for a deleted namesake, an event *)
(* of that child or of the Guard, or a Reconcile, is on its way to repair  *)
(* it, unless the status that would have taken Ready back was lost         *)
(* (swallowed).                                                            *)
(***************************************************************************)
ReadyHasAdapter ==
  \A k \in Guards : (SaysReady(k) /\ k \notin swallowed)
                    => job.key = k \/ \A kind \in Kinds : AdapterOrDue(kind, k)

(***************************************************************************)
(* Why these hold.  An event is due for whatever a cache has not seen yet. *)
(* As long as nothing is due for a Guard, the worker's copy of it, and of  *)
(* its provider, is right; what comes due meanwhile stays due until the    *)
(* worker is idle again.                                                   *)
(***************************************************************************)
ProviderKey(k) == RefKey(guards[k].spec.provider, k.ns)

\* Reconcile is to run (again) for k.
Due(k) == \/ k \in wGuards \cup queue
          \/ \E kind \in Kinds : AdapterEvent(kind, k)
          \/ guards[k] # None /\ ProviderKey(k) \in wProviders

CachesSeen ==
  /\ \A k \in Guards : cGuards[k] = guards[k] \/ k \in wGuards
  /\ \A p \in Providers : cProviders[p] = providers[p] \/ p \in wProviders
  /\ \A kind \in Kinds, k \in Guards :
       cAdapters[kind][k] = adapters[kind][k] \/ AdapterEvent(kind, k)

\* The kinds that are written before the worker gets to pc.
Written(pc) == CASE pc = "deployment" -> {"configmap"}
                 [] pc = "service"    -> {"configmap", "deployment"}
                 [] pc = "ready"      -> Kinds
                 [] OTHER             -> {}

\* The job is what the present inputs call for, as far as it got.
JobRight ==
  LET d == Decision(guards[job.key], job.key, providers, image)
  IN  /\ job.read = guards[job.key]
      /\ IF job.pc = "notready"
         THEN \/ job.reason = guardReasonReconcileFailed
              \/ d.reason = job.reason /\ d.message = job.message
         ELSE /\ d.reason = None /\ d.config = job.config
              /\ \A kind \in Written(job.pc) :
                   adapters[kind][job.key] =
                     AdapterFor(kind, job.key, job.read, job.config, image)

JobRightOrDue == job # Idle => JobRight \/ Due(job.key)

MirroredOrDue ==
  \A k \in Guards :
    (guards[k] # None /\ k \notin swallowed) => Mirrored(k) \/ Due(k) \/ job.key = k

MirrorInv == CachesSeen /\ JobRightOrDue /\ MirroredOrDue

\* The children were written before Ready is.
WrittenOrDue == \A kind \in Written(job.pc) : AdapterOrDue(kind, job.key)

\* A worker that is to take Ready back has read the status that says it.
ReadStatusSeen ==
  job # Idle => \/ job.read = guards[job.key]
                \/ job.key \in wGuards \cup queue

AdapterInv == /\ CachesSeen /\ WrittenOrDue /\ ReadStatusSeen
              /\ ReadyHasAdapter

(***************************************************************************)
(* When users and failures let go, every Guard ends up, for good, with the *)
(* status and the triple its inputs call for.                              *)
(***************************************************************************)
Converges ==
  \A k \in Guards : <>[]((guards[k] # None /\ k \notin swallowed) => Mirrored(k))
=============================================================================
