----------------------- MODULE ToolGatewayReconciler -----------------------
(***************************************************************************)
(* The ToolGateway controller (toolgateway_reconciler.go) in its cluster.  *)
(*                                                                         *)
(* For every ToolGateway of one of its classes the controller keeps an     *)
(* AgentgatewayParameters, a Gateway and, when the spec lists one Guard    *)
(* that is Ready, an AgentgatewayPolicy that sends traffic through the     *)
(* Guard's adapter.  ToolGateways, Guards, ToolGatewayClasses and Gateways *)
(* are read from informer caches; the unstructured Parameters and Policies *)
(* from the API server.  Guards belong to the Guard controller and to the  *)
(* users: here they change at will.                                        *)
(***************************************************************************)
EXTENDS ClassOwnership, OtelConfig

CONSTANTS
  Gateways,      \* the keys [ns, name] of ToolGateways
  Guards,        \* the keys of Guards
  Providers,     \* the keys of GuardrailProviders
  GatewaySpecs,  \* [class, guardrails, env, envFrom] a user may write
  GuardObjects,  \* [provider, ready] a Guard may be; ready None: no condition yet
  ClassSets,     \* the sets of ToolGatewayClasses the cluster may hold
  MaxEdits, MaxFaults, MaxCrashes,   \* bounds on changes, failing calls, restarts
  MaxDisturbances                    \* bound on all three together

ASSUME BoundsAssumption ==
  /\ MaxEdits \in Nat /\ MaxFaults \in Nat /\ MaxCrashes \in Nat
  /\ MaxDisturbances \in Nat

ASSUME NoneAssumption ==
  /\ None \notin Gateways /\ None \notin GatewaySpecs /\ None \notin GuardObjects
  /\ Failed # None

ASSUME GuardrailsAssumption ==
  \A s \in GatewaySpecs : DOMAIN s.guardrails = 1..Len(s.guardrails)

VARIABLES
  tgs,         \* Gateways -> [uid, gen, spec, status] or None
  guards,      \* Guards -> [provider, ready] or None
  classes,     \* the ToolGatewayClasses
  params, gws, policies,     \* the children of each ToolGateway, or None
  cTgs, cGuards, cClasses, cGws,   \* the informer caches
  wTgs, wGuards, wProviders, wGws, \* keys with unhandled watch events
  wOthers,     \* ToolGateways whose Parameters or Policy has such an event
  queue, job,
  edits, faults, crashes

cluster == <<tgs, guards, classes, params, gws, policies>>
caches  == <<cTgs, cGuards, cClasses, cGws>>
watches == <<wTgs, wGuards, wProviders, wGws, wOthers>>
vars    == <<cluster, caches, watches, queue, job, edits, faults, crashes>>

reasonReconciled                   == "Reconciled"
reasonAgentgatewayParametersFailed == "AgentgatewayParametersReconciliationFailed"
reasonGatewayFailed                == "GatewayReconciliationFailed"
reasonGuardrailsFailed             == "GuardrailsReconciliationFailed"
reasonGuardNotFound                == "GuardNotFound"
reasonGuardNotReady                == "GuardNotReady"

(***************************************************************************)
(* A status is its condition list, which a merge patch replaces as a whole,*)
(* and its URL.  unsupported is the generation that the condition          *)
(* GuardrailsUnsupported observed; url tells whether status.url, which the *)
(* key determines, is set.                                                 *)
(***************************************************************************)
NoStatus == [conds |-> [ready |-> None, unsupported |-> None], url |-> FALSE]

\* mem is Reconcile's copy of the object, whose conditions it edits in place.
Job(pc, k, mem, reason, about) ==
  [pc |-> pc, key |-> k, mem |-> mem, reason |-> reason, about |-> about]

Idle == Job("idle", None, None, None, None)

-----------------------------------------------------------------------------
(* Which ToolGateways an event enqueues (SetupWithManager).                *)

GuardRefs(tg, k) == {RefKey(tg.spec.guardrails[i], k.ns) : i \in DOMAIN tg.spec.guardrails}

\* Mutant: the namespace of a Guard reference does not default.
findToolGatewayNoDefaultNamespace(objs, g) ==
  {k \in Gateways : /\ objs[k] # None
                    /\ \E i \in DOMAIN objs[k].spec.guardrails : objs[k].spec.guardrails[i] = g}

findToolGatewayForGuard(objs, g) ==
  {k \in Gateways : objs[k] # None /\ g \in GuardRefs(objs[k], k)}

findToolGatewayForGuardrailProvider(objs, guardObjs, p) ==
  LET affectedGuards == {g \in Guards : /\ guardObjs[g] # None
                                        /\ RefKey(guardObjs[g].provider, g.ns) = p}
  IN  {k \in Gateways : objs[k] # None /\ GuardRefs(objs[k], k) \cap affectedGuards # {}}

\* The set w with key k in it if the object changed.
Event(w, k, old, new) == IF new = old THEN w ELSE w \cup {k}

TgChanged(k, obj) == /\ tgs'  = [tgs EXCEPT ![k] = obj]
                     /\ wTgs' = Event(wTgs, k, tgs[k], obj)

GwChanged(k, obj) == /\ gws'  = [gws EXCEPT ![k] = obj]
                     /\ wGws' = Event(wGws, k, gws[k], obj)

ParamsChanged(k, obj) == /\ params'  = [params EXCEPT ![k] = obj]
                         /\ wOthers' = Event(wOthers, k, params[k], obj)

PolicyChanged(k, obj) == /\ policies' = [policies EXCEPT ![k] = obj]
                         /\ wOthers'  = Event(wOthers, k, policies[k], obj)

-----------------------------------------------------------------------------
(* The users, the Guard controller and the garbage collector.              *)

MayDisturb == edits + faults + crashes < MaxDisturbances

Edit == MayDisturb /\ edits < MaxEdits /\ edits' = edits + 1

NewGateway(uid, spec) == [uid |-> uid, gen |-> 1, spec |-> spec, status |-> NoStatus]

\* The API server counts the changes of a spec in metadata.generation.
EditedGateway(obj, spec) ==
  [uid |-> obj.uid, gen |-> obj.gen + 1, spec |-> spec, status |-> obj.status]

CreateGateway(k) ==
  /\ Edit
  /\ tgs[k] = None
  /\ \E spec \in GatewaySpecs : TgChanged(k, NewGateway(edits', spec))
  /\ UNCHANGED <<guards, classes, params, gws, policies, caches, wGuards, wProviders,
                 wGws, wOthers, queue, job, faults, crashes>>

EditGateway(k) ==
  /\ Edit
  /\ tgs[k] # None
  /\ \E spec \in GatewaySpecs \ {tgs[k].spec} :
       TgChanged(k, EditedGateway(tgs[k], spec))
  /\ UNCHANGED <<guards, classes, params, gws, policies, caches, wGuards, wProviders,
                 wGws, wOthers, queue, job, faults, crashes>>

DeleteGateway(k) ==
  /\ Edit
  /\ tgs[k] # None
  /\ TgChanged(k, None)
  /\ UNCHANGED <<guards, classes, params, gws, policies, caches, wGuards, wProviders,
                 wGws, wOthers, queue, job, faults, crashes>>

SetGuard(g) ==
  /\ Edit
  /\ \E obj \in (GuardObjects \cup {None}) \ {guards[g]} :
       guards' = [guards EXCEPT ![g] = obj]
  /\ wGuards' = wGuards \cup {g}
  /\ UNCHANGED <<tgs, classes, params, gws, policies, caches, wTgs, wProviders,
                 wGws, wOthers, queue, job, faults, crashes>>

ChangeProvider(p) ==
  /\ Edit
  /\ wProviders' = wProviders \cup {p}
  /\ UNCHANGED <<cluster, caches, wTgs, wGuards, wGws, wOthers, queue, job, faults, crashes>>

\* Someone deletes a child, or edits it.
Tamper(k) ==
  /\ Edit
  /\ \/ /\ gws[k] # None
        /\ \E obj \in {None, [gws[k] EXCEPT !.spec = None]} : GwChanged(k, obj)
        /\ UNCHANGED <<params, policies, wOthers>>
     \/ /\ params[k] # None
        /\ \E obj \in {None, [params[k] EXCEPT !.spec = None]} : ParamsChanged(k, obj)
        /\ UNCHANGED <<gws, policies, wGws>>
     \/ /\ policies[k] # None
        /\ \E obj \in {None, [policies[k] EXCEPT !.spec = None]} : PolicyChanged(k, obj)
        /\ UNCHANGED <<gws, params, wGws>>
  /\ UNCHANGED <<tgs, guards, classes, caches, wTgs, wGuards, wProviders,
                 queue, job, faults, crashes>>

Live(owner) == tgs[owner.key] # None /\ tgs[owner.key].uid = owner.uid

Garbage(obj) == obj # None /\ ~Live(obj.owner)

Collect(k) ==
  /\ \/ Garbage(gws[k])      /\ GwChanged(k, None)     /\ UNCHANGED <<params, policies, wOthers>>
     \/ Garbage(params[k])   /\ ParamsChanged(k, None) /\ UNCHANGED <<gws, policies, wGws>>
     \/ Garbage(policies[k]) /\ PolicyChanged(k, None) /\ UNCHANGED <<gws, params, wGws>>
  /\ UNCHANGED <<tgs, guards, classes, caches, wTgs, wGuards, wProviders,
                 queue, job, edits, faults, crashes>>

-----------------------------------------------------------------------------
(* The informers update a cache first and call the event handler later.    *)

SyncGateway(k) ==
  /\ cTgs[k] # tgs[k]
  /\ cTgs' = [cTgs EXCEPT ![k] = tgs[k]]
  /\ UNCHANGED <<cluster, cGuards, cClasses, cGws, watches, queue, job, edits, faults, crashes>>

SyncGuard(g) ==
  /\ cGuards[g] # guards[g]
  /\ cGuards' = [cGuards EXCEPT ![g] = guards[g]]
  /\ UNCHANGED <<cluster, cTgs, cClasses, cGws, watches, queue, job, edits, faults, crashes>>

SyncGw(k) ==
  /\ cGws[k] # gws[k]
  /\ cGws' = [cGws EXCEPT ![k] = gws[k]]
  /\ UNCHANGED <<cluster, cTgs, cGuards, cClasses, watches, queue, job, edits, faults, crashes>>

HandleGateway(k) ==
  /\ k \in wTgs /\ cTgs[k] = tgs[k]
  /\ wTgs'  = wTgs \ {k}
  /\ queue' = queue \cup {k}
  /\ UNCHANGED <<cluster, caches, wGuards, wProviders, wGws, wOthers, job, edits, faults, crashes>>

HandleGuard(g) ==
  /\ g \in wGuards /\ cGuards[g] = guards[g]
  /\ wGuards' = wGuards \ {g}
  /\ queue'   = queue \cup findToolGatewayForGuard(cTgs, g)
  /\ UNCHANGED <<cluster, caches, wTgs, wProviders, wGws, wOthers, job, edits, faults, crashes>>

HandleProvider(p) ==
  /\ p \in wProviders
  /\ wProviders' = wProviders \ {p}
  /\ queue'      = queue \cup findToolGatewayForGuardrailProvider(cTgs, cGuards, p)
  /\ UNCHANGED <<cluster, caches, wTgs, wGuards, wGws, wOthers, job, edits, faults, crashes>>

\* Owns: a child's event enqueues its controller, which has the same key.
HandleChild(k) ==
  /\ \/ k \in wGws /\ cGws[k] = gws[k] /\ wGws' = wGws \ {k} /\ UNCHANGED wOthers
     \/ k \in wOthers /\ wOthers' = wOthers \ {k} /\ UNCHANGED wGws
  /\ queue' = queue \cup {k}
  /\ UNCHANGED <<cluster, caches, wTgs, wGuards, wProviders, job, edits, faults, crashes>>

-----------------------------------------------------------------------------
(* Reconcile up to its first write.                                        *)

Dequeue(k) == job = Idle /\ k \in queue /\ queue' = queue \ {k}

Owned(k) == isToolGatewayOwnedByController(cClasses, cTgs[k].spec.class)

BeginNotFound(k) ==
  /\ Dequeue(k)
  /\ cTgs[k] = None
  /\ UNCHANGED <<cluster, caches, watches, job, edits, faults, crashes>>

BeginNotOwned(k) ==
  /\ Dequeue(k)
  /\ cTgs[k] # None /\ ~Owned(k)
  /\ UNCHANGED <<cluster, caches, watches, job, edits, faults, crashes>>

BeginOwned(k) ==
  /\ Dequeue(k)
  /\ cTgs[k] # None /\ Owned(k)
  /\ job' = Job("params", k, cTgs[k], None, None)
  /\ UNCHANGED <<cluster, caches, watches, edits, faults, crashes>>

-----------------------------------------------------------------------------
(* reconcileToolGateway: Parameters, Gateway, guardrails, in this order.   *)

Fault == MayDisturb /\ faults < MaxFaults /\ faults' = faults + 1

FailWith(reason, about) == job' = Job("notready", job.key, job.mem, reason, about)

\* A call took effect: Reconcile goes on with mem, unless the answer was lost.
Answered(pc, mem, reason) ==
  \/ job' = Job(pc, job.key, mem, None, None) /\ UNCHANGED faults
  \/ FailWith(reason, None) /\ Fault

\* Mutant: the owner reference lacks the uid.
ChildWithoutUID(k, obj, spec) == [owner |-> [key |-> k, uid |-> None], spec |-> spec]

Child(k, obj, spec) == [owner |-> [key |-> k, uid |-> obj.uid], spec |-> spec]

ParamsFor(k, obj) == Child(k, obj, setAgentgatewayParametersSpec(obj.spec))

\* One HTTP listener on port 80 for routes of all namespaces.
GatewayFor(k, obj) == Child(k, obj, [class |-> "agentgateway", parametersRef |-> k.name])

buildGuardrailPolicySpec(k, g) ==
  [targetRef |-> k.name, backend |-> g.name \o "-adapter", ns |-> g.ns]

PolicyFor(k, obj, g) == Child(k, obj, buildGuardrailPolicySpec(k, g))

ensureAgentgatewayParameters ==
  /\ job.pc = "params"
  /\ LET new == CreateOrPatch(params[job.key], params[job.key], ParamsFor(job.key, job.mem))
     IN  IF new = Failed
         THEN /\ FailWith(reasonAgentgatewayParametersFailed, None)
              /\ UNCHANGED <<params, wOthers, faults>>
         ELSE /\ ParamsChanged(job.key, new)
              /\ Answered("gateway", job.mem, reasonAgentgatewayParametersFailed)
  /\ UNCHANGED <<tgs, guards, classes, gws, policies, caches, wTgs, wGuards, wProviders,
                 wGws, queue, edits, crashes>>

ensureGateway ==
  /\ job.pc = "gateway"
  /\ LET new == CreateOrPatch(cGws[job.key], gws[job.key], GatewayFor(job.key, job.mem))
     IN  IF new = Failed
         THEN FailWith(reasonGatewayFailed, None) /\ UNCHANGED <<gws, wGws, faults>>
         ELSE /\ GwChanged(job.key, new)
              /\ Answered("guardrails", job.mem, reasonGatewayFailed)
  /\ UNCHANGED <<tgs, guards, classes, params, policies, caches, wTgs, wGuards, wProviders,
                 wOthers, queue, edits, crashes>>

\* Mutant: the condition is set but never removed.
WithUnsupportedKept(obj, v) ==
  IF v = None THEN obj ELSE [obj EXCEPT !.status.conds.unsupported = v]

\* mem with the condition GuardrailsUnsupported set or removed, in memory only.
WithUnsupported(obj, v) == [obj EXCEPT !.status.conds.unsupported = v]

jobGuard == RefKey(job.mem.spec.guardrails[1], job.key.ns)

\* Only the status of the Ready condition counts, not its generation.
GuardReady(objs, g) == Get(objs, g) # None /\ objs[g].ready = "True"

ensureNoGuardrails ==
  /\ job.pc = "guardrails"
  /\ job.mem.spec.guardrails = <<>>
  /\ PolicyChanged(job.key, None)
  /\ Answered("ready", WithUnsupported(job.mem, None), reasonGuardrailsFailed)
  /\ UNCHANGED <<tgs, guards, classes, params, gws, caches, wTgs, wGuards, wProviders,
                 wGws, queue, edits, crashes>>

MultipleGuards ==
  /\ job.pc = "guardrails"
  /\ Len(job.mem.spec.guardrails) > 1
  /\ job' = Job("notready", job.key, WithUnsupported(job.mem, job.mem.gen),
                reasonGuardrailsFailed, None)
  /\ UNCHANGED <<cluster, caches, watches, queue, edits, faults, crashes>>

GuardNotUsable ==
  /\ job.pc = "guardrails"
  /\ Len(job.mem.spec.guardrails) = 1
  /\ LET guard == Get(cGuards, jobGuard)
     IN  \/ guard = None /\ FailWith(reasonGuardNotFound, [guard |-> jobGuard, ready |-> None])
         \/ /\ guard # None /\ guard.ready # "True"
            /\ FailWith(reasonGuardNotReady, [guard |-> jobGuard, ready |-> guard.ready])
  /\ UNCHANGED <<cluster, caches, watches, queue, edits, faults, crashes>>

\* Mutant: a policy that cannot be written does not stop Reconcile.
ensureGuardrailPolicyBestEffort ==
  /\ job.pc = "guardrails"
  /\ Len(job.mem.spec.guardrails) = 1
  /\ GuardReady(cGuards, jobGuard)
  /\ LET new == CreateOrPatch(policies[job.key], policies[job.key],
                              PolicyFor(job.key, job.mem, jobGuard))
     IN  \/ new # Failed /\ PolicyChanged(job.key, new) /\ UNCHANGED faults
         \/ UNCHANGED <<policies, wOthers>> /\ Fault
  /\ job' = Job("ready", job.key, WithUnsupported(job.mem, None), None, None)
  /\ UNCHANGED <<tgs, guards, classes, params, gws, caches, wTgs, wGuards, wProviders,
                 wGws, queue, edits, crashes>>

ensureGuardrailPolicy ==
  /\ job.pc = "guardrails"
  /\ Len(job.mem.spec.guardrails) = 1
  /\ GuardReady(cGuards, jobGuard)
  /\ LET new == CreateOrPatch(policies[job.key], policies[job.key],
                              PolicyFor(job.key, job.mem, jobGuard))
     IN  IF new = Failed
         THEN FailWith(reasonGuardrailsFailed, None) /\ UNCHANGED <<policies, wOthers, faults>>
         ELSE /\ PolicyChanged(job.key, new)
              /\ Answered("ready", WithUnsupported(job.mem, None), reasonGuardrailsFailed)
  /\ UNCHANGED <<tgs, guards, classes, params, gws, caches, wTgs, wGuards, wProviders,
                 wGws, queue, edits, crashes>>

-----------------------------------------------------------------------------
(* The status patch.  Its base is a copy of mem, that is of what is left   *)
(* after ensureGuardrails edited the conditions: only a change of Ready    *)
(* makes the patch carry the condition list at all.                        *)

Return(err) == job' = Idle /\ queue' = IF err THEN queue \cup {job.key} ELSE queue

ReadyCond(obj) ==
  [status |-> "True", reason |-> reasonReconciled, about |-> None, gen |-> obj.gen]

NotReadyCond(obj, reason, about) ==
  [status |-> "False", reason |-> reason, about |-> about, gen |-> obj.gen]

\* obj's conditions with another Ready condition, and its URL.
ReadyStatus(obj) ==
  [conds |-> [ready |-> ReadyCond(obj), unsupported |-> obj.status.conds.unsupported],
   url   |-> TRUE]

NotReadyStatus(obj, reason, about) ==
  [conds |-> [ready       |-> NotReadyCond(obj, reason, about),
              unsupported |-> obj.status.conds.unsupported],
   url   |-> obj.status.url]

PatchStatus(want) ==
  LET live == tgs[job.key]
  IN  TgChanged(job.key, [live EXCEPT !.status = MergePatch(job.mem.status, @, want)])

updateStatusReady ==
  /\ job.pc = "ready"
  /\ IF tgs[job.key] = None
     THEN Return(TRUE) /\ UNCHANGED <<tgs, wTgs, faults>>
     ELSE /\ PatchStatus(ReadyStatus(job.mem))
          /\ (Return(FALSE) /\ UNCHANGED faults) \/ (Return(TRUE) /\ Fault)
  /\ UNCHANGED <<guards, classes, params, gws, policies, caches, wGuards, wProviders,
                 wGws, wOthers, edits, crashes>>

\* Always followed by a retry; an error of the patch itself is only logged.
updateStatusNotReady ==
  /\ job.pc = "notready"
  /\ IF tgs[job.key] = None
     THEN UNCHANGED <<tgs, wTgs>>
     ELSE PatchStatus(NotReadyStatus(job.mem, job.reason, job.about))
  /\ Return(TRUE)
  /\ UNCHANGED <<guards, classes, params, gws, policies, caches, wGuards, wProviders,
                 wGws, wOthers, edits, faults, crashes>>

\* The call the worker is about to make fails without effect.
CallFails ==
  /\ Fault
  /\ \/ job.pc = "params" /\ FailWith(reasonAgentgatewayParametersFailed, None) /\ UNCHANGED queue
     \/ job.pc = "gateway" /\ FailWith(reasonGatewayFailed, None) /\ UNCHANGED queue
     \/ /\ job.pc = "guardrails"
        /\ \/ job.mem.spec.guardrails = <<>>
           \/ Len(job.mem.spec.guardrails) = 1 /\ GuardReady(cGuards, jobGuard)
        /\ FailWith(reasonGuardrailsFailed, None) /\ UNCHANGED queue
     \/ job.pc \in {"ready", "notready"} /\ Return(TRUE)
  /\ UNCHANGED <<cluster, caches, watches, edits, crashes>>

Restart ==
  /\ MayDisturb /\ crashes < MaxCrashes
  /\ crashes' = crashes + 1
  /\ job' = Idle
  /\ cTgs' = tgs /\ cGuards' = guards /\ cClasses' = classes /\ cGws' = gws
  /\ wTgs' = {} /\ wGuards' = {} /\ wProviders' = {} /\ wGws' = {} /\ wOthers' = {}
  /\ queue' = {k \in Gateways : {tgs[k], gws[k], params[k], policies[k]} # {None}}
  /\ UNCHANGED <<cluster, edits, faults>>

-----------------------------------------------------------------------------
Init ==
  /\ tgs \in [Gateways -> {NewGateway(0, spec) : spec \in GatewaySpecs} \cup {None}]
  /\ guards \in [Guards -> GuardObjects \cup {None}]
  /\ classes \in ClassSets
  /\ params   = [k \in Gateways |-> None]
  /\ gws      = [k \in Gateways |-> None]
  /\ policies = [k \in Gateways |-> None]
  /\ cTgs = tgs /\ cGuards = guards /\ cClasses = classes /\ cGws = gws
  /\ wTgs = {} /\ wGuards = {} /\ wProviders = {} /\ wGws = {} /\ wOthers = {}
  /\ queue = {k \in Gateways : tgs[k] # None} /\ job = Idle
  /\ edits = 0 /\ faults = 0 /\ crashes = 0

Users == \/ \E k \in Gateways : \/ CreateGateway(k) \/ EditGateway(k)
                                \/ DeleteGateway(k) \/ Tamper(k)
         \/ \E g \in Guards : SetGuard(g)
         \/ \E p \in Providers : ChangeProvider(p)

Informers == \/ \E k \in Gateways : \/ SyncGateway(k) \/ HandleGateway(k)
                                    \/ SyncGw(k) \/ HandleChild(k)
             \/ \E g \in Guards : SyncGuard(g) \/ HandleGuard(g)
             \/ \E p \in Providers : HandleProvider(p)

Begin(k) == BeginNotFound(k) \/ BeginNotOwned(k) \/ BeginOwned(k)

Proceed == \/ ensureAgentgatewayParameters \/ ensureGateway
           \/ ensureNoGuardrails \/ MultipleGuards \/ GuardNotUsable \/ ensureGuardrailPolicy
           \/ updateStatusReady \/ updateStatusNotReady

Next == \/ Users \/ Informers
        \/ \E k \in Gateways : Collect(k) \/ Begin(k)
        \/ Proceed \/ CallFails \/ Restart

Spec == Init /\ [][Next]_vars

-----------------------------------------------------------------------------
(* What is checked.                                                        *)

Reasons == {reasonReconciled, reasonAgentgatewayParametersFailed, reasonGatewayFailed,
            reasonGuardrailsFailed, reasonGuardNotFound, reasonGuardNotReady}
Conditions(abouts) == [status : {"True", "False"}, reason : Reasons, about : abouts, gen : Nat]
GuardKeys == {RefKey(s.guardrails[1], k.ns) :
                s \in {t \in GatewaySpecs : t.guardrails # <<>>}, k \in Gateways}
Abouts    == [guard : GuardKeys, ready : {o.ready : o \in GuardObjects} \cup {None}] \cup {None}
Statuses  == [conds : [ready : Conditions(Abouts) \cup {None}, unsupported : Nat \cup {None}],
              url : BOOLEAN]
TgObjects == [uid : Nat, gen : Nat, spec : GatewaySpecs, status : Statuses]

ASSUME NoObjectAssumption == None \notin TgObjects /\ None \notin Conditions(Abouts)

ClusterTypeOK ==
  /\ tgs \in [Gateways -> TgObjects \cup {None}]
  /\ cTgs \in [Gateways -> TgObjects \cup {None}]
  /\ guards \in [Guards -> GuardObjects \cup {None}]
  /\ cGuards \in [Guards -> GuardObjects \cup {None}]
  /\ classes \in ClassSets /\ cClasses \in ClassSets

\* A child has the key of the ToolGateway it is for.
ChildOf(k, obj) == obj # None => /\ DOMAIN obj = {"owner", "spec"}
                                 /\ obj.owner.key = k /\ obj.owner.uid \in Nat

ChildrenTypeOK ==
  /\ DOMAIN params = Gateways /\ DOMAIN gws = Gateways
  /\ DOMAIN cGws = Gateways /\ DOMAIN policies = Gateways
  /\ \A k \in Gateways : /\ ChildOf(k, params[k]) /\ ChildOf(k, policies[k])
                         /\ ChildOf(k, gws[k]) /\ ChildOf(k, cGws[k])

QueueTypeOK ==
  /\ wTgs \subseteq Gateways /\ wGuards \subseteq Guards /\ wProviders \subseteq Providers
  /\ wGws \subseteq Gateways /\ wOthers \subseteq Gateways /\ queue \subseteq Gateways

JobTypeOK ==
  \/ job = Idle
  \/ /\ job.pc \in {"params", "gateway", "guardrails", "ready", "notready"}
     /\ job.key \in Gateways /\ job.mem \in TgObjects
     /\ IF job.pc = "notready" THEN job.reason \in Reasons ELSE job.reason = None
     /\ job.about \in Abouts

BoundsOK == edits \in 0..MaxEdits /\ faults \in 0..MaxFaults /\ crashes \in 0..MaxCrashes

\* Every variable holds what the code can put there; a Ready=False condition
\* about a Guard names the Guard and the readiness that was seen, and a
\* Reconcile that failed has a reason to report.
TypeOK == ClusterTypeOK /\ ChildrenTypeOK /\ QueueTypeOK /\ JobTypeOK /\ BoundsOK

EventsHandled == /\ wTgs = {} /\ wGuards = {} /\ wProviders = {}
                 /\ wGws = {} /\ wOthers = {}

Settled(k) == EventsHandled /\ k \notin queue /\ job.key # k

Claimed(k) == /\ tgs[k] # None
              /\ isToolGatewayOwnedByController(classes, tgs[k].spec.class)

\* No policy without guardrails, the policy of the one Guard while it is Ready.
GuardrailsMirrored(k) ==
  LET obj   == tgs[k]
      guard == RefKey(obj.spec.guardrails[1], k.ns)
  IN  \/ obj.spec.guardrails = <<>> /\ policies[k] = None
      \/ /\ Len(obj.spec.guardrails) = 1 /\ GuardReady(guards, guard)
         /\ policies[k] = PolicyFor(k, obj, guard)

\* Status and children as the present spec and the present Guard call for.
Mirrored(k) ==
  LET obj == tgs[k]
  IN  /\ obj.status = [conds |-> [ready |-> ReadyCond(obj), unsupported |-> None], url |-> TRUE]
      /\ params[k] = ParamsFor(k, obj)
      /\ gws[k]    = GatewayFor(k, obj)
      /\ GuardrailsMirrored(k)

(***************************************************************************)
(* Once a claimed ToolGateway has settled it is Ready, its Parameters and  *)
(* Gateway are those of its spec, and its guardrail policy is there        *)
(* exactly when the spec lists one Guard, which is Ready now: in           *)
(* particular no Guard that stopped being Ready is overlooked.             *)
(***************************************************************************)
SettledMirrors == \A k \in Gateways : (Claimed(k) /\ Settled(k)) => Mirrored(k)

(***************************************************************************)
(* A ToolGateway never says both Ready and GuardrailsUnsupported, although *)
(* the second condition is edited in memory before the base of the status  *)
(* patch is taken, and is sent only when the first one changes.            *)
(***************************************************************************)
ReadyNotUnsupported ==
  \A k \in Gateways :
    (/\ tgs[k] # None /\ tgs[k].status.conds.ready # None
     /\ tgs[k].status.conds.ready.status = "True")
    => tgs[k].status.conds.unsupported = None

\* Whenever Reconcile gets to Ready it has taken the other condition back.
ReadyTakesBack == job.pc = "ready" => job.mem.status.conds.unsupported = None

(***************************************************************************)
(* The Gateway goes live before its guardrail policy, but a ToolGateway of *)
(* ours that reports Ready for its present generation has the policy of    *)
(* its one Guard, or none if its spec lists none.  A policy that someone   *)
(* removed or changed, or that was collected with a deleted namesake, is   *)
(* on its way to be restored by an event of this ToolGateway or its        *)
(* children; no event of a Guard or a provider is needed for it.           *)
(***************************************************************************)
SaysReady(obj) == obj # None /\ obj.status.conds.ready = ReadyCond(obj)

WantedPolicy(k, obj) ==
  LET refs == obj.spec.guardrails
  IN  IF refs = <<>> THEN None ELSE PolicyFor(k, obj, RefKey(refs[1], k.ns))

GuardrailInForce ==
  \A k \in Gateways :
    (Claimed(k) /\ SaysReady(tgs[k]))
    => \/ Len(tgs[k].spec.guardrails) <= 1 /\ policies[k] = WantedPolicy(k, tgs[k])
       \/ k \in wOthers \cup queue \/ job.key = k
       \/ tgs[k].uid > 0 /\ k \in wTgs

(***************************************************************************)
(* Why that is so.  A status patch carries neither uid nor generation      *)
(* check, so a Reconcile of a deleted ToolGateway may mark its namesake    *)
(* Ready; such a mark is recognised by a uid > 0 and an event under way.   *)
(***************************************************************************)
\* x is a copy of obj, or of what had its name before, never of its future.
Older(x, obj) ==
  (x # None /\ obj # None) =>
    \/ x.uid < obj.uid
    \/ x.uid = obj.uid /\ (x.gen < obj.gen \/ (x.gen = obj.gen /\ x.spec = obj.spec))

Current(x, obj) == x # None /\ x.uid = obj.uid /\ x.gen = obj.gen

\* The uid of a new ToolGateway is in use nowhere.
UidsOld ==
  /\ \A k \in Gateways : /\ tgs[k] # None => tgs[k].uid <= edits
                         /\ cTgs[k] # None => cTgs[k].uid <= edits
  /\ job # Idle => job.mem.uid <= edits

CopiesOlder ==
  /\ cClasses = classes
  /\ \A k \in Gateways : Older(cTgs[k], tgs[k])
  /\ job # Idle => /\ Older(job.mem, tgs[job.key])
                   /\ (tgs[job.key] # None /\ job.mem.uid = tgs[job.key].uid) =>
                        /\ cTgs[job.key] # None /\ cTgs[job.key].uid = job.mem.uid
                        /\ job.mem.gen <= cTgs[job.key].gen

\* Only a mark left by a namesake's Reconcile can be ahead of the generation.
ReadyNotAhead ==
  \A k \in Gateways :
    (tgs[k] # None /\ tgs[k].status.conds.ready # None /\ tgs[k].uid = 0)
    => tgs[k].status.conds.ready.gen <= tgs[k].gen

\* Whoever says Ready is in the cache, and in the worker's hands, as it is now.
ReadySeen ==
  /\ \A k \in Gateways :
       SaysReady(tgs[k]) => Current(cTgs[k], tgs[k]) \/ (tgs[k].uid > 0 /\ k \in wTgs)
  /\ (job # Idle /\ SaysReady(tgs[job.key])) =>
       \/ Current(job.mem, tgs[job.key])
       \/ tgs[job.key].uid > 0 /\ job.key \in wTgs
       \/ job.key \in queue

\* The policy was written before Ready is.
PolicyBeforeReady ==
  job.pc = "ready" =>
    /\ Len(job.mem.spec.guardrails) <= 1
    /\ \/ policies[job.key] = WantedPolicy(job.key, job.mem)
       \/ job.key \in wOthers \cup queue

GuardrailInv == /\ UidsOld /\ CopiesOlder /\ ReadyNotAhead /\ ReadySeen
                /\ PolicyBeforeReady /\ GuardrailInForce

(***************************************************************************)
(* Nor does Ready outlive the Guard behind it.  Whoever says Ready with    *)
(* one Guard has a Guard that is Ready now, or an event of that Guard or   *)
(* of the ToolGateway, or a Reconcile, is still to come.                   *)
(***************************************************************************)
GuardReadyOrDue(k, obj) ==
  LET guard == RefKey(obj.spec.guardrails[1], k.ns)
  IN  GuardReady(guards, guard) \/ guard \in wGuards \/ k \in wTgs \cup queue

ReadyGuard(k) ==
  (Claimed(k) /\ SaysReady(tgs[k]) /\ Len(tgs[k].spec.guardrails) = 1)
  => GuardReadyOrDue(k, tgs[k])

ReadyGuardOrDue == \A k \in Gateways : ReadyGuard(k) \/ job.key = k

\* The worker looked at the Guard before it says Ready.
JobGuardOrDue ==
  (/\ job.pc = "ready" /\ Len(job.mem.spec.guardrails) = 1
   /\ tgs[job.key] # None /\ Current(job.mem, tgs[job.key]))
  => GuardReadyOrDue(job.key, job.mem)

GuardsSeen == \A g \in Guards : cGuards[g] = guards[g] \/ g \in wGuards

ReadyGuardInv == GuardsSeen /\ JobGuardOrDue /\ ReadyGuardOrDue

(***************************************************************************)
(* Why a settled ToolGateway is mirrored.  An event is due for whatever a  *)
(* cache has not seen yet.  As long as nothing is due for a ToolGateway,   *)
(* the worker's copy of it, and of its Guard, is right; what comes due     *)
(* meanwhile stays due until the worker is idle again.                     *)
(***************************************************************************)
\* Reconcile is to run (again) for k.
Due(k) == \/ k \in wTgs \cup wGws \cup wOthers \cup queue
          \/ tgs[k] # None /\ GuardRefs(tgs[k], k) \cap wGuards # {}

CachesSeen ==
  /\ cClasses = classes
  /\ \A k \in Gateways : /\ cTgs[k] = tgs[k] \/ k \in wTgs
                         /\ cGws[k] = gws[k] \/ k \in wGws
  /\ GuardsSeen

\* The job is what the present inputs call for, as far as it got.
JobRight ==
  LET k   == job.key
      obj == tgs[k]
  IN  /\ Claimed(k)
      /\ job.mem = IF job.pc = "ready" THEN WithUnsupported(obj, None) ELSE obj
      /\ job.pc # "params" => params[k] = ParamsFor(k, obj)
      /\ job.pc \in {"guardrails", "ready"} => gws[k] = GatewayFor(k, obj)
      /\ job.pc = "ready" => GuardrailsMirrored(k)

\* A job that failed will be retried.
JobRightOrDue == (job # Idle /\ job.pc # "notready") => JobRight \/ Due(job.key)

MirroredOrDue ==
  \A k \in Gateways : Claimed(k) => Mirrored(k) \/ Due(k) \/ job.key = k

MirrorInv == CachesSeen /\ JobRightOrDue /\ MirroredOrDue

\* A failure that lasts is retried for ever, and the status says which it is;
\* with more than one Guard it is the other condition that says so, whatever
\* the reason of this one.
ReportsFailure(k) ==
  LET obj   == tgs[k]
      ready == obj.status.conds.ready
      guard == RefKey(obj.spec.guardrails[1], k.ns)
      about == [guard |-> guard, ready |-> IF Get(guards, guard) = None THEN None
                                           ELSE guards[guard].ready]
  IN  \/ /\ Len(obj.spec.guardrails) > 1
         /\ ready # None /\ ready.status = "False" /\ ready.gen = obj.gen
         /\ obj.status.conds.unsupported = obj.gen
      \/ /\ Len(obj.spec.guardrails) = 1 /\ Get(guards, guard) = None
         /\ ready = NotReadyCond(obj, reasonGuardNotFound, about)
      \/ /\ Len(obj.spec.guardrails) = 1 /\ Get(guards, guard) # None
         /\ ~GuardReady(guards, guard)
         /\ ready = NotReadyCond(obj, reasonGuardNotReady, about)

(***************************************************************************)
(* When users and failures let go, every claimed ToolGateway ends up, for  *)
(* good, mirrored or reporting why it cannot be.                           *)
(***************************************************************************)
Converges == \A k \in Gateways : <>[](Claimed(k) => Mirrored(k) \/ ReportsFailure(k))
=============================================================================
