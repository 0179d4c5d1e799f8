-------------------- MODULE ToolGatewayReconciler_proofs --------------------
(***************************************************************************)
(* Theorems about the ToolGateway controller, for every set of gateways,   *)
(* guards, providers, classes and specs and every bound.                   *)
(***************************************************************************)
EXTENDS ToolGatewayReconciler, KubeClient_proofs, TLAPS

-----------------------------------------------------------------------------
(* Lemmas about the operators the controller is built from.                *)

\* What a status of a ToolGateway consists of.
LEMMA StatusFields ==
  ASSUME NEW st \in Statuses
  PROVE  /\ st.conds.ready \in Conditions(Abouts) \cup {None}
         /\ st.conds.unsupported \in Nat \cup {None} /\ st.url \in BOOLEAN
         /\ st.conds = [ready |-> st.conds.ready, unsupported |-> st.conds.unsupported]
BY DEF Statuses

\* Editing the condition GuardrailsUnsupported changes nothing else.
LEMMA UnsupportedEdited ==
  ASSUME NEW obj \in TgObjects, NEW v \in Nat \cup {None}
  PROVE  /\ WithUnsupported(obj, v) \in TgObjects
         /\ WithUnsupported(obj, v).uid = obj.uid /\ WithUnsupported(obj, v).gen = obj.gen
         /\ WithUnsupported(obj, v).spec = obj.spec
         /\ WithUnsupported(obj, v).status.conds.unsupported = v
BY DEF WithUnsupported, TgObjects, Statuses

\* The statuses that Reconcile wants are statuses.
LEMMA WantedStatus ==
  ASSUME NEW obj \in TgObjects
  PROVE  /\ ReadyStatus(obj) \in Statuses
         /\ \A reason \in Reasons, about \in Abouts : NotReadyStatus(obj, reason, about) \in Statuses
<1>1. obj.status \in Statuses /\ obj.gen \in Nat
  BY DEF TgObjects
<1>2. ReadyCond(obj) \in Conditions(Abouts)
  BY <1>1 DEF ReadyCond, Conditions, Reasons, Abouts
<1>3. ASSUME NEW reason \in Reasons, NEW about \in Abouts
      PROVE  NotReadyCond(obj, reason, about) \in Conditions(Abouts)
  BY <1>1, <1>3 DEF NotReadyCond, Conditions
<1>4. ReadyStatus(obj) \in Statuses
  BY <1>1, <1>2, StatusFields DEF ReadyStatus, Statuses
<1>5. ASSUME NEW reason \in Reasons, NEW about \in Abouts
      PROVE  NotReadyStatus(obj, reason, about) \in Statuses
  BY <1>1, <1>3, <1>5, StatusFields DEF NotReadyStatus, Statuses
<1>. QED
  BY <1>4, <1>5

\* A status patch computed from any copy yields a status, and sends the conditions
\* as a whole if they differ from those of the copy.
LEMMA MergedStatus ==
  ASSUME NEW read, NEW live \in Statuses, NEW want \in Statuses
  PROVE  /\ MergePatch(read, live, want) \in Statuses
         /\ MergePatch(read, live, want).conds =
              IF want.conds = read.conds THEN live.conds ELSE want.conds
BY DEF MergePatch, Statuses

\* A status patch changes the status of one ToolGateway and nothing else.
LEMMA StatusPatched ==
  ASSUME TypeOK, job # Idle, tgs[job.key] # None, NEW want \in Statuses, PatchStatus(want)
  PROVE  /\ tgs' \in [Gateways -> TgObjects \cup {None}] /\ wTgs' \subseteq Gateways
         /\ tgs'[job.key] \in TgObjects /\ tgs'[job.key] # None
         /\ tgs'[job.key].uid = tgs[job.key].uid
         /\ tgs'[job.key].gen = tgs[job.key].gen
         /\ tgs'[job.key].spec = tgs[job.key].spec
         /\ tgs'[job.key].status.conds = IF want.conds = job.mem.status.conds
                                         THEN tgs[job.key].status.conds ELSE want.conds
         /\ \A k \in Gateways \ {job.key} : tgs'[k] = tgs[k]
         /\ wTgs' = Event(wTgs, job.key, tgs[job.key], tgs'[job.key])
<1>. DEFINE live == tgs[job.key]
            status == MergePatch(job.mem.status, live.status, want)
            obj == [live EXCEPT !.status = status]
<1>1. job.key \in Gateways
  BY DEF TypeOK, JobTypeOK
<1>2. live \in TgObjects /\ live.status \in Statuses
  BY <1>1 DEF TypeOK, ClusterTypeOK, TgObjects
<1>3. /\ status \in Statuses
      /\ status.conds = IF want.conds = job.mem.status.conds THEN live.status.conds ELSE want.conds
  BY <1>2, MergedStatus
<1>4. tgs' = [tgs EXCEPT ![job.key] = obj] /\ wTgs' = Event(wTgs, job.key, live, obj)
  BY DEF PatchStatus, TgChanged
<1>5. /\ obj \in TgObjects /\ obj.uid = live.uid /\ obj.gen = live.gen /\ obj.spec = live.spec
      /\ obj.status = status
  <2>. HIDE DEF live, status
  <2>. QED
    BY <1>2, <1>3 DEF TgObjects
<1>. HIDE DEF obj, status
<1>6. /\ tgs'[job.key] = obj /\ \A k \in Gateways \ {job.key} : tgs'[k] = tgs[k]
      /\ tgs' \in [Gateways -> TgObjects \cup {None}]
  BY <1>1, <1>4, <1>5 DEF TypeOK, ClusterTypeOK
<1>7. obj # None
  BY <1>5, NoObjectAssumption
<1>8. wTgs' \subseteq Gateways
  BY <1>1, <1>4 DEF TypeOK, QueueTypeOK, Event
<1>. QED
  BY <1>3, <1>4, <1>5, <1>6, <1>7, <1>8

\* CreateOrPatch leaves a child of the ToolGateway it is for.
LEMMA WrittenChild ==
  ASSUME NEW k \in Gateways, NEW obj \in TgObjects, NEW spec, NEW read, NEW live,
         ChildOf(k, live), CreateOrPatch(read, live, Child(k, obj, spec)) # Failed
  PROVE  ChildOf(k, CreateOrPatch(read, live, Child(k, obj, spec)))
<1>. DEFINE want == Child(k, obj, spec)
            new == CreateOrPatch(read, live, want)
<1>1. want.owner.key = k /\ want.owner.uid \in Nat /\ DOMAIN want = {"owner", "spec"}
  BY DEF Child, TgObjects
<1>2. new # Failed
  OBVIOUS
<1>. SUFFICES ChildOf(k, new)
  OBVIOUS
<1>. HIDE DEF want
<1>3. new = want \/ new = live \/ (live # None /\ new = MergePatch(read, live, want))
  BY <1>2, PatchCached
<1>. HIDE DEF new
<1>. QED
  BY <1>1, <1>3, MergedField DEF ChildOf

-----------------------------------------------------------------------------
(* Type correctness.                                                       *)

\* The initial states have the type.
LEMMA InitType == Init => TypeOK
<1>. SUFFICES ASSUME Init PROVE TypeOK
  OBVIOUS
<1>1. ASSUME NEW spec \in GatewaySpecs PROVE NewGateway(0, spec) \in TgObjects
  BY DEF NewGateway, NoStatus, TgObjects, Statuses
<1>2. tgs \in [Gateways -> TgObjects \cup {None}]
  BY <1>1 DEF Init
<1>3. ClusterTypeOK
  BY <1>2 DEF Init, ClusterTypeOK
<1>4. ChildrenTypeOK /\ QueueTypeOK /\ JobTypeOK
  BY DEF Init, ChildrenTypeOK, ChildOf, QueueTypeOK, JobTypeOK
<1>5. BoundsOK
  BY BoundsAssumption DEF Init, BoundsOK
<1>. QED
  BY <1>3, <1>4, <1>5 DEF TypeOK

\* A write to a ToolGateway or to one of its children.
LEMMA WriteTypes ==
  ASSUME TypeOK, NEW k \in Gateways, NEW obj
  PROVE  /\ (TgChanged(k, obj) /\ obj \in TgObjects \cup {None}) =>
              tgs' \in [Gateways -> TgObjects \cup {None}] /\ wTgs' \subseteq Gateways
         /\ (GwChanged(k, obj) /\ ChildOf(k, obj)) =>
              /\ DOMAIN gws' = Gateways /\ wGws' \subseteq Gateways
              /\ \A j \in Gateways : ChildOf(j, gws'[j])
         /\ (ParamsChanged(k, obj) /\ ChildOf(k, obj)) =>
              /\ DOMAIN params' = Gateways /\ wOthers' \subseteq Gateways
              /\ \A j \in Gateways : ChildOf(j, params'[j])
         /\ (PolicyChanged(k, obj) /\ ChildOf(k, obj)) =>
              /\ DOMAIN policies' = Gateways /\ wOthers' \subseteq Gateways
              /\ \A j \in Gateways : ChildOf(j, policies'[j])
<1>1. ASSUME TgChanged(k, obj), obj \in TgObjects \cup {None}
      PROVE  tgs' \in [Gateways -> TgObjects \cup {None}] /\ wTgs' \subseteq Gateways
  BY <1>1 DEF TgChanged, Event, TypeOK, ClusterTypeOK, QueueTypeOK
<1>2. ASSUME GwChanged(k, obj), ChildOf(k, obj)
      PROVE  /\ DOMAIN gws' = Gateways /\ wGws' \subseteq Gateways
             /\ \A j \in Gateways : ChildOf(j, gws'[j])
  BY <1>2 DEF GwChanged, Event, TypeOK, ChildrenTypeOK, QueueTypeOK
<1>3. ASSUME ParamsChanged(k, obj), ChildOf(k, obj)
      PROVE  /\ DOMAIN params' = Gateways /\ wOthers' \subseteq Gateways
             /\ \A j \in Gateways : ChildOf(j, params'[j])
  BY <1>3 DEF ParamsChanged, Event, TypeOK, ChildrenTypeOK, QueueTypeOK
<1>4. ASSUME PolicyChanged(k, obj), ChildOf(k, obj)
      PROVE  /\ DOMAIN policies' = Gateways /\ wOthers' \subseteq Gateways
             /\ \A j \in Gateways : ChildOf(j, policies'[j])
  BY <1>4 DEF PolicyChanged, Event, TypeOK, ChildrenTypeOK, QueueTypeOK
<1>. QED
  BY <1>1, <1>2, <1>3, <1>4

\* The users' changes.
LEMMA UsersType == TypeOK /\ Users => TypeOK'
<1>. SUFFICES ASSUME TypeOK, Users PROVE TypeOK'
  OBVIOUS
<1>. USE DEF TypeOK
<1>1. ASSUME Edit, UNCHANGED <<faults, crashes>> PROVE BoundsOK' /\ edits' \in Nat
  BY <1>1, BoundsAssumption DEF Edit, BoundsOK
<1>2. ASSUME NEW k \in Gateways, CreateGateway(k) PROVE TypeOK'
  <2>1. PICK spec \in GatewaySpecs : TgChanged(k, NewGateway(edits', spec))
    BY <1>2 DEF CreateGateway
  <2>2. NewGateway(edits', spec) \in TgObjects
    BY <1>1, <1>2 DEF CreateGateway, NewGateway, NoStatus, TgObjects, Statuses
  <2>3. tgs' \in [Gateways -> TgObjects \cup {None}] /\ wTgs' \subseteq Gateways
    BY <2>1, <2>2, WriteTypes
  <2>. QED
    BY <1>1, <1>2, <2>3 DEF CreateGateway, caches, ClusterTypeOK, ChildrenTypeOK, ChildOf,
                            QueueTypeOK, JobTypeOK
<1>3. ASSUME NEW k \in Gateways, EditGateway(k) PROVE TypeOK'
  <2>1. PICK spec \in GatewaySpecs : TgChanged(k, EditedGateway(tgs[k], spec))
    BY <1>3 DEF EditGateway
  <2>2. EditedGateway(tgs[k], spec) \in TgObjects
    BY <1>3 DEF EditGateway, EditedGateway, ClusterTypeOK, TgObjects
  <2>3. tgs' \in [Gateways -> TgObjects \cup {None}] /\ wTgs' \subseteq Gateways
    BY <2>1, <2>2, WriteTypes
  <2>. QED
    BY <1>1, <1>3, <2>3 DEF EditGateway, caches, ClusterTypeOK, ChildrenTypeOK, ChildOf,
                            QueueTypeOK, JobTypeOK
<1>4. ASSUME NEW k \in Gateways, DeleteGateway(k) PROVE TypeOK'
  <2>1. tgs' \in [Gateways -> TgObjects \cup {None}] /\ wTgs' \subseteq Gateways
    BY <1>4, WriteTypes DEF DeleteGateway
  <2>. QED
    BY <1>1, <1>4, <2>1 DEF DeleteGateway, caches, ClusterTypeOK, ChildrenTypeOK, ChildOf,
                            QueueTypeOK, JobTypeOK
<1>5. ASSUME NEW g \in Guards, SetGuard(g) PROVE TypeOK'
  <2>1. guards' \in [Guards -> GuardObjects \cup {None}]
    BY <1>5 DEF SetGuard, ClusterTypeOK
  <2>. QED
    BY <1>1, <1>5, <2>1 DEF SetGuard, caches, ClusterTypeOK, ChildrenTypeOK, ChildOf,
                            QueueTypeOK, JobTypeOK
<1>6. ASSUME NEW p \in Providers, ChangeProvider(p) PROVE TypeOK'
  BY <1>1, <1>6 DEF ChangeProvider, cluster, caches, ClusterTypeOK, ChildrenTypeOK, ChildOf,
                    QueueTypeOK, JobTypeOK
<1>7. ASSUME NEW k \in Gateways, Tamper(k) PROVE TypeOK'
  <2>1. ASSUME NEW old, old # None, ChildOf(k, old), NEW obj \in {None, [old EXCEPT !.spec = None]}
        PROVE  ChildOf(k, obj)
    BY <2>1 DEF ChildOf
  <2>2. ChildrenTypeOK' /\ QueueTypeOK'
    <3>1. CASE /\ gws[k] # None
               /\ \E obj \in {None, [gws[k] EXCEPT !.spec = None]} : GwChanged(k, obj)
               /\ UNCHANGED <<params, policies, wOthers>>
      <4>1. PICK obj \in {None, [gws[k] EXCEPT !.spec = None]} : GwChanged(k, obj)
        BY <3>1
      <4>2. ChildOf(k, obj)
        BY <2>1, <3>1, <4>1 DEF ChildrenTypeOK
      <4>. QED
        BY <1>7, <3>1, <4>1, <4>2, WriteTypes DEF Tamper, caches, ChildrenTypeOK, QueueTypeOK, ChildOf
    <3>2. CASE /\ params[k] # None
               /\ \E obj \in {None, [params[k] EXCEPT !.spec = None]} : ParamsChanged(k, obj)
               /\ UNCHANGED <<gws, policies, wGws>>
      <4>1. PICK obj \in {None, [params[k] EXCEPT !.spec = None]} : ParamsChanged(k, obj)
        BY <3>2
      <4>2. ChildOf(k, obj)
        BY <2>1, <3>2, <4>1 DEF ChildrenTypeOK
      <4>. QED
        BY <1>7, <3>2, <4>1, <4>2, WriteTypes DEF Tamper, caches, ChildrenTypeOK, QueueTypeOK, ChildOf
    <3>3. CASE /\ policies[k] # None
               /\ \E obj \in {None, [policies[k] EXCEPT !.spec = None]} : PolicyChanged(k, obj)
               /\ UNCHANGED <<gws, params, wGws>>
      <4>1. PICK obj \in {None, [policies[k] EXCEPT !.spec = None]} : PolicyChanged(k, obj)
        BY <3>3
      <4>2. ChildOf(k, obj)
        BY <2>1, <3>3, <4>1 DEF ChildrenTypeOK
      <4>. QED
        BY <1>7, <3>3, <4>1, <4>2, WriteTypes DEF Tamper, caches, ChildrenTypeOK, QueueTypeOK, ChildOf
    <3>. QED
      BY <1>7, <3>1, <3>2, <3>3, Zenon DEF Tamper
  <2>. QED
    BY <1>1, <1>7, <2>2 DEF Tamper, caches, ClusterTypeOK, JobTypeOK
<1>. QED
  BY <1>2, <1>3, <1>4, <1>5, <1>6, <1>7 DEF Users

\* The garbage collector keeps the type.
LEMMA CollectType == TypeOK /\ (\E k \in Gateways : Collect(k)) => TypeOK'
<1>. SUFFICES ASSUME TypeOK, NEW k \in Gateways, Collect(k) PROVE TypeOK'
  OBVIOUS
<1>1. ChildOf(k, None)
  BY DEF ChildOf
<1>2. ChildrenTypeOK' /\ QueueTypeOK'
  BY <1>1, WriteTypes DEF Collect, caches, TypeOK, ChildrenTypeOK, QueueTypeOK, ChildOf
<1>. QED
  BY <1>2 DEF Collect, caches, TypeOK, ClusterTypeOK, JobTypeOK, BoundsOK

\* Informers and event handlers keep the type.
LEMMA InformersType == TypeOK /\ Informers => TypeOK'
<1>. SUFFICES ASSUME TypeOK, Informers PROVE TypeOK'
  OBVIOUS
<1>. USE DEF Informers, SyncGateway, SyncGuard, SyncGw, HandleGateway, HandleGuard,
             HandleProvider, HandleChild, cluster, caches, watches
<1>1. ClusterTypeOK'
  BY DEF TypeOK, ClusterTypeOK
<1>2. ChildrenTypeOK'
  BY DEF TypeOK, ChildrenTypeOK, ChildOf
<1>3. QueueTypeOK'
  BY DEF TypeOK, QueueTypeOK, findToolGatewayForGuard, findToolGatewayForGuardrailProvider
<1>4. JobTypeOK' /\ BoundsOK'
  BY DEF TypeOK, JobTypeOK, BoundsOK
<1>. QED
  BY <1>1, <1>2, <1>3, <1>4 DEF TypeOK

\* The reads at the start of Reconcile keep the type.
LEMMA BeginType == TypeOK /\ (\E k \in Gateways : Begin(k)) => TypeOK'
<1>. SUFFICES ASSUME TypeOK, NEW k \in Gateways, Begin(k) PROVE TypeOK'
  OBVIOUS
<1>1. JobTypeOK'
  <2>1. CASE BeginOwned(k)
    BY <2>1 DEF BeginOwned, Job, TypeOK, JobTypeOK, ClusterTypeOK, Abouts
  <2>. QED
    BY <2>1 DEF Begin, BeginNotFound, BeginNotOwned, Dequeue, JobTypeOK
<1>. QED
  BY <1>1 DEF Begin, BeginNotFound, BeginNotOwned, BeginOwned, Dequeue, cluster, caches, watches,
              TypeOK, ClusterTypeOK, ChildrenTypeOK, ChildOf, QueueTypeOK, BoundsOK

\* The ways in which a step of the worker leaves the job and the queue.
LEMMA JobSteps ==
  ASSUME TypeOK, job # Idle
  PROVE  /\ \A reason \in Reasons, about \in Abouts : FailWith(reason, about) => JobTypeOK'
         /\ \A pc \in {"gateway", "guardrails", "ready"}, mem \in TgObjects, reason \in Reasons :
              (Answered(pc, mem, reason) /\ UNCHANGED <<edits, crashes>>)
                => JobTypeOK' /\ BoundsOK'
         /\ \A err : Return(err) => JobTypeOK' /\ queue' \subseteq Gateways
<1>0. job.key \in Gateways /\ job.mem \in TgObjects
  BY DEF TypeOK, JobTypeOK
<1>1. ASSUME NEW reason \in Reasons, NEW about \in Abouts, FailWith(reason, about)
      PROVE  JobTypeOK'
  BY <1>0, <1>1 DEF FailWith, Job, JobTypeOK
<1>2. ASSUME NEW pc \in {"gateway", "guardrails", "ready"}, NEW mem \in TgObjects,
             NEW reason \in Reasons, Answered(pc, mem, reason), UNCHANGED <<edits, crashes>>
      PROVE  JobTypeOK' /\ BoundsOK'
  <2>1. None \in Abouts
    BY DEF Abouts
  <2>2. CASE job' = Job(pc, job.key, mem, None, None) /\ UNCHANGED faults
    BY <1>0, <1>2, <2>1, <2>2 DEF Job, JobTypeOK, TypeOK, BoundsOK
  <2>3. CASE FailWith(reason, None) /\ Fault
    <3>1. BoundsOK'
      BY <1>2, <2>3, BoundsAssumption DEF Fault, TypeOK, BoundsOK
    <3>. QED
      BY <1>1, <2>1, <2>3, <3>1
  <2>. QED
    BY <1>2, <2>2, <2>3 DEF Answered
<1>3. ASSUME NEW err, Return(err) PROVE JobTypeOK' /\ queue' \subseteq Gateways
  BY <1>0, <1>3 DEF Return, JobTypeOK, TypeOK, QueueTypeOK
<1>. QED
  BY <1>1, <1>2, <1>3

\* The calls of Reconcile that write keep the type.
LEMMA ProceedType == TypeOK /\ Proceed => TypeOK'
<1>. SUFFICES ASSUME TypeOK, Proceed PROVE TypeOK'
  OBVIOUS
<1>0. None \in Abouts /\ ChildOf(job.key, None) /\ \A pc \in {"params", "gateway", "guardrails",
        "ready", "notready"} : job.pc = pc => /\ job # Idle /\ job.key \in Gateways
                                              /\ job.mem \in TgObjects
  BY DEF Abouts, ChildOf, TypeOK, JobTypeOK, Idle, Job
<1>1. CASE ensureAgentgatewayParameters
  <2>. DEFINE new == CreateOrPatch(params[job.key], params[job.key], ParamsFor(job.key, job.mem))
  <2>0. job # Idle /\ job.key \in Gateways /\ job.mem \in TgObjects
    BY <1>0, <1>1 DEF ensureAgentgatewayParameters
  <2>1. CASE new = Failed
    <3>1. JobTypeOK' /\ UNCHANGED <<params, wOthers, faults>>
      BY <1>0, <1>1, <2>0, <2>1, JobSteps DEF ensureAgentgatewayParameters, Reasons
    <3>. QED
      BY <1>1, <3>1 DEF ensureAgentgatewayParameters, caches, TypeOK, ClusterTypeOK,
                        ChildrenTypeOK, ChildOf, QueueTypeOK, BoundsOK
  <2>2. CASE new # Failed
    <3>1. ChildOf(job.key, new)
      BY <2>0, <2>2, WrittenChild DEF ParamsFor, TypeOK, ChildrenTypeOK
    <3>2. ParamsChanged(job.key, new) /\ Answered("gateway", job.mem, reasonAgentgatewayParametersFailed)
      BY <1>1, <2>2 DEF ensureAgentgatewayParameters
    <3>. HIDE DEF new
    <3>3. JobTypeOK' /\ BoundsOK'
      BY <1>1, <2>0, <3>2, JobSteps DEF ensureAgentgatewayParameters, Reasons
    <3>4. /\ DOMAIN params' = Gateways /\ wOthers' \subseteq Gateways
          /\ \A j \in Gateways : ChildOf(j, params'[j])
      BY <2>0, <3>1, <3>2, WriteTypes
    <3>. QED
      BY <1>1, <3>3, <3>4 DEF ensureAgentgatewayParameters, caches, TypeOK, ClusterTypeOK,
                              ChildrenTypeOK, ChildOf, QueueTypeOK
  <2>. QED
    BY <2>1, <2>2
<1>2. CASE ensureGateway
  <2>. DEFINE new == CreateOrPatch(cGws[job.key], gws[job.key], GatewayFor(job.key, job.mem))
  <2>0. job # Idle /\ job.key \in Gateways /\ job.mem \in TgObjects
    BY <1>0, <1>2 DEF ensureGateway
  <2>1. CASE new = Failed
    <3>1. JobTypeOK' /\ UNCHANGED <<gws, wGws, faults>>
      BY <1>0, <1>2, <2>0, <2>1, JobSteps DEF ensureGateway, Reasons
    <3>. QED
      BY <1>2, <3>1 DEF ensureGateway, caches, TypeOK, ClusterTypeOK,
                        ChildrenTypeOK, ChildOf, QueueTypeOK, BoundsOK
  <2>2. CASE new # Failed
    <3>1. ChildOf(job.key, new)
      BY <2>0, <2>2, WrittenChild DEF GatewayFor, TypeOK, ChildrenTypeOK
    <3>2. GwChanged(job.key, new) /\ Answered("guardrails", job.mem, reasonGatewayFailed)
      BY <1>2, <2>2 DEF ensureGateway
    <3>. HIDE DEF new
    <3>3. JobTypeOK' /\ BoundsOK'
      BY <1>2, <2>0, <3>2, JobSteps DEF ensureGateway, Reasons
    <3>4. /\ DOMAIN gws' = Gateways /\ wGws' \subseteq Gateways
          /\ \A j \in Gateways : ChildOf(j, gws'[j])
      BY <2>0, <3>1, <3>2, WriteTypes
    <3>. QED
      BY <1>2, <3>3, <3>4 DEF ensureGateway, caches, TypeOK, ClusterTypeOK,
                              ChildrenTypeOK, ChildOf, QueueTypeOK
  <2>. QED
    BY <2>1, <2>2
<1>3. ASSUME job # Idle, NEW obj, ChildOf(job.key, obj), PolicyChanged(job.key, obj),
             Answered("ready", WithUnsupported(job.mem, None), reasonGuardrailsFailed),
             UNCHANGED <<tgs, guards, classes, params, gws, caches, wTgs, wGuards, wProviders,
                         wGws, queue, edits, crashes>>
      PROVE  TypeOK'
  <2>0. job.key \in Gateways /\ job.mem \in TgObjects
    BY <1>3 DEF TypeOK, JobTypeOK
  <2>1. WithUnsupported(job.mem, None) \in TgObjects
    BY <2>0, UnsupportedEdited
  <2>2. JobTypeOK' /\ BoundsOK'
    BY <1>3, <2>1, JobSteps DEF Reasons
  <2>3. /\ DOMAIN policies' = Gateways /\ wOthers' \subseteq Gateways
        /\ \A j \in Gateways : ChildOf(j, policies'[j])
    BY <1>3, <2>0, WriteTypes
  <2>. QED
    BY <1>3, <2>2, <2>3 DEF caches, TypeOK, ClusterTypeOK, ChildrenTypeOK, ChildOf, QueueTypeOK
<1>4. CASE ensureNoGuardrails
  BY <1>0, <1>3, <1>4 DEF ensureNoGuardrails
<1>5. CASE ensureGuardrailPolicy
  <2>. DEFINE want == PolicyFor(job.key, job.mem, jobGuard)
              new  == CreateOrPatch(policies[job.key], policies[job.key], want)
  <2>0. job # Idle /\ job.key \in Gateways /\ job.mem \in TgObjects
    BY <1>0, <1>5 DEF ensureGuardrailPolicy
  <2>1. CASE new = Failed
    <3>1. JobTypeOK' /\ UNCHANGED <<policies, wOthers, faults>>
      BY <1>0, <1>5, <2>0, <2>1, JobSteps DEF ensureGuardrailPolicy, Reasons
    <3>. QED
      BY <1>5, <3>1 DEF ensureGuardrailPolicy, caches, TypeOK, ClusterTypeOK,
                        ChildrenTypeOK, ChildOf, QueueTypeOK, BoundsOK
  <2>2. CASE new # Failed
    <3>1. ChildOf(job.key, new)
      BY <2>0, <2>2, WrittenChild DEF PolicyFor, TypeOK, ChildrenTypeOK
    <3>2. /\ PolicyChanged(job.key, new)
          /\ Answered("ready", WithUnsupported(job.mem, None), reasonGuardrailsFailed)
      BY <1>5, <2>2 DEF ensureGuardrailPolicy
    <3>. HIDE DEF new
    <3>. QED
      BY <1>3, <1>5, <2>0, <3>1, <3>2 DEF ensureGuardrailPolicy
  <2>. QED
    BY <2>1, <2>2
<1>6. CASE MultipleGuards
  <2>0. job # Idle /\ job.key \in Gateways /\ job.mem \in TgObjects /\ job.mem.gen \in Nat
    BY <1>0, <1>6 DEF MultipleGuards, TgObjects
  <2>1. WithUnsupported(job.mem, job.mem.gen) \in TgObjects
    BY <2>0, UnsupportedEdited
  <2>2. JobTypeOK'
    BY <1>0, <1>6, <2>0, <2>1 DEF MultipleGuards, Job, JobTypeOK, Reasons
  <2>. QED
    BY <1>6, <2>2 DEF MultipleGuards, cluster, caches, watches, TypeOK, ClusterTypeOK,
                      ChildrenTypeOK, ChildOf, QueueTypeOK, BoundsOK
<1>7. CASE GuardNotUsable
  <2>0. job # Idle /\ job.key \in Gateways /\ job.mem \in TgObjects
    BY <1>0, <1>7 DEF GuardNotUsable
  <2>1. jobGuard \in GuardKeys
    <3>1. job.mem.spec \in GatewaySpecs
      BY <2>0 DEF TgObjects
    <3>2. Len(job.mem.spec.guardrails) = 1
      BY <1>7 DEF GuardNotUsable
    <3>3. job.mem.spec.guardrails # <<>>
      BY <3>2
    <3>. QED
      BY <2>0, <3>1, <3>3 DEF jobGuard, GuardKeys
  <2>2. Get(cGuards, jobGuard) \in GuardObjects \cup {None}
    BY DEF Get, TypeOK, ClusterTypeOK
  <2>3. JobTypeOK'
    <3>1. CASE FailWith(reasonGuardNotFound, [guard |-> jobGuard, ready |-> None])
      <4>1. [guard |-> jobGuard, ready |-> None] \in Abouts
        BY <2>1 DEF Abouts
      <4>. QED
        BY <2>0, <3>1, <4>1, JobSteps DEF Reasons
    <3>2. CASE /\ Get(cGuards, jobGuard) # None
               /\ FailWith(reasonGuardNotReady,
                           [guard |-> jobGuard, ready |-> Get(cGuards, jobGuard).ready])
      <4>1. [guard |-> jobGuard, ready |-> Get(cGuards, jobGuard).ready] \in Abouts
        BY <2>1, <2>2, <3>2 DEF Abouts
      <4>. QED
        BY <2>0, <3>2, <4>1, JobSteps DEF Reasons
    <3>. QED
      BY <1>7, <3>1, <3>2 DEF GuardNotUsable
  <2>. QED
    BY <1>7, <2>3 DEF GuardNotUsable, cluster, caches, watches, TypeOK, ClusterTypeOK,
                      ChildrenTypeOK, ChildOf, QueueTypeOK, BoundsOK
<1>8. CASE updateStatusReady
  <2>0. job # Idle /\ job.key \in Gateways /\ job.mem \in TgObjects
    BY <1>0, <1>8 DEF updateStatusReady
  <2>1. tgs' \in [Gateways -> TgObjects \cup {None}] /\ wTgs' \subseteq Gateways
    <3>1. CASE tgs[job.key] = None
      BY <1>8, <3>1 DEF updateStatusReady, TypeOK, ClusterTypeOK, QueueTypeOK
    <3>2. CASE tgs[job.key] # None
      <4>1. PatchStatus(ReadyStatus(job.mem))
        BY <1>8, <3>2 DEF updateStatusReady
      <4>. QED
        BY <2>0, <3>2, <4>1, WantedStatus, StatusPatched
    <3>. QED
      BY <3>1, <3>2
  <2>2. PICK err : Return(err)
    BY <1>8 DEF updateStatusReady
  <2>3. BoundsOK'
    <3>1. UNCHANGED faults \/ Fault
      BY <1>8, Zenon DEF updateStatusReady
    <3>2. UNCHANGED <<edits, crashes>>
      BY <1>8 DEF updateStatusReady
    <3>. QED
      BY <3>1, <3>2, BoundsAssumption DEF Fault, TypeOK, BoundsOK
  <2>4. JobTypeOK' /\ queue' \subseteq Gateways
    BY <2>0, <2>2, JobSteps
  <2>. QED
    BY <1>8, <2>1, <2>3, <2>4 DEF updateStatusReady, caches, TypeOK, ClusterTypeOK,
                                  ChildrenTypeOK, ChildOf, QueueTypeOK
<1>9. CASE updateStatusNotReady
  <2>0. /\ job # Idle /\ job.key \in Gateways /\ job.mem \in TgObjects
        /\ job.reason \in Reasons /\ job.about \in Abouts
    BY <1>0, <1>9 DEF updateStatusNotReady, TypeOK, JobTypeOK
  <2>1. tgs' \in [Gateways -> TgObjects \cup {None}] /\ wTgs' \subseteq Gateways
    <3>1. CASE tgs[job.key] = None
      BY <1>9, <3>1 DEF updateStatusNotReady, TypeOK, ClusterTypeOK, QueueTypeOK
    <3>2. CASE tgs[job.key] # None
      <4>1. PatchStatus(NotReadyStatus(job.mem, job.reason, job.about))
        BY <1>9, <3>2 DEF updateStatusNotReady
      <4>. QED
        BY <2>0, <3>2, <4>1, WantedStatus, StatusPatched
    <3>. QED
      BY <3>1, <3>2
  <2>2. JobTypeOK' /\ queue' \subseteq Gateways
    BY <1>9, <2>0, JobSteps DEF updateStatusNotReady
  <2>. QED
    BY <1>9, <2>1, <2>2 DEF updateStatusNotReady, caches, TypeOK, ClusterTypeOK,
                            ChildrenTypeOK, ChildOf, QueueTypeOK, BoundsOK
<1>. QED
  BY <1>1, <1>2, <1>4, <1>5, <1>6, <1>7, <1>8, <1>9 DEF Proceed

\* A failed call keeps the type.
LEMMA CallFailsType == TypeOK /\ CallFails => TypeOK'
<1>. SUFFICES ASSUME TypeOK, CallFails PROVE TypeOK'
  OBVIOUS
<1>0. job # Idle
  <2>1. job.pc \in {"params", "gateway", "guardrails", "ready", "notready"}
    BY DEF CallFails
  <2>. QED
    BY <2>1 DEF Idle, Job
<1>1. BoundsOK'
  BY BoundsAssumption DEF CallFails, Fault, TypeOK, BoundsOK
<1>2. \/ (\E reason \in Reasons : FailWith(reason, None)) /\ UNCHANGED queue
      \/ Return(TRUE)
  BY DEF CallFails, Reasons
<1>3. JobTypeOK' /\ queue' \subseteq Gateways
  BY <1>0, <1>2, JobSteps DEF Abouts, TypeOK, QueueTypeOK
<1>. QED
  BY <1>1, <1>3 DEF CallFails, cluster, caches, watches, TypeOK, ClusterTypeOK, ChildrenTypeOK,
                    ChildOf, QueueTypeOK

\* A restart keeps the type.
LEMMA RestartType == TypeOK /\ Restart => TypeOK'
<1>. SUFFICES ASSUME TypeOK, Restart PROVE TypeOK'
  OBVIOUS
<1>1. BoundsOK'
  BY BoundsAssumption DEF Restart, TypeOK, BoundsOK
<1>. QED
  BY <1>1 DEF Restart, cluster, TypeOK, ClusterTypeOK, ChildrenTypeOK, ChildOf, QueueTypeOK,
              JobTypeOK

\* Every step keeps the type.
LEMMA NextType == TypeOK /\ [Next]_vars => TypeOK'
<1>1. TypeOK /\ UNCHANGED vars => TypeOK'
  BY DEF vars, cluster, caches, watches, TypeOK, ClusterTypeOK, ChildrenTypeOK, ChildOf,
         QueueTypeOK, JobTypeOK, BoundsOK
<1>. QED
  BY <1>1, UsersType, InformersType, CollectType, BeginType, ProceedType, CallFailsType,
     RestartType DEF Next

\* Every variable of the ToolGateway controller keeps its type: children carry
\* the key of their ToolGateway, conditions name what was seen, and every
\* failed Reconcile has a reason to report.
THEOREM TypeCorrect == Spec => []TypeOK
BY InitType, NextType, PTL DEF Spec

-----------------------------------------------------------------------------
(* Ready and GuardrailsUnsupported exclude each other.                     *)

\* Only users and status patches change a ToolGateway.
LEMMA TgSteps ==
  Next => \/ UNCHANGED tgs
          \/ \E k \in Gateways : CreateGateway(k) \/ EditGateway(k) \/ DeleteGateway(k)
          \/ updateStatusReady \/ updateStatusNotReady
<1>1. Users => \/ UNCHANGED tgs
               \/ \E k \in Gateways : CreateGateway(k) \/ EditGateway(k) \/ DeleteGateway(k)
  BY DEF Users, Tamper, SetGuard, ChangeProvider, cluster
<1>2. Informers => UNCHANGED tgs
  BY DEF Informers, SyncGateway, HandleGateway, SyncGw, HandleChild, SyncGuard, HandleGuard,
         HandleProvider, cluster
<1>3. (\E k \in Gateways : Collect(k) \/ Begin(k)) => UNCHANGED tgs
  BY DEF Collect, Begin, BeginNotFound, BeginNotOwned, BeginOwned, cluster
<1>4. Proceed => UNCHANGED tgs \/ updateStatusReady \/ updateStatusNotReady
  BY DEF Proceed, ensureAgentgatewayParameters, ensureGateway, ensureNoGuardrails,
         MultipleGuards, GuardNotUsable, ensureGuardrailPolicy, cluster
<1>5. CallFails \/ Restart => UNCHANGED tgs
  BY DEF CallFails, Restart, cluster
<1>. QED
  BY <1>1, <1>2, <1>3, <1>4, <1>5 DEF Next

\* Reconcile gets to "ready" only with the condition taken back.
LEMMA TakesBackStep == TypeOK /\ ReadyTakesBack /\ [Next]_vars => ReadyTakesBack'
<1>. SUFFICES ASSUME TypeOK, ReadyTakesBack, Next \/ UNCHANGED vars PROVE ReadyTakesBack'
  OBVIOUS
<1>1. ASSUME UNCHANGED job PROVE ReadyTakesBack'
  BY <1>1 DEF ReadyTakesBack
<1>2. ASSUME job' = Idle PROVE ReadyTakesBack'
  BY <1>2 DEF ReadyTakesBack, Idle, Job
<1>3. ASSUME NEW pc, pc # "ready", NEW k, NEW mem, NEW reason, NEW about,
             job' = Job(pc, k, mem, reason, about)
      PROVE  ReadyTakesBack'
  BY <1>3 DEF ReadyTakesBack, Job
<1>4. ASSUME job.pc = "guardrails", job' = Job("ready", job.key, WithUnsupported(job.mem, None), None, None)
      PROVE  ReadyTakesBack'
  <2>1. job.mem \in TgObjects
    BY <1>4 DEF TypeOK, JobTypeOK, Idle, Job
  <2>2. WithUnsupported(job.mem, None).status.conds.unsupported = None
    BY <2>1, UnsupportedEdited
  <2>. QED
    BY <1>4, <2>2 DEF ReadyTakesBack, Job
<1>5. CASE Users \/ Informers \/ UNCHANGED vars
  <2>1. UNCHANGED job
    BY <1>5 DEF Users, CreateGateway, EditGateway, DeleteGateway, Tamper, SetGuard,
         ChangeProvider, Informers, SyncGateway, HandleGateway, SyncGw, HandleChild, SyncGuard,
         HandleGuard, HandleProvider, vars
  <2>. QED
    BY <1>1, <2>1
<1>6. ASSUME NEW k \in Gateways, Collect(k) \/ Begin(k) PROVE ReadyTakesBack'
  <2>1. CASE BeginOwned(k)
    BY <1>3, <2>1 DEF BeginOwned
  <2>2. CASE Collect(k) \/ BeginNotFound(k) \/ BeginNotOwned(k)
    BY <1>1, <2>2 DEF Collect, BeginNotFound, BeginNotOwned
  <2>. QED
    BY <1>6, <2>1, <2>2 DEF Begin
<1>7. CASE Proceed
  <2>1. ASSUME NEW reason, NEW about, FailWith(reason, about) PROVE ReadyTakesBack'
    BY <1>3, <2>1 DEF FailWith
  <2>2. ASSUME NEW pc, NEW mem, NEW reason, Answered(pc, mem, reason),
               \/ pc # "ready"
               \/ job.pc = "guardrails" /\ mem = WithUnsupported(job.mem, None)
        PROVE  ReadyTakesBack'
    BY <1>3, <1>4, <2>1, <2>2 DEF Answered
  <2>3. CASE ensureAgentgatewayParameters
    BY <2>1, <2>2, <2>3, Zenon DEF ensureAgentgatewayParameters
  <2>4. CASE ensureGateway
    BY <2>1, <2>2, <2>4, Zenon DEF ensureGateway
  <2>5. CASE ensureNoGuardrails
    BY <2>2, <2>5, Zenon DEF ensureNoGuardrails
  <2>6. CASE MultipleGuards
    BY <1>3, <2>6 DEF MultipleGuards
  <2>7. CASE GuardNotUsable
    BY <2>1, <2>7, Zenon DEF GuardNotUsable
  <2>8. CASE ensureGuardrailPolicy
    BY <2>1, <2>2, <2>8, Zenon DEF ensureGuardrailPolicy
  <2>9. CASE updateStatusReady \/ updateStatusNotReady
    BY <1>2, <2>9, Zenon DEF updateStatusReady, updateStatusNotReady, Return
  <2>. QED
    BY <1>7, <2>3, <2>4, <2>5, <2>6, <2>7, <2>8, <2>9 DEF Proceed
<1>8. CASE CallFails \/ Restart
  BY <1>2, <1>3, <1>8 DEF CallFails, Restart, FailWith, Return
<1>. QED
  BY <1>5, <1>6, <1>7, <1>8 DEF Next

\* Every change of a ToolGateway keeps the two conditions apart.
LEMMA NotUnsupportedStep ==
  TypeOK /\ ReadyTakesBack /\ ReadyNotUnsupported /\ [Next]_vars => ReadyNotUnsupported'
<1>. DEFINE Apart(obj) ==
       (/\ obj # None /\ obj.status.conds.ready # None
        /\ obj.status.conds.ready.status = "True") => obj.status.conds.unsupported = None
<1>. SUFFICES ASSUME TypeOK, ReadyTakesBack, ReadyNotUnsupported, Next \/ UNCHANGED vars
              PROVE  ReadyNotUnsupported'
  OBVIOUS
<1>1. ASSUME UNCHANGED tgs PROVE ReadyNotUnsupported'
  BY <1>1 DEF ReadyNotUnsupported
<1>2. ASSUME NEW k \in Gateways, NEW obj, TgChanged(k, obj), Apart(obj) PROVE ReadyNotUnsupported'
  BY <1>2 DEF TgChanged, ReadyNotUnsupported, TypeOK, ClusterTypeOK
<1>3. ASSUME NEW k \in Gateways, CreateGateway(k) PROVE ReadyNotUnsupported'
  <2>1. PICK spec \in GatewaySpecs : TgChanged(k, NewGateway(edits', spec))
    BY <1>3 DEF CreateGateway
  <2>2. Apart(NewGateway(edits', spec))
    BY DEF NewGateway, NoStatus
  <2>. QED
    BY <1>2, <2>1, <2>2
<1>4. ASSUME NEW k \in Gateways, EditGateway(k) PROVE ReadyNotUnsupported'
  <2>1. PICK spec \in GatewaySpecs : TgChanged(k, EditedGateway(tgs[k], spec))
    BY <1>4 DEF EditGateway
  <2>2. Apart(EditedGateway(tgs[k], spec))
    BY <1>4 DEF EditGateway, EditedGateway, ReadyNotUnsupported
  <2>. QED
    BY <1>2, <2>1, <2>2
<1>5. ASSUME NEW k \in Gateways, DeleteGateway(k) PROVE ReadyNotUnsupported'
  BY <1>2, <1>5 DEF DeleteGateway
<1>6. ASSUME job # Idle, tgs[job.key] # None, NEW want \in Statuses, PatchStatus(want),
             want.conds.ready.status = "False" \/ want.conds.unsupported = None
      PROVE  ReadyNotUnsupported'
  <2>1. job.key \in Gateways
    BY <1>6 DEF TypeOK, JobTypeOK
  <2>2. \A k \in Gateways \ {job.key} : tgs'[k] = tgs[k]
    BY <1>6, StatusPatched
  <2>3. tgs'[job.key].status.conds = tgs[job.key].status.conds \/ tgs'[job.key].status.conds = want.conds
    BY <1>6, StatusPatched
  <2>4. Apart(tgs[job.key])
    BY <2>1 DEF ReadyNotUnsupported
  <2>5. Apart(tgs'[job.key])
    BY <1>6, <2>3, <2>4
  <2>. QED
    BY <2>2, <2>5 DEF ReadyNotUnsupported
<1>7. CASE updateStatusReady
  <2>1. job.pc = "ready" /\ job # Idle /\ job.mem \in TgObjects
    BY <1>7 DEF updateStatusReady, TypeOK, JobTypeOK, Idle, Job
  <2>2. CASE tgs[job.key] # None
    <3>1. PatchStatus(ReadyStatus(job.mem))
      BY <1>7, <2>2 DEF updateStatusReady
    <3>2. ReadyStatus(job.mem).conds.unsupported = None
      BY <2>1 DEF ReadyStatus, ReadyTakesBack
    <3>. QED
      BY <1>6, <2>1, <2>2, <3>1, <3>2, WantedStatus
  <2>3. CASE tgs[job.key] = None
    BY <1>1, <1>7, <2>3 DEF updateStatusReady
  <2>. QED
    BY <2>2, <2>3
<1>8. CASE updateStatusNotReady
  <2>1. /\ job.pc = "notready" /\ job # Idle /\ job.mem \in TgObjects
        /\ job.reason \in Reasons /\ job.about \in Abouts
    BY <1>8 DEF updateStatusNotReady, TypeOK, JobTypeOK, Idle, Job
  <2>2. CASE tgs[job.key] # None
    <3>1. PatchStatus(NotReadyStatus(job.mem, job.reason, job.about))
      BY <1>8, <2>2 DEF updateStatusNotReady
    <3>2. NotReadyStatus(job.mem, job.reason, job.about).conds.ready.status = "False"
      BY DEF NotReadyStatus, NotReadyCond
    <3>. QED
      BY <1>6, <2>1, <2>2, <3>1, <3>2, WantedStatus
  <2>3. CASE tgs[job.key] = None
    BY <1>1, <1>8, <2>3 DEF updateStatusNotReady
  <2>. QED
    BY <2>2, <2>3
<1>. QED
  BY <1>1, <1>3, <1>4, <1>5, <1>7, <1>8, TgSteps DEF vars, cluster

\* At first nothing is Ready.
LEMMA ApartInit == Init => ReadyTakesBack /\ ReadyNotUnsupported
<1>1. Init => ReadyTakesBack
  BY DEF Init, ReadyTakesBack, Idle, Job
<1>2. Init => ReadyNotUnsupported
  BY DEF Init, ReadyNotUnsupported, NewGateway, NoStatus
<1>. QED
  BY <1>1, <1>2

\* No ToolGateway ever says both Ready and GuardrailsUnsupported, although the
\* patch that removes the second condition is computed against a base from
\* which it was already removed: whenever Ready becomes True the whole list of
\* conditions is sent, without the other one.
THEOREM NeverReadyUnsupported == Spec => []ReadyNotUnsupported
BY ApartInit, TypeCorrect, TakesBackStep, NotUnsupportedStep, PTL DEF Spec

-----------------------------------------------------------------------------
(***************************************************************************)
(* A ToolGateway that says Ready has its guardrail policy in force: the    *)
(* proof that GuardrailInv is inductive.  Each lemma covers the actions    *)
(* with one kind of effect on the variables the invariant is about.        *)
(***************************************************************************)

\* A Ready condition says no more than its generation.
LEMMA ReadyConds ==
  /\ \A x, y : (ReadyCond(x) = ReadyCond(y)) <=> (x.gen = y.gen)
  /\ \A x, y, reason, about : NotReadyCond(x, reason, about) # ReadyCond(y)
  /\ \A x : ReadyCond(x).gen = x.gen /\ \A reason, about : NotReadyCond(x, reason, about).gen = x.gen
BY DEF ReadyCond, NotReadyCond

\* Who says Ready has a condition.
LEMMA ReadyIsSaid == \A x \in TgObjects : ReadyCond(x) # None
<1>. SUFFICES ASSUME NEW x \in TgObjects PROVE ReadyCond(x) # None
  OBVIOUS
<1>1. ReadyCond(x) \in Conditions(Abouts)
  BY DEF ReadyCond, Conditions, Reasons, Abouts, TgObjects
<1>. QED
  BY <1>1, NoObjectAssumption

\* The policy follows from the owner's key and uid and its spec.
LEMMA SameWanted ==
  \A k, x, y : (x.uid = y.uid /\ x.spec = y.spec) => WantedPolicy(k, x) = WantedPolicy(k, y)
BY DEF WantedPolicy, PolicyFor, Child

\* A ToolGateway and its copies have a uid and a generation.
LEMMA Numbers ==
  ASSUME TypeOK
  PROVE  /\ edits \in Nat
         /\ \A k \in Gateways : /\ tgs[k] # None => tgs[k] \in TgObjects
                                /\ tgs[k] # None => tgs[k].uid \in Nat /\ tgs[k].gen \in Nat
                                /\ cTgs[k] # None => cTgs[k].uid \in Nat /\ cTgs[k].gen \in Nat
         /\ job # Idle => /\ job.key \in Gateways /\ job.mem \in TgObjects /\ job.mem # None
                          /\ job.mem.uid \in Nat /\ job.mem.gen \in Nat
<1>1. edits \in Nat
  BY BoundsAssumption DEF TypeOK, BoundsOK
<1>2. ASSUME NEW k \in Gateways
      PROVE  /\ tgs[k] # None => tgs[k] \in TgObjects
             /\ cTgs[k] # None => cTgs[k] \in TgObjects
  BY DEF TypeOK, ClusterTypeOK
<1>3. job # Idle => job.key \in Gateways /\ job.mem \in TgObjects
  BY DEF TypeOK, JobTypeOK
<1>4. \A x \in TgObjects : x.uid \in Nat /\ x.gen \in Nat /\ x # None
  BY NoObjectAssumption DEF TgObjects
<1>. QED
  BY <1>1, <1>2, <1>3, <1>4

\* No Reconcile of a ToolGateway is under way when the worker is idle.
LEMMA IdleKey == job = Idle => job.key \notin Gateways /\ job.pc # "ready"
BY NoneAssumption DEF Idle, Job

-----------------------------------------------------------------------------
(* Steps that touch neither a ToolGateway nor its policy.                  *)

\* The worker's job may go on, with the same copy, anywhere but to "ready".
SameJob == \/ UNCHANGED job
           \/ /\ job # Idle /\ job' # Idle
              /\ job'.key = job.key /\ job'.mem # None
              /\ job'.mem.uid = job.mem.uid /\ job'.mem.gen = job.mem.gen
              /\ job'.mem.spec = job.mem.spec

\* A step that leaves gateways and policies alone, loses no event and enqueues at most.
LEMMA QuietStep ==
  ASSUME TypeOK, GuardrailInv,
         UNCHANGED <<tgs, classes, policies, cTgs, cClasses, wTgs>>,
         queue \subseteq queue', wOthers \cup queue \subseteq wOthers' \cup queue',
         edits' \in Nat, edits <= edits',
         SameJob, UNCHANGED job \/ job'.pc # "ready"
  PROVE  GuardrailInv'
<1>0. /\ UidsOld /\ CopiesOlder /\ ReadyNotAhead /\ ReadySeen
      /\ PolicyBeforeReady /\ GuardrailInForce
  BY DEF GuardrailInv
<1>1. UidsOld'
  BY <1>0, Numbers DEF UidsOld, SameJob
<1>2. CopiesOlder'
  BY <1>0, Numbers DEF CopiesOlder, Older, SameJob
<1>3. ReadyNotAhead'
  BY <1>0 DEF ReadyNotAhead
<1>4. ReadySeen'
  BY <1>0, Numbers DEF ReadySeen, Current, SameJob
<1>5. PolicyBeforeReady'
  BY <1>0 DEF PolicyBeforeReady
<1>6. GuardrailInForce'
  <2>1. job'.key = job.key
    BY DEF SameJob
  <2>2. \A k \in Gateways : Claimed(k)' = Claimed(k)
    BY DEF Claimed
  <2>. QED
    BY <1>0, <2>1, <2>2 DEF GuardrailInForce
<1>. QED
  BY <1>1, <1>2, <1>3, <1>4, <1>5, <1>6 DEF GuardrailInv

-----------------------------------------------------------------------------
(* Steps that write or delete a policy: whoever does, an event reports it. *)

\* A step that changes one policy, whose event is then pending.
LEMMA PolicyStep ==
  ASSUME TypeOK, GuardrailInv, NEW k \in Gateways, NEW obj, PolicyChanged(k, obj),
         UNCHANGED <<tgs, classes, cTgs, cClasses, wTgs, queue>>,
         edits' \in Nat, edits <= edits', SameJob,
         \/ UNCHANGED job
         \/ k = job.key /\ (job'.pc = "ready" => /\ Len(job.mem.spec.guardrails) <= 1
                                                 /\ obj = WantedPolicy(k, job.mem))
  PROVE  GuardrailInv'
<1>0. /\ UidsOld /\ CopiesOlder /\ ReadyNotAhead /\ ReadySeen
      /\ PolicyBeforeReady /\ GuardrailInForce
  BY DEF GuardrailInv
<1>1. UidsOld'
  BY <1>0, Numbers DEF UidsOld, SameJob
<1>2. CopiesOlder'
  BY <1>0, Numbers DEF CopiesOlder, Older, SameJob
<1>3. ReadyNotAhead'
  BY <1>0 DEF ReadyNotAhead
<1>4. ReadySeen'
  BY <1>0, Numbers DEF ReadySeen, Current, SameJob
<1>5. /\ policies'[k] = obj /\ \A j \in Gateways \ {k} : policies'[j] = policies[j]
      /\ wOthers \subseteq wOthers' /\ (policies'[k] # policies[k] => k \in wOthers')
  BY DEF PolicyChanged, Event, TypeOK, ChildrenTypeOK
<1>6. PolicyBeforeReady'
  <2>1. CASE UNCHANGED job
    BY <1>0, <1>5, <2>1, IdleKey, Numbers DEF PolicyBeforeReady
  <2>2. CASE /\ k = job.key
             /\ job'.pc = "ready" => /\ Len(job.mem.spec.guardrails) <= 1
                                     /\ obj = WantedPolicy(k, job.mem)
    BY <1>5, <2>1, <2>2, SameWanted DEF PolicyBeforeReady, SameJob
  <2>. QED
    BY <2>1, <2>2
<1>7. GuardrailInForce'
  <2>1. job'.key = job.key
    BY DEF SameJob
  <2>2. \A j \in Gateways : Claimed(j)' = Claimed(j)
    BY DEF Claimed
  <2>. QED
    BY <1>0, <1>5, <2>1, <2>2 DEF GuardrailInForce
<1>. QED
  BY <1>1, <1>2, <1>3, <1>4, <1>6, <1>7 DEF GuardrailInv

-----------------------------------------------------------------------------
(* Users create, edit and delete ToolGateways.                             *)

\* A user's change of one ToolGateway.
LEMMA UserStep ==
  ASSUME TypeOK, TypeOK', GuardrailInv, NEW k \in Gateways, NEW obj, TgChanged(k, obj),
         UNCHANGED <<classes, policies, cTgs, cClasses, wOthers, queue, job>>, edits' = edits + 1,
         obj # None =>
           /\ obj.uid <= edits' /\ Older(cTgs[k], obj)
           /\ tgs[k] # None => obj.uid = tgs[k].uid /\ obj.gen > tgs[k].gen
           /\ tgs[k] = None => obj.uid = edits'
           /\ obj.status.conds.ready # None =>
                /\ SaysReady(obj) => obj.uid > 0 /\ k \in wTgs'
                /\ obj.uid = 0 => obj.status.conds.ready.gen <= obj.gen
  PROVE  GuardrailInv'
<1>0. /\ UidsOld /\ CopiesOlder /\ ReadyNotAhead /\ ReadySeen
      /\ PolicyBeforeReady /\ GuardrailInForce
  BY DEF GuardrailInv
<1>1. tgs'[k] = obj /\ (\A j \in Gateways \ {k} : tgs'[j] = tgs[j]) /\ wTgs \subseteq wTgs'
  BY DEF TgChanged, Event, TypeOK, ClusterTypeOK
<1>2. SaysReady(tgs'[k]) => tgs'[k].uid > 0 /\ k \in wTgs'
  <2>1. tgs'[k] # None => ReadyCond(tgs'[k]) # None
    BY ReadyIsSaid DEF TypeOK, ClusterTypeOK
  <2>. QED
    BY <1>1, <2>1 DEF SaysReady
<1>3. obj # None => obj.uid \in Nat /\ obj.gen \in Nat
  BY <1>1 DEF TypeOK, ClusterTypeOK, TgObjects
<1>4. UidsOld'
  BY <1>0, <1>1, Numbers DEF UidsOld
<1>5. CopiesOlder'
  <2>1. \A j \in Gateways : Older(cTgs[j], tgs'[j])
    BY <1>0, <1>1 DEF CopiesOlder, Older
  <2>2. ASSUME job # Idle, job.key = k, obj # None
        PROVE  /\ Older(job.mem, obj)
               /\ job.mem.uid = obj.uid => /\ cTgs[k] # None /\ cTgs[k].uid = job.mem.uid
                                           /\ job.mem.gen <= cTgs[k].gen
    <3>1. CASE tgs[k] = None
      BY <1>0, <1>3, <2>2, <3>1, Numbers DEF UidsOld, Older
    <3>2. CASE tgs[k] # None
      BY <1>0, <1>3, <2>2, <3>2, Numbers DEF CopiesOlder, Older
    <3>. QED
      BY <3>1, <3>2
  <2>3. ASSUME job # Idle
        PROVE  /\ Older(job.mem, tgs'[job.key])
               /\ (tgs'[job.key] # None /\ job.mem.uid = tgs'[job.key].uid) =>
                    /\ cTgs[job.key] # None /\ cTgs[job.key].uid = job.mem.uid
                    /\ job.mem.gen <= cTgs[job.key].gen
    <3>1. CASE job.key = k /\ obj # None
      BY <1>1, <2>2, <2>3, <3>1
    <3>2. CASE job.key = k /\ obj = None
      BY <1>1, <3>2 DEF Older
    <3>3. CASE job.key # k
      BY <1>0, <1>1, <2>3, <3>3, Numbers DEF CopiesOlder
    <3>. QED
      BY <3>1, <3>2, <3>3
  <2>. QED
    BY <1>0, <2>1, <2>3 DEF CopiesOlder
<1>6. ReadyNotAhead'
  BY <1>0, <1>1 DEF ReadyNotAhead
<1>7. ReadySeen'
  BY <1>0, <1>1, <1>2, Numbers DEF ReadySeen
<1>8. PolicyBeforeReady'
  BY <1>0 DEF PolicyBeforeReady
<1>9. GuardrailInForce'
  <2>1. \A j \in Gateways \ {k} : Claimed(j)' = Claimed(j)
    BY <1>1 DEF Claimed
  <2>. QED
    BY <1>0, <1>1, <1>2, <2>1 DEF GuardrailInForce
<1>. QED
  BY <1>4, <1>5, <1>6, <1>7, <1>8, <1>9 DEF GuardrailInv

\* A ToolGateway created says nothing yet.
LEMMA CreateStep ==
  ASSUME TypeOK, TypeOK', GuardrailInv, NEW k \in Gateways, CreateGateway(k)
  PROVE  GuardrailInv'
<1>1. PICK spec \in GatewaySpecs : TgChanged(k, NewGateway(edits', spec))
  BY DEF CreateGateway
<1>2. edits' = edits + 1 /\ tgs[k] = None
  BY DEF CreateGateway, Edit
<1>. DEFINE obj == NewGateway(edits', spec)
<1>3. obj.uid = edits' /\ obj.status.conds.ready = None
  BY DEF NewGateway, NoStatus
<1>4. Older(cTgs[k], obj)
  BY <1>2, <1>3, Numbers DEF Older, GuardrailInv, UidsOld
<1>5. UNCHANGED <<classes, policies, cTgs, cClasses, wOthers, queue, job>>
  BY DEF CreateGateway, caches
<1>6. obj.uid <= edits'
  BY <1>2, <1>3, Numbers
<1>. HIDE DEF obj
<1>. QED
  BY <1>1, <1>2, <1>3, <1>4, <1>5, <1>6, UserStep DEF obj

\* A ToolGateway edited is one generation ahead of what its condition speaks of.
LEMMA EditStep ==
  ASSUME TypeOK, TypeOK', GuardrailInv, NEW k \in Gateways, EditGateway(k)
  PROVE  GuardrailInv'
<1>1. PICK spec \in GatewaySpecs : TgChanged(k, EditedGateway(tgs[k], spec))
  BY DEF EditGateway
<1>2. edits' = edits + 1 /\ tgs[k] # None
  BY DEF EditGateway, Edit
<1>. DEFINE obj == EditedGateway(tgs[k], spec)
<1>3. obj.uid = tgs[k].uid /\ obj.gen = tgs[k].gen + 1 /\ obj.status = tgs[k].status
  BY DEF EditedGateway
<1>4. /\ tgs[k].uid \in Nat /\ tgs[k].gen \in Nat /\ edits \in Nat
      /\ cTgs[k] # None => cTgs[k].uid \in Nat /\ cTgs[k].gen \in Nat
  BY <1>2, Numbers
<1>5. Older(cTgs[k], tgs[k]) /\ tgs[k].uid <= edits
  BY <1>2 DEF GuardrailInv, CopiesOlder, UidsOld
<1>6. k \in wTgs'
  BY <1>1, <1>3, <1>4 DEF TgChanged, Event
<1>7. UNCHANGED <<classes, policies, cTgs, cClasses, wOthers, queue, job>>
  BY DEF EditGateway, caches
<1>. HIDE DEF obj
<1>8. Older(cTgs[k], obj)
  BY <1>2, <1>3, <1>4, <1>5 DEF Older
<1>9. ASSUME obj.status.conds.ready # None
      PROVE  /\ SaysReady(obj) => obj.uid > 0
             /\ obj.uid = 0 => obj.status.conds.ready.gen <= obj.gen
  <2>1. obj.uid = 0 => obj.status.conds.ready.gen <= tgs[k].gen
    BY <1>2, <1>3, <1>9 DEF GuardrailInv, ReadyNotAhead
  <2>2. SaysReady(obj) => obj.status.conds.ready.gen = tgs[k].gen + 1
    BY <1>3, ReadyConds DEF SaysReady
  <2>3. obj.uid = 0 => ~SaysReady(obj)
    BY <1>4, <2>1, <2>2
  <2>4. obj.uid = 0 => obj.status.conds.ready.gen <= obj.gen
    <3>1. ASSUME obj.uid = 0 PROVE obj.status.conds.ready.gen \in Nat
      BY <1>2, <1>3, <1>9, Numbers DEF TgObjects, Statuses, Conditions
    <3>. QED
      BY <1>3, <1>4, <2>1, <3>1
  <2>. QED
    BY <1>3, <1>4, <2>3, <2>4
<1>10. obj.uid <= edits' /\ obj.gen > tgs[k].gen
  BY <1>2, <1>3, <1>4, <1>5
<1>11. TgChanged(k, obj)
  BY <1>1 DEF obj
<1>. QED
  BY <1>2, <1>3, <1>6, <1>7, <1>8, <1>9, <1>10, <1>11, UserStep

\* A ToolGateway that is gone promises nothing.
LEMMA DeleteStep ==
  ASSUME TypeOK, TypeOK', GuardrailInv, NEW k \in Gateways, DeleteGateway(k)
  PROVE  GuardrailInv'
<1>1. TgChanged(k, None) /\ edits' = edits + 1
  BY DEF DeleteGateway, Edit
<1>2. UNCHANGED <<classes, policies, cTgs, cClasses, wOthers, queue, job>>
  BY DEF DeleteGateway, caches
<1>. QED
  BY <1>1, <1>2, UserStep

-----------------------------------------------------------------------------
(* The informers.                                                          *)

\* The informer copies a ToolGateway into the cache.
LEMMA SyncStep ==
  ASSUME TypeOK, GuardrailInv, NEW k \in Gateways, SyncGateway(k)
  PROVE  GuardrailInv'
<1>0. /\ UidsOld /\ CopiesOlder /\ ReadyNotAhead /\ ReadySeen
      /\ PolicyBeforeReady /\ GuardrailInForce
  BY DEF GuardrailInv
<1>1. cTgs'[k] = tgs[k] /\ \A j \in Gateways \ {k} : cTgs'[j] = cTgs[j]
  BY DEF SyncGateway, TypeOK, ClusterTypeOK
<1>2. UNCHANGED <<tgs, classes, policies, cClasses, wTgs, wOthers, queue, job, edits>>
  BY DEF SyncGateway, cluster, watches
<1>3. UidsOld'
  BY <1>0, <1>1, <1>2 DEF UidsOld
<1>4. CopiesOlder'
  <2>1. \A j \in Gateways : Older(cTgs'[j], tgs[j])
    BY <1>0, <1>1 DEF CopiesOlder, Older
  <2>2. ASSUME job # Idle, tgs[job.key] # None, job.mem.uid = tgs[job.key].uid
        PROVE  /\ cTgs'[job.key] # None /\ cTgs'[job.key].uid = job.mem.uid
               /\ job.mem.gen <= cTgs'[job.key].gen
    <3>1. Older(job.mem, tgs[job.key])
      BY <1>0, <2>2 DEF CopiesOlder
    <3>2. CASE job.key = k
      BY <1>1, <2>2, <3>1, <3>2, Numbers DEF Older
    <3>3. CASE job.key # k
      BY <1>0, <1>1, <2>2, <3>3, Numbers DEF CopiesOlder
    <3>. QED
      BY <3>2, <3>3
  <2>. QED
    BY <1>0, <1>2, <2>1, <2>2 DEF CopiesOlder
<1>5. ReadyNotAhead' /\ PolicyBeforeReady'
  BY <1>0, <1>2 DEF ReadyNotAhead, PolicyBeforeReady
<1>6. ReadySeen'
  BY <1>0, <1>1, <1>2 DEF ReadySeen, Current, SaysReady
<1>7. GuardrailInForce'
  BY <1>0, <1>2 DEF GuardrailInForce, Claimed
<1>. QED
  BY <1>3, <1>4, <1>5, <1>6, <1>7 DEF GuardrailInv

\* The handler enqueues a ToolGateway whose cached copy is the present one.
LEMMA HandleStep ==
  ASSUME TypeOK, GuardrailInv, NEW k \in Gateways, HandleGateway(k)
  PROVE  GuardrailInv'
<1>0. /\ UidsOld /\ CopiesOlder /\ ReadyNotAhead /\ ReadySeen
      /\ PolicyBeforeReady /\ GuardrailInForce
  BY DEF GuardrailInv
<1>1. cTgs[k] = tgs[k] /\ wTgs' = wTgs \ {k} /\ queue' = queue \cup {k}
  BY DEF HandleGateway
<1>2. UNCHANGED <<tgs, classes, policies, cTgs, cClasses, wOthers, job, edits>>
  BY DEF HandleGateway, cluster, caches
<1>3. UidsOld' /\ ReadyNotAhead'
  BY <1>0, <1>2 DEF UidsOld, ReadyNotAhead
<1>4. CopiesOlder'
  BY <1>0, <1>2 DEF CopiesOlder
<1>5. PolicyBeforeReady'
  BY <1>0, <1>1, <1>2 DEF PolicyBeforeReady
<1>6. ReadySeen'
  BY <1>0, <1>1, <1>2 DEF ReadySeen, Current, SaysReady
<1>7. GuardrailInForce'
  BY <1>0, <1>1, <1>2 DEF GuardrailInForce, Claimed
<1>. QED
  BY <1>3, <1>4, <1>5, <1>6, <1>7 DEF GuardrailInv

-----------------------------------------------------------------------------
(* The worker.                                                             *)

\* Reconcile starts: the key leaves the queue, the job has the cached copy.
LEMMA BeginStep ==
  ASSUME TypeOK, GuardrailInv, NEW k \in Gateways, Begin(k)
  PROVE  GuardrailInv'
<1>0. /\ UidsOld /\ CopiesOlder /\ ReadyNotAhead /\ ReadySeen
      /\ PolicyBeforeReady /\ GuardrailInForce
  BY DEF GuardrailInv
<1>1. job = Idle /\ queue' = queue \ {k}
  BY DEF Begin, BeginNotFound, BeginNotOwned, BeginOwned, Dequeue
<1>2. UNCHANGED <<tgs, classes, policies, cTgs, cClasses, wTgs, wOthers, edits>>
  BY DEF Begin, BeginNotFound, BeginNotOwned, BeginOwned, cluster, caches, watches
<1>3. ReadyNotAhead'
  BY <1>0, <1>2 DEF ReadyNotAhead
<1>4. CASE BeginOwned(k)
  <2>1. job' = Job("params", k, cTgs[k], None, None) /\ cTgs[k] # None
    BY <1>4 DEF BeginOwned
  <2>2. job'.key = k /\ job'.mem = cTgs[k] /\ job'.pc = "params"
    BY <2>1 DEF Job
  <2>3. UidsOld'
    BY <1>0, <1>2, <2>1, <2>2 DEF UidsOld
  <2>4. CopiesOlder'
    BY <1>0, <1>2, <2>1, <2>2, Numbers DEF CopiesOlder
  <2>5. ReadySeen'
    BY <1>0, <1>2, <2>2 DEF ReadySeen
  <2>6. PolicyBeforeReady'
    BY <2>2 DEF PolicyBeforeReady
  <2>7. GuardrailInForce'
    BY <1>0, <1>1, <1>2, <2>2, IdleKey DEF GuardrailInForce, Claimed
  <2>. QED
    BY <1>3, <2>3, <2>4, <2>5, <2>6, <2>7 DEF GuardrailInv
<1>5. CASE BeginNotFound(k) \/ BeginNotOwned(k)
  <2>1. UNCHANGED job
    BY <1>5 DEF BeginNotFound, BeginNotOwned
  <2>2. UidsOld' /\ CopiesOlder' /\ ReadySeen' /\ PolicyBeforeReady'
    BY <1>0, <1>1, <1>2, <2>1, IdleKey DEF UidsOld, CopiesOlder, ReadySeen, PolicyBeforeReady
  <2>3. ASSUME Claimed(k), SaysReady(tgs[k]) PROVE tgs[k].uid > 0 /\ k \in wTgs
    <3>1. SUFFICES ASSUME Current(cTgs[k], tgs[k]) PROVE FALSE
      BY <1>0, <2>3 DEF ReadySeen
    <3>2. cTgs[k].spec = tgs[k].spec /\ cTgs[k] # None
      BY <1>0, <2>3, <3>1, Numbers DEF Current, Claimed, CopiesOlder, Older
    <3>3. BeginNotOwned(k)
      BY <1>5, <3>2 DEF BeginNotFound
    <3>. QED
      BY <1>0, <2>3, <3>2, <3>3 DEF BeginNotOwned, Owned, Claimed, CopiesOlder
  <2>4. GuardrailInForce'
    BY <1>0, <1>1, <1>2, <2>1, <2>3 DEF GuardrailInForce, Claimed
  <2>. QED
    BY <1>3, <2>2, <2>4 DEF GuardrailInv
<1>. QED
  BY <1>4, <1>5 DEF Begin

\* Reconcile gives up and will be retried, without having written a status.
LEMMA RetryStep ==
  ASSUME TypeOK, GuardrailInv, job # Idle, job' = Idle, queue' = queue \cup {job.key},
         UNCHANGED <<tgs, classes, policies, cTgs, cClasses, wTgs, wOthers, edits>>
  PROVE  GuardrailInv'
<1>0. /\ UidsOld /\ CopiesOlder /\ ReadyNotAhead /\ ReadySeen
      /\ PolicyBeforeReady /\ GuardrailInForce
  BY DEF GuardrailInv
<1>1. UidsOld' /\ CopiesOlder' /\ ReadyNotAhead'
  BY <1>0 DEF UidsOld, CopiesOlder, ReadyNotAhead
<1>2. ReadySeen' /\ PolicyBeforeReady'
  BY <1>0 DEF ReadySeen, PolicyBeforeReady, Idle, Job
<1>3. GuardrailInForce'
  BY <1>0 DEF GuardrailInForce, Claimed
<1>. QED
  BY <1>1, <1>2, <1>3 DEF GuardrailInv

\* Reconcile ends with a status patch.  A ToolGateway that says Ready after it
\* is what Reconcile worked on, or its event is still to be handled.
LEMMA StatusStep ==
  ASSUME TypeOK, TypeOK', GuardrailInv, job # Idle, tgs[job.key] # None,
         NEW want \in Statuses, PatchStatus(want),
         UNCHANGED <<classes, policies, cTgs, cClasses, wOthers, edits>>, job' = Idle,
         queue' = queue \cup {job.key} \/ (queue' = queue /\ job.pc = "ready"),
         \/ want.conds.ready = ReadyCond(job.mem)
         \/ \E reason, about : want.conds.ready = NotReadyCond(job.mem, reason, about)
  PROVE  GuardrailInv'
<1>0. /\ UidsOld /\ CopiesOlder /\ ReadyNotAhead /\ ReadySeen
      /\ PolicyBeforeReady /\ GuardrailInForce
  BY DEF GuardrailInv
<1>1. PICK n : n = job.key
  OBVIOUS
<1>. DEFINE old == tgs[n]
            new == tgs'[n]
            mem == job.mem
<1>2. /\ n \in Gateways /\ new # None /\ old # None /\ mem # None
      /\ new.uid = old.uid /\ new.gen = old.gen /\ new.spec = old.spec
      /\ \A k \in Gateways \ {n} : tgs'[k] = tgs[k]
      /\ wTgs' = Event(wTgs, n, old, new)
      /\ new.status.conds = old.status.conds \/ new.status.conds = want.conds
  BY <1>1, StatusPatched, Numbers
<1>3. /\ old.uid \in Nat /\ old.gen \in Nat /\ mem.uid \in Nat /\ mem.gen \in Nat
      /\ cTgs[n] # None => cTgs[n].uid \in Nat /\ cTgs[n].gen \in Nat
  BY <1>1, <1>2, Numbers
<1>4. wTgs \subseteq wTgs' /\ (new # old => n \in wTgs')
  BY <1>2 DEF Event
<1>5. /\ Older(mem, old) /\ Older(cTgs[n], old)
      /\ mem.uid = old.uid => /\ cTgs[n] # None /\ cTgs[n].uid = mem.uid
                              /\ mem.gen <= cTgs[n].gen
  BY <1>0, <1>1, <1>2 DEF CopiesOlder
<1>6. SaysReady(new) <=> new.status.conds.ready = ReadyCond(old)
  BY <1>2, ReadyConds DEF SaysReady
<1>7. want.conds.ready.gen = mem.gen
      /\ (want.conds.ready = ReadyCond(old) => mem.gen = old.gen)
  BY ReadyConds
<1>8. SaysReady(old) => Current(mem, old) \/ (old.uid > 0 /\ n \in wTgs) \/ n \in queue
  BY <1>0, <1>1 DEF ReadySeen
<1>9. SaysReady(old) => Current(cTgs[n], old) \/ (old.uid > 0 /\ n \in wTgs)
  BY <1>0, <1>2 DEF ReadySeen
<1>10. SaysReady(old) <=> old.status.conds.ready = ReadyCond(old)
  BY <1>2 DEF SaysReady
<1>. HIDE DEF old, new, mem
<1>11. SaysReady(new) => \/ SaysReady(old)
                         \/ Current(mem, old)
                         \/ old.uid > 0 /\ n \in wTgs'
  <2>1. SUFFICES ASSUME SaysReady(new), ~SaysReady(old), ~Current(mem, old)
                 PROVE  old.uid > 0 /\ n \in wTgs'
    OBVIOUS
  <2>2. new # old
    BY <2>1
  <2>3. mem.gen = old.gen
    BY <1>2, <1>6, <1>7, <1>10, <2>1
  <2>4. mem.uid < old.uid
    BY <1>2, <1>5, <2>1, <2>3 DEF Older, Current
  <2>. QED
    BY <1>3, <1>4, <2>2, <2>4
<1>12. SaysReady(new) => Current(mem, old) \/ (old.uid > 0 /\ n \in wTgs') \/ n \in queue
  BY <1>4, <1>8, <1>11
<1>13. SaysReady(new) => Current(cTgs[n], old) \/ (old.uid > 0 /\ n \in wTgs')
  <2>1. Current(mem, old) => Current(cTgs[n], old)
    BY <1>2, <1>3, <1>5 DEF Older, Current
  <2>. QED
    BY <1>4, <1>9, <1>11, <2>1
<1>14. UidsOld'
  BY <1>0, <1>2 DEF UidsOld, old, new
<1>15. CopiesOlder'
  <2>1. Older(cTgs[n], new)
    BY <1>2, <1>5 DEF Older
  <2>. QED
    BY <1>0, <1>2, <2>1 DEF CopiesOlder, new
<1>16. ReadyNotAhead'
  <2>1. ASSUME new.uid = 0, new.status.conds.ready # None
        PROVE  new.status.conds.ready.gen <= new.gen
    <3>1. CASE new.status.conds = old.status.conds
      BY <1>0, <1>2, <2>1, <3>1 DEF ReadyNotAhead, old
    <3>2. CASE new.status.conds = want.conds
      BY <1>2, <1>3, <1>5, <1>7, <2>1, <3>2 DEF Older
    <3>. QED
      BY <1>2, <3>1, <3>2
  <2>. QED
    BY <1>0, <1>2, <2>1 DEF ReadyNotAhead, new
<1>17. ReadySeen'
  <2>1. SaysReady(new) => Current(cTgs[n], new) \/ (new.uid > 0 /\ n \in wTgs')
    BY <1>2, <1>13 DEF Current
  <2>. QED
    BY <1>0, <1>2, <1>4, <2>1 DEF ReadySeen, new
<1>18. PolicyBeforeReady'
  BY DEF PolicyBeforeReady, Idle, Job
<1>19. GuardrailInForce'
  <2>1. ASSUME SaysReady(new), n \notin queue', n \notin wOthers, ~(new.uid > 0 /\ n \in wTgs')
        PROVE  Len(new.spec.guardrails) <= 1 /\ policies[n] = WantedPolicy(n, new)
    <3>1. Current(mem, old) /\ job.pc = "ready" /\ n \notin queue
      BY <1>1, <1>2, <1>12, <2>1
    <3>2. mem.spec = old.spec /\ mem.uid = old.uid
      BY <1>2, <1>3, <1>5, <3>1 DEF Older, Current
    <3>3. Len(mem.spec.guardrails) <= 1 /\ policies[n] = WantedPolicy(n, mem)
      BY <1>0, <1>1, <2>1, <3>1 DEF PolicyBeforeReady, mem
    <3>4. WantedPolicy(n, mem) = WantedPolicy(n, new)
      BY <1>2, <3>2, SameWanted
    <3>. QED
      BY <1>2, <3>2, <3>3, <3>4
  <2>2. \A k \in Gateways \ {n} : Claimed(k)' = Claimed(k)
    BY <1>2 DEF Claimed
  <2>. QED
    BY <1>0, <1>1, <1>2, <1>4, <2>1, <2>2 DEF GuardrailInForce, new
<1>. QED
  BY <1>14, <1>15, <1>16, <1>17, <1>18, <1>19 DEF GuardrailInv

\* A job that goes on has the same copy of the ToolGateway.
LEMMA JobGoesOn ==
  ASSUME job # Idle, TypeOK, TypeOK', NEW pc \in {"gateway", "guardrails", "ready", "notready"},
         NEW mem, mem = job.mem \/ \E v \in Nat \cup {None} : mem = WithUnsupported(job.mem, v),
         NEW reason, NEW about, job' = Job(pc, job.key, mem, reason, about)
  PROVE  SameJob /\ job'.pc = pc
<1>1. job'.key = job.key /\ job'.mem = mem /\ job'.pc = pc /\ job' # Idle
  BY DEF Job, Idle
<1>2. mem.uid = job.mem.uid /\ mem.gen = job.mem.gen /\ mem.spec = job.mem.spec
  <2>1. job.mem \in TgObjects
    BY Numbers
  <2>2. ASSUME NEW v \in Nat \cup {None}, mem = WithUnsupported(job.mem, v)
        PROVE  mem.uid = job.mem.uid /\ mem.gen = job.mem.gen /\ mem.spec = job.mem.spec
    BY <2>1, <2>2, UnsupportedEdited
  <2>. QED
    BY <2>2
<1>3. mem # None
  BY <1>1, NoObjectAssumption DEF TypeOK, JobTypeOK
<1>. QED
  BY <1>1, <1>2, <1>3 DEF SameJob

\* The calls that write children; after the last of them the policy is the wanted one.
LEMMA EnsureStep ==
  ASSUME TypeOK, TypeOK', GuardrailInv, Proceed, ~updateStatusReady, ~updateStatusNotReady
  PROVE  GuardrailInv'
<1>0. job # Idle /\ job.key \in Gateways /\ job.mem \in TgObjects
  <2>1. job.pc \in {"params", "gateway", "guardrails"}
    BY DEF Proceed, ensureAgentgatewayParameters, ensureGateway, ensureNoGuardrails,
           MultipleGuards, GuardNotUsable, ensureGuardrailPolicy
  <2>2. job # Idle
    BY <2>1 DEF Idle, Job
  <2>. QED
    BY <2>2, Numbers
<1>1. edits' = edits /\ UNCHANGED <<tgs, classes, cTgs, cClasses, wTgs, queue>>
  BY DEF Proceed, ensureAgentgatewayParameters, ensureGateway, ensureNoGuardrails,
         MultipleGuards, GuardNotUsable, ensureGuardrailPolicy, cluster, caches, watches
<1>2. edits' \in Nat /\ edits <= edits'
  BY <1>1, Numbers
<1>3. ASSUME UNCHANGED policies, wOthers \subseteq wOthers', SameJob, job'.pc # "ready"
      PROVE  GuardrailInv'
  BY <1>1, <1>2, <1>3, QuietStep
<1>4. ASSUME NEW reason, NEW about, FailWith(reason, about) PROVE SameJob /\ job'.pc = "notready"
  BY <1>0, <1>4, JobGoesOn DEF FailWith
<1>5. ASSUME NEW pc \in {"gateway", "guardrails"}, NEW reason, Answered(pc, job.mem, reason)
      PROVE  SameJob /\ job'.pc # "ready"
  <2>1. CASE job' = Job(pc, job.key, job.mem, None, None)
    BY <1>0, <2>1, JobGoesOn
  <2>. QED
    BY <1>4, <1>5, <2>1 DEF Answered
<1>6. ASSUME NEW reason, Answered("ready", WithUnsupported(job.mem, None), reason)
      PROVE  SameJob
  <2>1. CASE job' = Job("ready", job.key, WithUnsupported(job.mem, None), None, None)
    BY <1>0, <2>1, JobGoesOn
  <2>. QED
    BY <1>4, <1>6, <2>1 DEF Answered
<1>7. CASE ensureAgentgatewayParameters
  <2>1. UNCHANGED policies /\ SameJob /\ job'.pc # "ready"
    BY <1>4, <1>5, <1>7, Zenon DEF ensureAgentgatewayParameters
  <2>2. wOthers \subseteq wOthers'
    <3>1. UNCHANGED wOthers \/ \E obj : wOthers' = Event(wOthers, job.key, params[job.key], obj)
      BY <1>7, Zenon DEF ensureAgentgatewayParameters, ParamsChanged
    <3>. QED
      BY <3>1 DEF Event
  <2>. QED
    BY <1>3, <2>1, <2>2
<1>8. CASE ensureGateway
  <2>1. SameJob /\ job'.pc # "ready"
    BY <1>4, <1>5, <1>8, Zenon DEF ensureGateway
  <2>. QED
    BY <1>3, <1>8, <2>1 DEF ensureGateway
<1>9. CASE ensureNoGuardrails
  <2>1. SameJob /\ PolicyChanged(job.key, None)
    BY <1>6, <1>9 DEF ensureNoGuardrails
  <2>2. WantedPolicy(job.key, job.mem) = None /\ job.mem.spec.guardrails = <<>>
    BY <1>9 DEF ensureNoGuardrails, WantedPolicy
  <2>3. Len(job.mem.spec.guardrails) <= 1
    BY <2>2
  <2>. QED
    BY <1>0, <1>1, <1>2, <2>1, <2>2, <2>3, PolicyStep
<1>10. CASE MultipleGuards
  <2>1. SameJob /\ job'.pc # "ready"
    BY <1>0, <1>10, JobGoesOn, Numbers DEF MultipleGuards
  <2>. QED
    BY <1>3, <1>10, <2>1 DEF MultipleGuards, cluster, watches
<1>11. CASE GuardNotUsable
  <2>1. SameJob /\ job'.pc # "ready"
    BY <1>4, <1>11, Zenon DEF GuardNotUsable
  <2>. QED
    BY <1>3, <1>11, <2>1 DEF GuardNotUsable, cluster, watches
<1>12. CASE ensureGuardrailPolicy
  <2>. DEFINE want == PolicyFor(job.key, job.mem, jobGuard)
              new == CreateOrPatch(policies[job.key], policies[job.key], want)
  <2>1. CASE new = Failed
    <3>1. UNCHANGED <<policies, wOthers>> /\ FailWith(reasonGuardrailsFailed, None)
      BY <1>12, <2>1 DEF ensureGuardrailPolicy
    <3>2. SameJob /\ job'.pc # "ready"
      BY <1>4, <3>1
    <3>. QED
      BY <1>3, <3>1, <3>2
  <2>2. CASE new # Failed
    <3>1. PolicyChanged(job.key, new) /\ SameJob
      BY <1>6, <1>12, <2>2 DEF ensureGuardrailPolicy
    <3>2. want = [f \in DOMAIN want |-> want[f]]
      BY DEF PolicyFor, Child
    <3>3. Len(job.mem.spec.guardrails) = 1
      BY <1>12 DEF ensureGuardrailPolicy
    <3>4. job.mem.spec.guardrails # <<>>
      BY <3>3
    <3>5. want = WantedPolicy(job.key, job.mem)
      BY <3>4 DEF WantedPolicy, jobGuard
    <3>. HIDE DEF want
    <3>6. new = want
      BY <2>2, <3>2, PatchLive
    <3>. HIDE DEF new
    <3>7. /\ Len(job.mem.spec.guardrails) <= 1 /\ new = WantedPolicy(job.key, job.mem)
      BY <3>3, <3>5, <3>6
    <3>. QED
      BY <1>0, <1>1, <1>2, <3>1, <3>7, PolicyStep
  <2>. QED
    BY <2>1, <2>2
<1>. QED
  BY <1>7, <1>8, <1>9, <1>10, <1>11, <1>12 DEF Proceed

\* The status writes: only the Ready one is a promise, and the policy came before it.
LEMMA ReturnStep ==
  ASSUME TypeOK, TypeOK', GuardrailInv, updateStatusReady \/ updateStatusNotReady
  PROVE  GuardrailInv'
<1>0. job.pc = "ready" \/ job.pc = "notready"
  BY Zenon DEF updateStatusReady, updateStatusNotReady
<1>1. job # Idle
  BY <1>0 DEF Idle, Job
<1>2. UNCHANGED <<classes, policies, cTgs, cClasses, wOthers, edits>>
  BY DEF updateStatusReady, updateStatusNotReady, caches
<1>3. job' = Idle
  BY Zenon DEF updateStatusReady, updateStatusNotReady, Return
<1>4. CASE updateStatusReady
  <2>1. CASE tgs[job.key] = None
    BY <1>1, <1>2, <1>4, <2>1, RetryStep DEF updateStatusReady, Return
  <2>2. CASE tgs[job.key] # None
    <3>1. PatchStatus(ReadyStatus(job.mem)) /\ job.pc = "ready"
      BY <1>4, <2>2 DEF updateStatusReady
    <3>2. Return(FALSE) \/ Return(TRUE)
      BY <1>4, Zenon DEF updateStatusReady
    <3>3. queue' = queue \cup {job.key} \/ queue' = queue
      BY <3>2 DEF Return
    <3>4. ReadyStatus(job.mem) \in Statuses /\ ReadyStatus(job.mem).conds.ready = ReadyCond(job.mem)
      BY <1>1, Numbers, WantedStatus DEF ReadyStatus
    <3>. QED
      BY <1>1, <1>2, <1>3, <2>2, <3>1, <3>3, <3>4, StatusStep
  <2>. QED
    BY <2>1, <2>2
<1>5. CASE updateStatusNotReady
  <2>. DEFINE want == NotReadyStatus(job.mem, job.reason, job.about)
  <2>0. queue' = queue \cup {job.key}
    BY <1>5 DEF updateStatusNotReady, Return
  <2>1. CASE tgs[job.key] = None
    BY <1>1, <1>2, <1>3, <1>5, <2>0, <2>1, RetryStep DEF updateStatusNotReady
  <2>2. CASE tgs[job.key] # None
    <3>1. PatchStatus(want)
      BY <1>5, <2>2 DEF updateStatusNotReady
    <3>2. job.reason \in Reasons /\ job.about \in Abouts /\ job.mem \in TgObjects
      BY <1>1, <1>5 DEF updateStatusNotReady, TypeOK, JobTypeOK
    <3>3. want \in Statuses /\ want.conds.ready = NotReadyCond(job.mem, job.reason, job.about)
      BY <3>2, WantedStatus DEF NotReadyStatus
    <3>. HIDE DEF want
    <3>. QED
      BY <1>1, <1>2, <1>3, <2>0, <2>2, <3>1, <3>3, StatusStep
  <2>. QED
    BY <2>1, <2>2
<1>. QED
  BY <1>4, <1>5

\* A call that fails without effect.
LEMMA FailureStep ==
  ASSUME TypeOK, TypeOK', GuardrailInv, CallFails
  PROVE  GuardrailInv'
<1>1. /\ UNCHANGED <<tgs, classes, policies, cTgs, cClasses, wTgs, wOthers, edits>>
      /\ edits' \in Nat /\ edits <= edits'
  BY Numbers DEF CallFails, cluster, caches, watches
<1>2. job.pc \in {"params", "gateway", "guardrails", "ready", "notready"}
  BY DEF CallFails
<1>3. job # Idle
  BY <1>2 DEF Idle, Job
<1>4. \/ UNCHANGED queue /\ \E reason : FailWith(reason, None)
      \/ Return(TRUE)
  BY Zenon DEF CallFails
<1>5. ASSUME NEW reason, FailWith(reason, None), UNCHANGED queue PROVE GuardrailInv'
  <2>1. SameJob /\ job'.pc = "notready"
    BY <1>3, <1>5, JobGoesOn DEF FailWith
  <2>. QED
    BY <1>1, <1>5, <2>1, QuietStep
<1>6. CASE Return(TRUE)
  BY <1>1, <1>3, <1>6, RetryStep DEF Return
<1>. QED
  BY <1>4, <1>5, <1>6

\* A restart fills the caches and enqueues every ToolGateway.
LEMMA RestartStep ==
  ASSUME TypeOK, GuardrailInv, Restart
  PROVE  GuardrailInv'
<1>1. /\ job' = Idle /\ cTgs' = tgs /\ cClasses' = classes
      /\ UNCHANGED <<tgs, classes, policies, edits>>
      /\ \A k \in Gateways : tgs[k] # None => k \in queue'
  BY DEF Restart, cluster
<1>2. UidsOld' /\ CopiesOlder' /\ ReadyNotAhead'
  BY <1>1 DEF GuardrailInv, UidsOld, CopiesOlder, Older, ReadyNotAhead
<1>3. ReadySeen' /\ PolicyBeforeReady'
  BY <1>1 DEF ReadySeen, SaysReady, Current, PolicyBeforeReady, Idle, Job
<1>4. GuardrailInForce'
  BY <1>1 DEF GuardrailInForce, SaysReady
<1>. QED
  BY <1>2, <1>3, <1>4 DEF GuardrailInv

-----------------------------------------------------------------------------
(* All steps together.                                                     *)

\* All changes by users.
LEMMA UsersStep ==
  ASSUME TypeOK, TypeOK', GuardrailInv, Users
  PROVE  GuardrailInv'
<1>1. ASSUME Edit PROVE edits' \in Nat /\ edits <= edits'
  BY <1>1, Numbers DEF Edit
<1>2. ASSUME NEW g \in Guards, SetGuard(g) PROVE GuardrailInv'
  BY <1>1, <1>2, QuietStep DEF SetGuard, caches, SameJob
<1>3. ASSUME NEW p \in Providers, ChangeProvider(p) PROVE GuardrailInv'
  BY <1>1, <1>3, QuietStep DEF ChangeProvider, cluster, caches, SameJob
<1>4. ASSUME NEW k \in Gateways, Tamper(k) PROVE GuardrailInv'
  <2>1. /\ UNCHANGED <<tgs, classes, cTgs, cClasses, wTgs, queue>> /\ SameJob /\ UNCHANGED job
        /\ edits' \in Nat /\ edits <= edits'
    BY <1>1, <1>4 DEF Tamper, caches, SameJob
  <2>2. \/ UNCHANGED <<policies, wOthers>>
        \/ UNCHANGED policies /\ \E obj : ParamsChanged(k, obj)
        \/ \E obj : PolicyChanged(k, obj)
    BY <1>4, Zenon DEF Tamper
  <2>3. ASSUME NEW obj, ParamsChanged(k, obj) PROVE wOthers \subseteq wOthers'
    BY <2>3 DEF ParamsChanged, Event
  <2>. QED
    BY <2>1, <2>2, <2>3, QuietStep, PolicyStep
<1>. QED
  BY <1>2, <1>3, <1>4, CreateStep, EditStep, DeleteStep DEF Users

\* The garbage collector deletes children, which are events.
LEMMA CollectStep ==
  ASSUME TypeOK, GuardrailInv, NEW k \in Gateways, Collect(k)
  PROVE  GuardrailInv'
<1>1. /\ UNCHANGED <<tgs, classes, cTgs, cClasses, wTgs, queue>> /\ SameJob /\ UNCHANGED job
      /\ edits' \in Nat /\ edits <= edits'
  BY Numbers DEF Collect, caches, SameJob
<1>2. \/ UNCHANGED <<policies, wOthers>>
      \/ UNCHANGED policies /\ ParamsChanged(k, None)
      \/ PolicyChanged(k, None)
  BY DEF Collect
<1>3. ASSUME ParamsChanged(k, None) PROVE wOthers \subseteq wOthers'
  BY <1>3 DEF ParamsChanged, Event
<1>. QED
  BY <1>1, <1>2, <1>3, QuietStep, PolicyStep

\* All informers and handlers.
LEMMA InformersStep ==
  ASSUME TypeOK, GuardrailInv, Informers
  PROVE  GuardrailInv'
<1>1. ASSUME NEW k \in Gateways, SyncGw(k) \/ HandleChild(k) PROVE GuardrailInv'
  BY <1>1, QuietStep, Numbers DEF SyncGw, HandleChild, cluster, caches, watches, SameJob
<1>2. ASSUME NEW g \in Guards, SyncGuard(g) \/ HandleGuard(g) PROVE GuardrailInv'
  BY <1>2, QuietStep, Numbers DEF SyncGuard, HandleGuard, cluster, caches, watches, SameJob
<1>3. ASSUME NEW p \in Providers, HandleProvider(p) PROVE GuardrailInv'
  BY <1>3, QuietStep, Numbers DEF HandleProvider, cluster, caches, SameJob
<1>. QED
  BY <1>1, <1>2, <1>3, SyncStep, HandleStep DEF Informers

\* Every step keeps the invariant.
LEMMA GuardrailStep == TypeOK /\ TypeOK' /\ GuardrailInv /\ [Next]_vars => GuardrailInv'
<1>. SUFFICES ASSUME TypeOK, TypeOK', GuardrailInv, Next \/ UNCHANGED vars PROVE GuardrailInv'
  OBVIOUS
<1>1. CASE UNCHANGED vars
  BY <1>1, QuietStep, Numbers DEF vars, cluster, caches, watches, SameJob
<1>2. CASE Proceed
  BY <1>2, EnsureStep, ReturnStep
<1>. QED
  BY <1>1, <1>2, UsersStep, InformersStep, CollectStep, BeginStep, FailureStep, RestartStep
     DEF Next

\* At first every copy is the original, and nothing is Ready.
LEMMA GuardrailInit == Init => GuardrailInv
<1>. SUFFICES ASSUME Init PROVE GuardrailInv
  OBVIOUS
<1>0. job = Idle /\ cTgs = tgs /\ cClasses = classes /\ edits = 0
  BY DEF Init
<1>1. \A k \in Gateways : tgs[k] # None =>
        tgs[k].uid = 0 /\ k \in queue /\ tgs[k].status.conds.ready = None
  BY DEF Init, NewGateway, NoStatus
<1>2. UidsOld /\ CopiesOlder /\ ReadyNotAhead
  BY <1>0, <1>1 DEF UidsOld, CopiesOlder, Older, ReadyNotAhead
<1>3. ReadySeen /\ PolicyBeforeReady
  BY <1>0 DEF ReadySeen, SaysReady, Current, PolicyBeforeReady, Idle, Job
<1>4. GuardrailInForce
  BY <1>1 DEF GuardrailInForce, SaysReady
<1>. QED
  BY <1>2, <1>3, <1>4 DEF GuardrailInv

\* The invariant of the argument: copies are never ahead of the cluster, uids
\* are never used twice, and the policy is written before Ready is.
THEOREM GuardrailInvariant == Spec => []GuardrailInv
BY GuardrailInit, GuardrailStep, TypeCorrect, PTL DEF Spec

\* A ToolGateway that reports Ready for its present generation has the policy
\* of its Guard in force, or an event that will restore it is under way: in
\* every interleaving of users, informers, worker, failed calls and restarts.
THEOREM GuardrailAlwaysInForce == Spec => []GuardrailInForce
<1>1. GuardrailInv => GuardrailInForce
  BY DEF GuardrailInv
<1>. QED
  BY <1>1, GuardrailInvariant, PTL

-----------------------------------------------------------------------------
(***************************************************************************)
(* Ready does not outlive the Guard behind it: the proof that              *)
(* ReadyGuardInv is inductive, given GuardrailInv.                         *)
(***************************************************************************)

\* The one Guard of a spec is one that the spec refers to.
LEMMA OneGuardRef ==
  ASSUME NEW obj \in TgObjects, NEW k, Len(obj.spec.guardrails) = 1
  PROVE  RefKey(obj.spec.guardrails[1], k.ns) \in GuardRefs(obj, k)
<1>1. obj.spec \in GatewaySpecs
  BY DEF TgObjects
<1>2. 1 \in DOMAIN obj.spec.guardrails
  BY <1>1, GuardrailsAssumption
<1>. QED
  BY <1>2 DEF GuardRefs

\* A Guard without an event is as Ready as it was.
LEMMA ReadinessSeen ==
  ASSUME NEW a \in [Guards -> GuardObjects \cup {None}], NEW b \in [Guards -> GuardObjects \cup {None}],
         NEW g, g \in Guards => a[g] = b[g]
  PROVE  GuardReady(a, g) <=> GuardReady(b, g)
BY DEF GuardReady, Get

\* Every change of a ToolGateway or a Guard is an event, and no event is lost.
EventsKept ==
  /\ UNCHANGED classes
  /\ \A k \in Gateways : tgs'[k] = tgs[k] \/ k \in wTgs'
  /\ \A g \in Guards : guards'[g] = guards[g] \/ g \in wGuards'
  /\ wTgs \cup queue \subseteq wTgs' \cup queue' /\ wGuards \subseteq wGuards'

\* A Guard that is Ready or due is so afterwards.
LEMMA GuardDueKept ==
  ASSUME TypeOK, TypeOK', EventsKept, NEW k, NEW obj, GuardReadyOrDue(k, obj)
  PROVE  GuardReadyOrDue(k, obj)'
<1>. DEFINE g == RefKey(obj.spec.guardrails[1], k.ns)
<1>1. CASE g \in wGuards \/ k \in wTgs \cup queue
  BY <1>1 DEF EventsKept, GuardReadyOrDue
<1>2. CASE GuardReady(guards, g) /\ g \notin wGuards'
  <2>. HIDE DEF g
  <2>1. g \in Guards => guards'[g] = guards[g]
    BY <1>2 DEF EventsKept
  <2>2. GuardReady(guards', g)
    BY <1>2, <2>1, ReadinessSeen DEF TypeOK, ClusterTypeOK
  <2>. QED
    BY <2>2 DEF GuardReadyOrDue, g
<1>3. CASE g \in wGuards'
  BY <1>3 DEF GuardReadyOrDue
<1>. QED
  BY <1>1, <1>2, <1>3 DEF GuardReadyOrDue

\* So is the Guard of a ToolGateway that is not in the worker's hands, and the
\* worker keeps its ToolGateway or leaves it right.
LEMMA ReadyGuardKept ==
  ASSUME TypeOK, TypeOK', EventsKept, ReadyGuardOrDue, NEW n, n = job.key,
         job'.key = n \/ (n \in Gateways => ReadyGuard(n)')
  PROVE  ReadyGuardOrDue'
<1>. SUFFICES ASSUME NEW k \in Gateways, ~ReadyGuard(k)', job'.key # k PROVE FALSE
  BY DEF ReadyGuardOrDue
<1>1. PICK obj : obj = tgs'[k]
  OBVIOUS
<1>2. Claimed(k)' /\ SaysReady(obj) /\ Len(obj.spec.guardrails) = 1 /\ ~GuardReadyOrDue(k, obj)'
  BY <1>1 DEF ReadyGuard
<1>3. k \notin wTgs' \cup queue'
  BY <1>2 DEF GuardReadyOrDue
<1>4. tgs[k] = obj
  BY <1>1, <1>3 DEF EventsKept
<1>5. Claimed(k) /\ ~GuardReadyOrDue(k, obj)
  BY <1>1, <1>2, <1>4, GuardDueKept DEF Claimed, EventsKept
<1>6. ~ReadyGuard(k)
  BY <1>2, <1>4, <1>5 DEF ReadyGuard
<1>. QED
  BY <1>6 DEF ReadyGuardOrDue

\* The worker's own ToolGateway stays right while the worker stands still.
LEMMA JobGuardKept ==
  ASSUME TypeOK, TypeOK', EventsKept, JobGuardOrDue, UNCHANGED job
  PROVE  JobGuardOrDue'
<1>1. PICK n, mem : n = job.key /\ mem = job.mem
  OBVIOUS
<1>. SUFFICES ASSUME job.pc = "ready", Len(mem.spec.guardrails) = 1, tgs'[n] # None,
                     Current(mem, tgs'[n]), n \notin wTgs'
              PROVE  GuardReadyOrDue(n, mem)'
  BY <1>1 DEF JobGuardOrDue, GuardReadyOrDue
<1>2. n \in Gateways
  BY <1>1 DEF TypeOK, JobTypeOK, Idle, Job
<1>3. tgs'[n] = tgs[n]
  BY <1>2 DEF EventsKept
<1>4. GuardReadyOrDue(n, mem)
  BY <1>1, <1>3 DEF JobGuardOrDue
<1>. QED
  BY <1>4, GuardDueKept

\* A step in which the worker keeps its ToolGateway and does not get to "ready".
LEMMA ReadyGuardQuiet ==
  ASSUME TypeOK, TypeOK', EventsKept, ReadyGuardInv, GuardsSeen',
         UNCHANGED job \/ (job'.key = job.key /\ job'.pc # "ready")
  PROVE  ReadyGuardInv'
<1>1. PICK n : n = job.key
  OBVIOUS
<1>2. ReadyGuardOrDue'
  BY <1>1, ReadyGuardKept DEF ReadyGuardInv
<1>3. JobGuardOrDue'
  <2>1. CASE UNCHANGED job
    BY <2>1, JobGuardKept DEF ReadyGuardInv
  <2>2. CASE job'.pc # "ready"
    BY <2>2 DEF JobGuardOrDue
  <2>. QED
    BY <2>1, <2>2
<1>. QED
  BY <1>2, <1>3 DEF ReadyGuardInv

\* What users and the garbage collector change is an event.
LEMMA BackgroundEvents ==
  ASSUME TypeOK, GuardsSeen, Users \/ \E k \in Gateways : Collect(k)
  PROVE  EventsKept /\ GuardsSeen' /\ UNCHANGED job
<1>1. ASSUME NEW k \in Gateways, NEW obj, TgChanged(k, obj),
             UNCHANGED <<classes, guards, cGuards, wGuards, queue>>
      PROVE  EventsKept /\ GuardsSeen'
  BY <1>1 DEF TgChanged, Event, EventsKept, GuardsSeen, TypeOK, ClusterTypeOK
<1>2. ASSUME NEW k \in Gateways, CreateGateway(k) \/ EditGateway(k) \/ DeleteGateway(k)
      PROVE  EventsKept /\ GuardsSeen' /\ UNCHANGED job
  <2>1. UNCHANGED <<classes, guards, cGuards, wGuards, queue, job>>
    BY <1>2 DEF CreateGateway, EditGateway, DeleteGateway, caches
  <2>2. \E obj : TgChanged(k, obj)
    BY <1>2 DEF CreateGateway, EditGateway, DeleteGateway
  <2>. QED
    BY <1>1, <2>1, <2>2
<1>3. ASSUME NEW k \in Gateways, Tamper(k) \/ Collect(k)
      PROVE  EventsKept /\ GuardsSeen' /\ UNCHANGED job
  <2>1. UNCHANGED <<tgs, classes, guards, cGuards, wTgs, wGuards, queue, job>>
    BY <1>3 DEF Tamper, Collect, caches
  <2>. QED
    BY <2>1 DEF EventsKept, GuardsSeen
<1>4. ASSUME NEW g \in Guards, SetGuard(g)
      PROVE  EventsKept /\ GuardsSeen' /\ UNCHANGED job
  BY <1>4 DEF SetGuard, caches, EventsKept, GuardsSeen, TypeOK, ClusterTypeOK
<1>5. ASSUME NEW p \in Providers, ChangeProvider(p)
      PROVE  EventsKept /\ GuardsSeen' /\ UNCHANGED job
  BY <1>5 DEF ChangeProvider, cluster, caches, EventsKept, GuardsSeen
<1>. QED
  BY <1>2, <1>3, <1>4, <1>5 DEF Users

\* The handler of a Guard's event finds every ToolGateway that relies on it.
LEMMA HandleGuardStep ==
  ASSUME TypeOK, TypeOK', GuardrailInv, ReadyGuardInv, NEW g \in Guards, HandleGuard(g)
  PROVE  ReadyGuardInv'
<1>1. /\ cGuards[g] = guards[g] /\ wGuards' = wGuards \ {g}
      /\ queue' = queue \cup findToolGatewayForGuard(cTgs, g)
      /\ UNCHANGED <<tgs, guards, classes, cTgs, cGuards, wTgs, job>>
  BY DEF HandleGuard, cluster, caches
<1>2. GuardsSeen'
  BY <1>1 DEF ReadyGuardInv, GuardsSeen
<1>3. ASSUME NEW k \in Gateways, NEW obj \in TgObjects, Len(obj.spec.guardrails) = 1,
             GuardReadyOrDue(k, obj), tgs[k] # None, tgs[k].spec = obj.spec,
             Current(cTgs[k], tgs[k])
      PROVE  GuardReadyOrDue(k, obj)'
  <2>. DEFINE guard == RefKey(obj.spec.guardrails[1], k.ns)
  <2>1. CASE guard = g
    <3>1. cTgs[k] # None /\ cTgs[k].spec = obj.spec
      BY <1>3, Numbers DEF GuardrailInv, CopiesOlder, Older, Current
    <3>2. guard \in GuardRefs(obj, k)
      BY <1>3, OneGuardRef
    <3>3. GuardRefs(cTgs[k], k) = GuardRefs(obj, k)
      BY <3>1 DEF GuardRefs
    <3>4. k \in queue'
      BY <1>1, <2>1, <3>1, <3>2, <3>3 DEF findToolGatewayForGuard
    <3>. QED
      BY <3>4 DEF GuardReadyOrDue
  <2>2. CASE guard # g
    BY <1>1, <1>3, <2>2 DEF GuardReadyOrDue
  <2>. QED
    BY <2>1, <2>2
<1>4. ReadyGuardOrDue'
  <2>. SUFFICES ASSUME NEW k \in Gateways, job.key # k PROVE ReadyGuard(k)'
    BY <1>1 DEF ReadyGuardOrDue
  <2>1. PICK obj : obj = tgs[k]
    OBVIOUS
  <2>. SUFFICES ASSUME Claimed(k)', SaysReady(obj), Len(obj.spec.guardrails) = 1,
                       k \notin wTgs
                PROVE  GuardReadyOrDue(k, obj)'
    BY <1>1, <2>1 DEF ReadyGuard, GuardReadyOrDue
  <2>2. Claimed(k)
    BY <1>1 DEF Claimed
  <2>3. GuardReadyOrDue(k, obj)
    BY <2>1, <2>2 DEF ReadyGuardInv, ReadyGuardOrDue, ReadyGuard
  <2>4. Current(cTgs[k], tgs[k])
    BY <2>1 DEF GuardrailInv, ReadySeen
  <2>5. obj \in TgObjects /\ tgs[k] # None
    BY <2>1, <2>2 DEF Claimed, TypeOK, ClusterTypeOK
  <2>. QED
    BY <1>3, <2>1, <2>3, <2>4, <2>5
<1>5. JobGuardOrDue'
  <2>1. PICK n, mem : n = job.key /\ mem = job.mem
    OBVIOUS
  <2>. SUFFICES ASSUME job.pc = "ready", Len(mem.spec.guardrails) = 1, tgs[n] # None,
                       Current(mem, tgs[n])
                PROVE  GuardReadyOrDue(n, mem)'
    BY <1>1, <2>1 DEF JobGuardOrDue
  <2>2. n \in Gateways /\ mem \in TgObjects /\ job # Idle
    BY <2>1 DEF TypeOK, JobTypeOK, Idle, Job
  <2>3. GuardReadyOrDue(n, mem)
    BY <2>1 DEF ReadyGuardInv, JobGuardOrDue
  <2>4. /\ Older(mem, tgs[n]) /\ Older(cTgs[n], tgs[n])
        /\ cTgs[n] # None /\ cTgs[n].uid = mem.uid /\ mem.gen <= cTgs[n].gen
    BY <2>1, <2>2 DEF GuardrailInv, CopiesOlder, Current
  <2>5. /\ mem # None /\ mem.uid \in Nat /\ mem.gen \in Nat
        /\ tgs[n].uid \in Nat /\ tgs[n].gen \in Nat /\ cTgs[n].gen \in Nat
    BY <2>1, <2>2, <2>4, Numbers
  <2>6. tgs[n].spec = mem.spec /\ Current(cTgs[n], tgs[n])
    BY <2>4, <2>5 DEF Older, Current
  <2>. QED
    BY <1>3, <2>2, <2>3, <2>6
<1>. QED
  BY <1>2, <1>4, <1>5 DEF ReadyGuardInv

\* The other informers and handlers.
LEMMA InformersReadyGuard ==
  ASSUME TypeOK, TypeOK', GuardrailInv, ReadyGuardInv, Informers
  PROVE  ReadyGuardInv'
<1>1. ASSUME NEW k \in Gateways,
             SyncGateway(k) \/ HandleGateway(k) \/ SyncGw(k) \/ HandleChild(k)
      PROVE  EventsKept /\ GuardsSeen' /\ UNCHANGED job
  BY <1>1 DEF SyncGateway, HandleGateway, SyncGw, HandleChild, cluster, caches, watches,
              EventsKept, ReadyGuardInv, GuardsSeen
<1>2. ASSUME NEW g \in Guards, SyncGuard(g)
      PROVE  EventsKept /\ GuardsSeen' /\ UNCHANGED job
  BY <1>2 DEF SyncGuard, cluster, watches, EventsKept, ReadyGuardInv, GuardsSeen,
              TypeOK, ClusterTypeOK
<1>3. ASSUME NEW p \in Providers, HandleProvider(p)
      PROVE  EventsKept /\ GuardsSeen' /\ UNCHANGED job
  BY <1>3 DEF HandleProvider, cluster, caches, EventsKept, ReadyGuardInv, GuardsSeen
<1>. QED
  BY <1>1, <1>2, <1>3, HandleGuardStep, ReadyGuardQuiet DEF Informers

\* Reconcile starts; a ToolGateway it does not find, or finds to be another
\* controller's, makes no promise or has an event to come.
LEMMA BeginReadyGuard ==
  ASSUME TypeOK, TypeOK', GuardrailInv, ReadyGuardInv, NEW k \in Gateways, Begin(k)
  PROVE  ReadyGuardInv'
<1>1. /\ job = Idle /\ queue' = queue \ {k}
      /\ UNCHANGED <<tgs, guards, classes, cTgs, cGuards, cClasses, wTgs, wGuards>>
  BY DEF Begin, BeginNotFound, BeginNotOwned, BeginOwned, Dequeue, cluster, caches, watches
<1>2. GuardsSeen'
  BY <1>1 DEF ReadyGuardInv, GuardsSeen
<1>3. job'.pc # "ready"
  BY <1>1 DEF Begin, BeginNotFound, BeginNotOwned, BeginOwned, Idle, Job
<1>4. ASSUME NEW j \in Gateways, j # k PROVE ReadyGuard(j)'
  <2>1. ReadyGuard(j)
    BY <1>1, IdleKey DEF ReadyGuardInv, ReadyGuardOrDue
  <2>. QED
    BY <1>1, <1>4, <2>1 DEF ReadyGuard, Claimed, GuardReadyOrDue
<1>5. job'.key = k \/ ReadyGuard(k)'
  <2>1. CASE BeginOwned(k)
    BY <2>1 DEF BeginOwned, Job
  <2>2. CASE BeginNotFound(k) \/ BeginNotOwned(k)
    <3>. SUFFICES ASSUME Claimed(k), SaysReady(tgs[k]), k \notin wTgs PROVE FALSE
      BY <1>1 DEF ReadyGuard, Claimed, GuardReadyOrDue
    <3>1. Current(cTgs[k], tgs[k])
      BY DEF GuardrailInv, ReadySeen
    <3>2. cTgs[k] # None /\ tgs[k] # None /\ cTgs[k].spec = tgs[k].spec
      BY <3>1, Numbers DEF GuardrailInv, CopiesOlder, Older, Current, Claimed
    <3>3. Owned(k)
      BY <3>2 DEF GuardrailInv, CopiesOlder, Owned, Claimed
    <3>. QED
      BY <2>2, <3>2, <3>3 DEF BeginNotFound, BeginNotOwned
  <2>. QED
    BY <2>1, <2>2 DEF Begin
<1>6. ReadyGuardOrDue'
  BY <1>4, <1>5 DEF ReadyGuardOrDue
<1>. QED
  BY <1>2, <1>3, <1>6 DEF ReadyGuardInv, JobGuardOrDue

\* The worker's calls: it gets to "ready" only past a Guard that is Ready in
\* the cache, so it is Ready, or its event is still to come.
LEMMA EnsureReadyGuard ==
  ASSUME TypeOK, TypeOK', GuardrailInv, ReadyGuardInv,
         Proceed, ~updateStatusReady, ~updateStatusNotReady
  PROVE  ReadyGuardInv'
<1>0. job # Idle /\ job.key \in Gateways /\ job.mem \in TgObjects
  <2>1. job.pc \in {"params", "gateway", "guardrails"}
    BY DEF Proceed, ensureAgentgatewayParameters, ensureGateway, ensureNoGuardrails,
           MultipleGuards, GuardNotUsable, ensureGuardrailPolicy
  <2>2. job # Idle
    BY <2>1 DEF Idle, Job
  <2>. QED
    BY <2>2, Numbers
<1>1. UNCHANGED <<tgs, guards, classes, cGuards, wTgs, wGuards, queue>>
  BY DEF Proceed, ensureAgentgatewayParameters, ensureGateway, ensureNoGuardrails,
         MultipleGuards, GuardNotUsable, ensureGuardrailPolicy, cluster, caches, watches
<1>2. EventsKept /\ GuardsSeen'
  BY <1>1 DEF EventsKept, ReadyGuardInv, GuardsSeen
<1>3. ASSUME SameJob, job'.pc # "ready" PROVE ReadyGuardInv'
  BY <1>2, <1>3, ReadyGuardQuiet DEF SameJob
<1>4. ASSUME NEW reason, NEW about, FailWith(reason, about) PROVE ReadyGuardInv'
  BY <1>0, <1>3, <1>4, JobGoesOn DEF FailWith
<1>5. ASSUME NEW pc \in {"gateway", "guardrails"}, NEW reason, Answered(pc, job.mem, reason)
      PROVE  ReadyGuardInv'
  <2>1. CASE job' = Job(pc, job.key, job.mem, None, None)
    BY <1>0, <1>3, <2>1, JobGoesOn
  <2>. QED
    BY <1>4, <1>5, <2>1 DEF Answered
<1>6. ASSUME NEW reason, Answered("ready", WithUnsupported(job.mem, None), reason),
             Len(job.mem.spec.guardrails) = 1 => GuardReady(cGuards, jobGuard)
      PROVE  ReadyGuardInv'
  <2>1. PICK n, mem, g : n = job.key /\ mem = job.mem /\ g = jobGuard
    OBVIOUS
  <2>2. CASE job' = Job("ready", n, WithUnsupported(mem, None), None, None)
    <3>1. /\ job'.key = n /\ job'.mem = WithUnsupported(mem, None)
          /\ WithUnsupported(mem, None).spec = mem.spec
      BY <1>0, <2>1, <2>2, UnsupportedEdited DEF Job
    <3>2. ReadyGuardOrDue'
      BY <1>2, <2>1, <3>1, ReadyGuardKept DEF ReadyGuardInv
    <3>3. ASSUME Len(mem.spec.guardrails) = 1 PROVE GuardReadyOrDue(n, mem)
      <4>1. GuardReady(cGuards, g)
        BY <1>6, <2>1, <3>3
      <4>2. CASE g \notin wGuards
        <5>1. g \in Guards => cGuards[g] = guards[g]
          BY <4>2 DEF ReadyGuardInv, GuardsSeen
        <5>2. GuardReady(guards, g)
          BY <4>1, <5>1, ReadinessSeen DEF TypeOK, ClusterTypeOK
        <5>. QED
          BY <2>1, <5>2 DEF GuardReadyOrDue, jobGuard
      <4>3. CASE g \in wGuards
        BY <2>1, <4>3 DEF GuardReadyOrDue, jobGuard
      <4>. QED
        BY <4>2, <4>3
    <3>4. JobGuardOrDue'
      BY <1>1, <3>1, <3>3 DEF JobGuardOrDue, GuardReadyOrDue
    <3>. QED
      BY <1>2, <3>2, <3>4 DEF ReadyGuardInv
  <2>. QED
    BY <1>4, <1>6, <2>1, <2>2 DEF Answered
<1>7. CASE ensureAgentgatewayParameters
  BY <1>4, <1>5, <1>7, Zenon DEF ensureAgentgatewayParameters
<1>8. CASE ensureGateway
  BY <1>4, <1>5, <1>8, Zenon DEF ensureGateway
<1>9. CASE ensureNoGuardrails
  <2>1. job.mem.spec.guardrails = <<>>
    BY <1>9 DEF ensureNoGuardrails
  <2>2. Len(job.mem.spec.guardrails) # 1
    BY <2>1
  <2>. QED
    BY <1>6, <1>9, <2>2 DEF ensureNoGuardrails
<1>10. CASE MultipleGuards
  BY <1>0, <1>3, <1>10, JobGoesOn, Numbers DEF MultipleGuards
<1>11. CASE GuardNotUsable
  BY <1>4, <1>11, Zenon DEF GuardNotUsable
<1>12. CASE ensureGuardrailPolicy
  BY <1>4, <1>6, <1>12 DEF ensureGuardrailPolicy
<1>. QED
  BY <1>7, <1>8, <1>9, <1>10, <1>11, <1>12 DEF Proceed

\* Reconcile returns, to be retried or not.  What it leaves Ready without an
\* event or a retry was Ready before, and is what the worker looked at.
LEMMA ReturnReadyGuard ==
  ASSUME TypeOK, TypeOK', GuardrailInv, ReadyGuardInv, NEW n, n = job.key, job # Idle,
         EventsKept, GuardsSeen', job' = Idle, n \in queue' \/ job.pc = "ready"
  PROVE  ReadyGuardInv'
<1>1. n \in Gateways
  BY Numbers
<1>2. ReadyGuard(n)'
  <2>1. PICK obj : obj = tgs'[n]
    OBVIOUS
  <2>. SUFFICES ASSUME Claimed(n)', SaysReady(obj), Len(obj.spec.guardrails) = 1,
                       n \notin wTgs' \cup queue'
                PROVE  GuardReadyOrDue(n, obj)'
    BY <2>1 DEF ReadyGuard, GuardReadyOrDue
  <2>2. tgs[n] = obj /\ n \notin wTgs \cup queue /\ job.pc = "ready"
    BY <1>1, <2>1 DEF EventsKept
  <2>3. PICK mem : mem = job.mem
    OBVIOUS
  <2>4. Current(mem, obj)
    BY <2>2, <2>3 DEF GuardrailInv, ReadySeen
  <2>5. obj # None
    BY DEF SaysReady
  <2>6. mem.spec = obj.spec
    BY <1>1, <2>2, <2>3, <2>4, <2>5, Numbers DEF GuardrailInv, CopiesOlder, Older, Current
  <2>7. GuardReadyOrDue(n, mem)
    BY <2>2, <2>3, <2>4, <2>5, <2>6 DEF ReadyGuardInv, JobGuardOrDue
  <2>8. GuardReadyOrDue(n, obj)
    BY <2>6, <2>7 DEF GuardReadyOrDue
  <2>. QED
    BY <2>8, GuardDueKept
<1>3. ReadyGuardOrDue'
  BY <1>2, ReadyGuardKept DEF ReadyGuardInv
<1>4. JobGuardOrDue'
  BY DEF JobGuardOrDue, Idle, Job
<1>. QED
  BY <1>3, <1>4 DEF ReadyGuardInv

\* The status writes.
LEMMA StatusReadyGuard ==
  ASSUME TypeOK, TypeOK', GuardrailInv, ReadyGuardInv, updateStatusReady \/ updateStatusNotReady
  PROVE  ReadyGuardInv'
<1>0. job.pc = "ready" \/ (job.pc = "notready" /\ job.key \in queue')
  BY DEF updateStatusReady, updateStatusNotReady, Return
<1>1. PICK n : n = job.key
  OBVIOUS
<1>2. job # Idle /\ n \in Gateways
  <2>1. job # Idle
    BY <1>0 DEF Idle, Job
  <2>. QED
    BY <1>1, <2>1, Numbers
<1>3. /\ UNCHANGED <<classes, guards, cGuards, wGuards>> /\ job' = Idle /\ queue \subseteq queue'
  BY DEF updateStatusReady, updateStatusNotReady, caches, Return
<1>4. GuardsSeen'
  BY <1>3 DEF ReadyGuardInv, GuardsSeen
<1>5. \/ UNCHANGED <<tgs, wTgs>>
      \/ tgs[n] # None /\ \E obj : TgChanged(n, obj)
  BY <1>1, Zenon DEF updateStatusReady, updateStatusNotReady, PatchStatus
<1>6. EventsKept
  <2>1. CASE UNCHANGED <<tgs, wTgs>>
    BY <1>3, <2>1 DEF EventsKept
  <2>2. ASSUME NEW obj, TgChanged(n, obj) PROVE EventsKept
    BY <1>2, <1>3, <2>2 DEF TgChanged, Event, EventsKept, TypeOK, ClusterTypeOK
  <2>. QED
    BY <1>5, <2>1, <2>2
<1>. QED
  BY <1>0, <1>1, <1>2, <1>3, <1>4, <1>6, ReturnReadyGuard

\* A call that fails without effect.
LEMMA FailureReadyGuard ==
  ASSUME TypeOK, TypeOK', GuardrailInv, ReadyGuardInv, CallFails
  PROVE  ReadyGuardInv'
<1>1. UNCHANGED <<tgs, classes, guards, cGuards, wTgs, wGuards>>
  BY DEF CallFails, cluster, caches, watches
<1>2. job.pc \in {"params", "gateway", "guardrails", "ready", "notready"}
  BY DEF CallFails
<1>3. job # Idle
  BY <1>2 DEF Idle, Job
<1>4. \/ UNCHANGED queue /\ \E reason : FailWith(reason, None)
      \/ Return(TRUE)
  BY Zenon DEF CallFails
<1>5. EventsKept /\ GuardsSeen'
  <2>1. queue \subseteq queue'
    BY <1>4 DEF Return
  <2>. QED
    BY <1>1, <2>1 DEF EventsKept, ReadyGuardInv, GuardsSeen
<1>6. ASSUME NEW reason, FailWith(reason, None) PROVE ReadyGuardInv'
  BY <1>3, <1>5, <1>6, JobGoesOn, ReadyGuardQuiet DEF FailWith, SameJob
<1>7. CASE Return(TRUE)
  <2>1. PICK n : n = job.key
    OBVIOUS
  <2>. QED
    BY <1>1, <1>3, <1>5, <1>7, <2>1, ReturnReadyGuard DEF Return
<1>. QED
  BY <1>4, <1>6, <1>7

\* A restart fills the caches and enqueues every ToolGateway.
LEMMA RestartReadyGuard ==
  ASSUME TypeOK, Restart
  PROVE  ReadyGuardInv'
<1>1. /\ job' = Idle /\ cGuards' = guards /\ UNCHANGED <<tgs, guards>>
      /\ \A k \in Gateways : tgs[k] # None => k \in queue'
  BY DEF Restart, cluster
<1>. QED
  BY <1>1 DEF ReadyGuardInv, GuardsSeen, JobGuardOrDue, ReadyGuardOrDue, ReadyGuard,
              GuardReadyOrDue, SaysReady, Idle, Job

\* Every step keeps the invariant.
LEMMA ReadyGuardStep ==
  TypeOK /\ TypeOK' /\ GuardrailInv /\ ReadyGuardInv /\ [Next]_vars => ReadyGuardInv'
<1>. SUFFICES ASSUME TypeOK, TypeOK', GuardrailInv, ReadyGuardInv, Next \/ UNCHANGED vars
              PROVE  ReadyGuardInv'
  OBVIOUS
<1>1. CASE UNCHANGED vars
  <2>1. EventsKept /\ GuardsSeen' /\ UNCHANGED job
    BY <1>1 DEF vars, cluster, caches, watches, EventsKept, ReadyGuardInv, GuardsSeen
  <2>. QED
    BY <2>1, ReadyGuardQuiet
<1>2. CASE Users \/ \E k \in Gateways : Collect(k)
  BY <1>2, BackgroundEvents, ReadyGuardQuiet DEF ReadyGuardInv
<1>3. CASE Proceed
  BY <1>3, EnsureReadyGuard, StatusReadyGuard
<1>. QED
  BY <1>1, <1>2, <1>3, InformersReadyGuard, BeginReadyGuard, FailureReadyGuard,
     RestartReadyGuard DEF Next

\* At first nothing is Ready.
LEMMA ReadyGuardInit == Init => ReadyGuardInv
<1>. SUFFICES ASSUME Init PROVE ReadyGuardInv
  OBVIOUS
<1>1. /\ job = Idle /\ cGuards = guards
      /\ \A k \in Gateways : tgs[k] # None => k \in queue
  BY DEF Init
<1>. QED
  BY <1>1 DEF ReadyGuardInv, GuardsSeen, JobGuardOrDue, ReadyGuardOrDue, ReadyGuard,
              GuardReadyOrDue, SaysReady, Idle, Job

\* A claimed ToolGateway with one Guard never reports Ready for its present
\* generation on the strength of a Guard that is Ready no longer, unless an event
\* or a Reconcile that will find it out is to come, however the Guard's changes,
\* the caches, the status patch and the handlers are interleaved.
THEOREM ReadyGuardInvariant == Spec => []ReadyGuardInv
BY ReadyGuardInit, ReadyGuardStep, TypeCorrect, GuardrailInvariant, PTL DEF Spec
=============================================================================
