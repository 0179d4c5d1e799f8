----------------------- MODULE GuardReconciler_proofs -----------------------
(***************************************************************************)
(* Theorems about the Guard controller, for every set of guards, providers,*)
(* specs and images and every bound.                                       *)
(***************************************************************************)
EXTENDS GuardReconciler, KubeClient_proofs, TLAPS

-----------------------------------------------------------------------------
(* Lemmas about the operators the controller is built from.                *)

\* What reconcileGuard decides is a reason and a message, or a configuration
\* (and then an image is set).
LEMMA Decided ==
  ASSUME NEW obj \in GuardObjects, NEW k \in Guards,
         NEW provs \in [Providers -> ProviderSpecs \cup {None}], NEW img
  PROVE  LET d == Decision(obj, k, provs, img)
         IN  /\ d.message \in Messages
             /\ d.reason # None => /\ d.reason \in Reasons \ {guardReasonReconcileFailed}
                                   /\ isTerminalReason(d.reason)
             /\ d.reason = None => d.config \in Configs /\ img # None
<1>. DEFINE provider == fetchProvider(obj, k, provs)
            d == Decision(obj, k, provs, img)
<1>1. obj.spec \in GuardSpecs
  BY DEF GuardObjects
<1>2. provider \in ProviderSpecs \cup {None}
  BY DEF fetchProvider, Get
<1>. DEFINE Good(x) == /\ x.message \in Messages
                       /\ x.reason # None => /\ x.reason \in Reasons \ {guardReasonReconcileFailed}
                                             /\ isTerminalReason(x.reason)
                       /\ x.reason = None => x.config \in Configs /\ img # None
<1>3. ASSUME NEW reason, isTerminalReason(reason), NEW message \in Messages
      PROVE  Good(Rejected(reason, message))
  <2>1. reason \in Reasons \ {guardReasonReconcileFailed}
    BY <1>3 DEF isTerminalReason, Reasons, guardReasonAdapterNotConfigured,
       guardReasonProviderNotFound, guardReasonUnsupportedProviderType,
       guardReasonInvalidConfig, guardReasonReconcileFailed
  <2>2. Rejected(reason, message).reason = reason /\ Rejected(reason, message).message = message
    BY DEF Rejected
  <2>. QED
    BY <1>3, <2>1, <2>2, NoObjectAssumption
<1>4. CASE img = None
  <2>1. d = Rejected(guardReasonAdapterNotConfigured, None)
    BY <1>4 DEF Decision
  <2>. QED
    BY <1>3, <2>1 DEF isTerminalReason, Messages
<1>5. CASE img # None /\ provider = None
  <2>1. d = Rejected(guardReasonProviderNotFound, None)
    BY <1>5 DEF Decision
  <2>. QED
    BY <1>3, <2>1 DEF isTerminalReason, Messages
<1>6. CASE img # None /\ provider # None
  <2>1. d = renderStaticConfig(obj.spec, provider)
    BY <1>6 DEF Decision
  <2>2. provider \in ProviderSpecs
    BY <1>2, <1>6
  <2>. DEFINE config == [modes |-> obj.spec.mode, endpoint |-> provider.baseUrl,
                         presidio |-> obj.spec.presidio]
  <2>. SUFFICES Good(d)
    OBVIOUS
  <2>. HIDE DEF provider, d, config
  <2>3. \/ d = Rejected(guardReasonUnsupportedProviderType, provider.type)
        \/ \E m \in {"modes is required", "mode not supported", "baseUrl is required"} :
             d = Rejected(guardReasonInvalidConfig, m)
        \/ d = [reason |-> None, message |-> None, config |-> config]
    BY <2>1, Zenon DEF renderStaticConfig, config
  <2>4. config \in Configs
    BY <1>1, <2>2 DEF Configs, config
  <2>5. CASE d = Rejected(guardReasonUnsupportedProviderType, provider.type)
    BY <1>3, <2>2, <2>5 DEF isTerminalReason, Messages
  <2>6. CASE \E m \in {"modes is required", "mode not supported", "baseUrl is required"} :
               d = Rejected(guardReasonInvalidConfig, m)
    BY <1>3, <2>6 DEF isTerminalReason, Messages
  <2>7. CASE d = [reason |-> None, message |-> None, config |-> config]
    BY <1>6, <2>4, <2>7 DEF Messages
  <2>. QED
    BY <2>3, <2>5, <2>6, <2>7
<1>. QED
  BY <1>4, <1>5, <1>6

\* A write to one child of one Guard.
LEMMA AdapterEntries ==
  ASSUME AdaptersTypeOK, NEW kind \in Kinds, NEW k \in Guards, NEW obj,
         AdapterChanged(kind, k, obj)
  PROVE  /\ adapters'[kind][k] = obj
         /\ \A c \in Kinds, j \in Guards : c # kind \/ j # k => adapters'[c][j] = adapters[c][j]
         /\ DOMAIN adapters' = Kinds /\ \A c \in Kinds : DOMAIN adapters'[c] = Guards
<1>1. adapters' = [adapters EXCEPT ![kind] = [adapters[kind] EXCEPT ![k] = obj]]
  BY DEF AdapterChanged
<1>. DEFINE row == [adapters[kind] EXCEPT ![k] = obj]
<1>2. /\ DOMAIN row = Guards /\ row[k] = obj
      /\ \A j \in Guards : j # k => row[j] = adapters[kind][j]
  BY DEF AdaptersTypeOK
<1>. HIDE DEF row
<1>3. /\ DOMAIN adapters' = Kinds /\ adapters'[kind] = row
      /\ \A c \in Kinds : c # kind => adapters'[c] = adapters[c]
  BY <1>1 DEF AdaptersTypeOK, row
<1>. QED
  BY <1>2, <1>3 DEF AdaptersTypeOK

\* It is an event unless nothing changed, and may end the Guard's pods.
LEMMA AdapterEvents ==
  ASSUME NEW kind \in Kinds, NEW k \in Guards, NEW obj, AdapterChanged(kind, k, obj)
  PROVE  /\ wAdapters \subseteq wAdapters'
         /\ wAdapters' \subseteq wAdapters \cup {<<kind, k>>}
         /\ adapters[kind][k] # obj => <<kind, k>> \in wAdapters'
         /\ DOMAIN pods' = DOMAIN pods
BY DEF AdapterChanged

\* The wanted children are children of the Guard.
LEMMA WantedChild ==
  ASSUME NEW kind \in Kinds, NEW k \in Guards, NEW obj \in GuardObjects,
         NEW config \in Configs, NEW img \in AdapterImages, img # None
  PROVE  LET want == AdapterFor(kind, k, obj, config, img)
         IN  /\ want \in Children(kind) /\ want.owner.key = k
             /\ want = [f \in DOMAIN want |-> want[f]]
<1>1. Owner(k, obj) \in Owners /\ Owner(k, obj).key = k
  BY DEF Owner, Owners, GuardObjects
<1>2. CASE kind = "configmap"
  BY <1>1, <1>2 DEF AdapterFor, Children, ConfigMapFor
<1>3. CASE kind = "deployment"
  BY <1>1, <1>3 DEF AdapterFor, Children, DeploymentFor
<1>4. CASE kind = "service"
  BY <1>1, <1>4 DEF AdapterFor, Children, ServiceFor
<1>. QED
  BY <1>2, <1>3, <1>4 DEF Kinds

\* A merge patch of a child is a child.
LEMMA MergedChild ==
  ASSUME NEW kind \in Kinds, NEW k \in Guards, NEW read,
         NEW live \in Children(kind), live.owner.key = k,
         NEW want \in Children(kind), want.owner.key = k
  PROVE  /\ MergePatch(read, live, want) \in Children(kind)
         /\ MergePatch(read, live, want).owner.key = k
<1>2. CASE kind = "configmap"
  BY <1>2 DEF MergePatch, Children
<1>3. CASE kind = "deployment"
  BY <1>3 DEF MergePatch, Children
<1>4. CASE kind = "service"
  BY <1>4 DEF MergePatch, Children
<1>. QED
  BY <1>2, <1>3, <1>4 DEF Kinds

\* CreateOrPatch leaves a child of the Guard it is for.
LEMMA WrittenChild ==
  ASSUME NEW kind \in Kinds, NEW k \in Guards, NEW read, NEW live, ChildOf(kind, k, live),
         NEW want \in Children(kind), want.owner.key = k, CreateOrPatch(read, live, want) # Failed
  PROVE  ChildOf(kind, k, CreateOrPatch(read, live, want))
<1>. DEFINE new == CreateOrPatch(read, live, want)
<1>1. new = want \/ new = live \/ (live # None /\ new = MergePatch(read, live, want))
  BY PatchCached
<1>. HIDE DEF new
<1>2. ChildOf(kind, k, new)
  BY <1>1, MergedChild DEF ChildOf
<1>. QED
  BY <1>2 DEF new

\* A status patch changes the status of one Guard and nothing else; it sends
\* the condition unless the copy that was read has it already.
LEMMA StatusPatched ==
  ASSUME TypeOK, job # Idle, guards[job.key] # None, NEW status \in {"True", "False"},
         NEW reason \in Reasons, NEW message \in Messages,
         setReadyCondition(status, reason, message)
  PROVE  LET cond == Condition(job.read, status, reason, message)
         IN  /\ guards' \in [Guards -> GuardObjects \cup {None}] /\ wGuards' \subseteq Guards
             /\ guards'[job.key] \in GuardObjects
             /\ guards'[job.key].uid = guards[job.key].uid
             /\ guards'[job.key].gen = guards[job.key].gen
             /\ guards'[job.key].spec = guards[job.key].spec
             /\ guards'[job.key].status.cond = IF cond = job.read.status.cond
                                               THEN guards[job.key].status.cond ELSE cond
             /\ \A k \in Guards \ {job.key} : guards'[k] = guards[k]
             /\ wGuards \subseteq wGuards'
             /\ guards'[job.key] # guards[job.key] => job.key \in wGuards'
<1>. DEFINE cond == Condition(job.read, status, reason, message)
            want == [cond |-> cond]
            live == guards[job.key]
            new  == MergePatch(job.read.status, live.status, want)
            obj  == [live EXCEPT !.status = new]
<1>1. job.key \in Guards /\ job.read \in GuardObjects /\ live \in GuardObjects
  BY DEF TypeOK, JobTypeOK, ClusterTypeOK
<1>2. cond \in Conditions /\ live.status \in Statuses
  BY <1>1 DEF Condition, Conditions, GuardObjects
<1>. HIDE DEF cond
<1>3. new = [cond |-> IF cond = job.read.status.cond THEN live.status.cond ELSE cond]
  BY DEF MergePatch
<1>4. new \in Statuses /\ new.cond = IF cond = job.read.status.cond THEN live.status.cond ELSE cond
  BY <1>2, <1>3 DEF Statuses
<1>5. /\ guards'  = [guards EXCEPT ![job.key] = obj]
      /\ wGuards' = IF obj = guards[job.key] THEN wGuards ELSE wGuards \cup {job.key}
  BY DEF setReadyCondition, GuardChanged, cond
<1>6. /\ obj \in GuardObjects /\ obj.uid = live.uid /\ obj.gen = live.gen /\ obj.spec = live.spec
      /\ obj.status = new
  <2>. HIDE DEF live, new
  <2>. QED
    BY <1>1, <1>4 DEF GuardObjects
<1>. HIDE DEF obj, new
<1>7. /\ guards'[job.key] = obj /\ \A k \in Guards \ {job.key} : guards'[k] = guards[k]
      /\ guards' \in [Guards -> GuardObjects \cup {None}] /\ wGuards' \subseteq Guards
  BY <1>1, <1>5, <1>6 DEF TypeOK, ClusterTypeOK, QueueTypeOK
<1>. QED
  BY <1>1, <1>4, <1>5, <1>6, <1>7 DEF cond

-----------------------------------------------------------------------------
(* Type correctness.                                                       *)

\* The initial state is of the right type.
LEMMA InitType == Init => TypeOK
<1>. SUFFICES ASSUME Init PROVE TypeOK
  OBVIOUS
<1>1. ASSUME NEW spec \in GuardSpecs PROVE NewGuard(0, spec) \in GuardObjects
  BY DEF NewGuard, NoStatus, GuardObjects, Statuses
<1>2. guards \in [Guards -> GuardObjects \cup {None}]
  BY <1>1 DEF Init
<1>3. ClusterTypeOK
  BY <1>2 DEF Init, ClusterTypeOK
<1>4. AdaptersTypeOK
  BY DEF Init, AdaptersTypeOK, ChildOf
<1>5. QueueTypeOK /\ JobTypeOK
  BY DEF Init, QueueTypeOK, JobTypeOK
<1>6. BoundsOK
  BY BoundsAssumption DEF Init, BoundsOK
<1>. QED
  BY <1>2, <1>3, <1>4, <1>5, <1>6 DEF TypeOK

\* A write to a Guard.
LEMMA GuardWritten ==
  ASSUME TypeOK, NEW k \in Guards, NEW obj \in GuardObjects \cup {None}, GuardChanged(k, obj)
  PROVE  /\ guards' \in [Guards -> GuardObjects \cup {None}] /\ wGuards' \subseteq Guards
         /\ guards'[k] = obj /\ \A j \in Guards \ {k} : guards'[j] = guards[j]
         /\ wGuards \subseteq wGuards' /\ (obj # guards[k] => k \in wGuards')
BY DEF GuardChanged, TypeOK, ClusterTypeOK, QueueTypeOK

\* A write to a child.
LEMMA AdapterWritten ==
  ASSUME TypeOK, NEW kind \in Kinds, NEW k \in Guards, NEW obj, ChildOf(kind, k, obj),
         AdapterChanged(kind, k, obj), UNCHANGED cAdapters
  PROVE  AdaptersTypeOK' /\ DOMAIN pods' = Guards /\ wAdapters' \subseteq Kinds \X Guards
<1>1. AdaptersTypeOK /\ DOMAIN pods = Guards /\ wAdapters \subseteq Kinds \X Guards
  BY DEF TypeOK, ClusterTypeOK, QueueTypeOK
<1>2. ASSUME NEW c \in Kinds, NEW j \in Guards PROVE ChildOf(c, j, adapters'[c][j])
  <2>1. CASE c = kind /\ j = k
    BY <1>1, <2>1, AdapterEntries
  <2>2. CASE c # kind \/ j # k
    <3>1. adapters'[c][j] = adapters[c][j]
      BY <1>1, <2>2, AdapterEntries
    <3>. QED
      BY <1>1, <3>1 DEF AdaptersTypeOK
  <2>. QED
    BY <2>1, <2>2
<1>3. DOMAIN adapters' = Kinds /\ \A c \in Kinds : DOMAIN adapters'[c] = Guards
  BY <1>1, AdapterEntries
<1>4. DOMAIN pods' = Guards /\ wAdapters' \subseteq Kinds \X Guards
  <2>1. <<kind, k>> \in Kinds \X Guards
    OBVIOUS
  <2>. QED
    BY <1>1, <2>1, AdapterEvents
<1>. QED
  BY <1>1, <1>2, <1>3, <1>4 DEF AdaptersTypeOK, ChildOf

\* The users' changes.
LEMMA UsersType == TypeOK /\ Users => TypeOK'
<1>. SUFFICES ASSUME TypeOK, Users PROVE TypeOK'
  OBVIOUS
<1>1. ASSUME Edit, UNCHANGED <<faults, crashes>> PROVE BoundsOK' /\ edits' \in Nat
  BY <1>1, BoundsAssumption DEF Edit, TypeOK, BoundsOK
<1>2. ASSUME NEW k \in Guards, CreateGuard(k) \/ EditGuard(k) \/ DeleteGuard(k) PROVE TypeOK'
  <2>1. BoundsOK' /\ edits' \in Nat
    BY <1>1, <1>2 DEF CreateGuard, EditGuard, DeleteGuard
  <2>2. PICK obj \in GuardObjects \cup {None} : GuardChanged(k, obj)
    <3>1. ASSUME NEW spec \in GuardSpecs PROVE NewGuard(edits', spec) \in GuardObjects
      BY <2>1 DEF NewGuard, NoStatus, GuardObjects, Statuses
    <3>2. ASSUME NEW spec \in GuardSpecs, guards[k] # None
          PROVE  EditedGuard(guards[k], spec) \in GuardObjects
      BY <3>2 DEF EditedGuard, GuardObjects, TypeOK, ClusterTypeOK
    <3>. QED
      BY <1>2, <3>1, <3>2 DEF CreateGuard, EditGuard, DeleteGuard
  <2>3. guards' \in [Guards -> GuardObjects \cup {None}] /\ wGuards' \subseteq Guards
    BY <2>2, GuardWritten
  <2>4. UNCHANGED <<providers, adapters, pods, caches, wProviders, wAdapters, image, queue,
                    job, swallowed>>
    BY <1>2 DEF CreateGuard, EditGuard, DeleteGuard
  <2>. QED
    BY <2>1, <2>3, <2>4 DEF caches, TypeOK, ClusterTypeOK, AdaptersTypeOK, ChildOf,
                            QueueTypeOK, JobTypeOK
<1>3. ASSUME NEW kind \in Kinds, NEW k \in Guards, DeleteAdapter(kind, k) PROVE TypeOK'
  <2>1. AdaptersTypeOK' /\ DOMAIN pods' = Guards /\ wAdapters' \subseteq Kinds \X Guards
    BY <1>3, AdapterWritten DEF DeleteAdapter, caches, ChildOf
  <2>2. BoundsOK'
    BY <1>1, <1>3 DEF DeleteAdapter
  <2>. QED
    BY <1>3, <2>1, <2>2 DEF DeleteAdapter, caches, TypeOK, ClusterTypeOK, QueueTypeOK, JobTypeOK
<1>4. ASSUME NEW p \in Providers, SetProvider(p) PROVE TypeOK'
  <2>1. providers' \in [Providers -> ProviderSpecs \cup {None}]
    BY <1>4 DEF SetProvider, TypeOK, ClusterTypeOK
  <2>2. BoundsOK'
    BY <1>1, <1>4 DEF SetProvider
  <2>. QED
    BY <1>4, <2>1, <2>2 DEF SetProvider, caches, TypeOK, ClusterTypeOK, AdaptersTypeOK, ChildOf,
                            QueueTypeOK, JobTypeOK
<1>. QED
  BY <1>2, <1>3, <1>4 DEF Users

\* The garbage collector and the kubelet.
LEMMA ClusterType == TypeOK /\ Cluster => TypeOK'
<1>. SUFFICES ASSUME TypeOK, NEW k \in Guards,
                     StartPods(k) \/ \E kind \in Kinds : Collect(kind, k)
              PROVE  TypeOK'
  BY DEF Cluster
<1>1. CASE StartPods(k)
  BY <1>1 DEF StartPods, caches, watches, TypeOK, ClusterTypeOK, AdaptersTypeOK, ChildOf,
              QueueTypeOK, JobTypeOK, BoundsOK
<1>2. ASSUME NEW kind \in Kinds, Collect(kind, k) PROVE TypeOK'
  <2>1. AdaptersTypeOK' /\ DOMAIN pods' = Guards /\ wAdapters' \subseteq Kinds \X Guards
    BY <1>2, AdapterWritten DEF Collect, caches, ChildOf
  <2>. QED
    BY <1>2, <2>1 DEF Collect, caches, TypeOK, ClusterTypeOK, QueueTypeOK, JobTypeOK, BoundsOK
<1>. QED
  BY <1>1, <1>2

\* A cache takes over one child.
LEMMA CacheEntries ==
  ASSUME AdaptersTypeOK, NEW kind \in Kinds, NEW k \in Guards, SyncAdapter(kind, k)
  PROVE  /\ cAdapters'[kind][k] = adapters[kind][k]
         /\ \A c \in Kinds, j \in Guards :
              c # kind \/ j # k => cAdapters'[c][j] = cAdapters[c][j]
         /\ DOMAIN cAdapters' = Kinds /\ \A c \in Kinds : DOMAIN cAdapters'[c] = Guards
<1>1. cAdapters' = [cAdapters EXCEPT ![kind] = [cAdapters[kind] EXCEPT ![k] = adapters[kind][k]]]
  BY DEF SyncAdapter
<1>. DEFINE row == [cAdapters[kind] EXCEPT ![k] = adapters[kind][k]]
<1>2. /\ DOMAIN row = Guards /\ row[k] = adapters[kind][k]
      /\ \A j \in Guards : j # k => row[j] = cAdapters[kind][j]
  BY DEF AdaptersTypeOK
<1>. HIDE DEF row
<1>3. /\ DOMAIN cAdapters' = Kinds /\ cAdapters'[kind] = row
      /\ \A c \in Kinds : c # kind => cAdapters'[c] = cAdapters[c]
  BY <1>1 DEF AdaptersTypeOK, row
<1>. QED
  BY <1>2, <1>3 DEF AdaptersTypeOK

\* The informers.
LEMMA InformersType == TypeOK /\ Informers => TypeOK'
<1>. SUFFICES ASSUME TypeOK, Informers PROVE TypeOK'
  OBVIOUS
<1>1. ASSUME NEW kind \in Kinds, NEW k \in Guards, SyncAdapter(kind, k) PROVE TypeOK'
  <2>0. AdaptersTypeOK /\ UNCHANGED adapters
    BY <1>1 DEF TypeOK, SyncAdapter, cluster
  <2>1. ASSUME NEW c \in Kinds, NEW j \in Guards PROVE ChildOf(c, j, cAdapters'[c][j])
    <3>1. CASE c = kind /\ j = k
      <4>1. cAdapters'[c][j] = adapters[c][j]
        BY <1>1, <2>0, <3>1, CacheEntries
      <4>. QED
        BY <2>0, <4>1 DEF AdaptersTypeOK
    <3>2. CASE c # kind \/ j # k
      <4>1. cAdapters'[c][j] = cAdapters[c][j]
        BY <1>1, <2>0, <3>2, CacheEntries
      <4>. QED
        BY <2>0, <4>1 DEF AdaptersTypeOK
    <3>. QED
      BY <3>1, <3>2
  <2>2. DOMAIN cAdapters' = Kinds /\ \A c \in Kinds : DOMAIN cAdapters'[c] = Guards
    BY <1>1, <2>0, CacheEntries
  <2>3. AdaptersTypeOK'
    BY <2>0, <2>1, <2>2 DEF AdaptersTypeOK, ChildOf
  <2>. QED
    BY <1>1, <2>3 DEF SyncAdapter, cluster, watches, TypeOK, ClusterTypeOK, QueueTypeOK,
                      JobTypeOK, BoundsOK
<1>2. ASSUME NEW k \in Guards, SyncGuard(k) PROVE TypeOK'
  BY <1>2 DEF SyncGuard, cluster, watches, TypeOK, ClusterTypeOK, AdaptersTypeOK, ChildOf,
              QueueTypeOK, JobTypeOK, BoundsOK
<1>3. ASSUME NEW p \in Providers, SyncProvider(p) PROVE TypeOK'
  BY <1>3 DEF SyncProvider, cluster, watches, TypeOK, ClusterTypeOK, AdaptersTypeOK, ChildOf,
              QueueTypeOK, JobTypeOK, BoundsOK
<1>4. ASSUME NEW k \in Guards, HandleGuard(k) \/ \E kind \in Kinds : HandleAdapter(kind, k)
      PROVE  TypeOK'
  <2>1. QueueTypeOK'
    <3>1. wAdapters' \subseteq wAdapters /\ wGuards' \subseteq wGuards /\ UNCHANGED wProviders
      BY <1>4 DEF HandleGuard, HandleAdapter
    <3>2. queue' = queue \cup {k} /\ UNCHANGED swallowed
      BY <1>4 DEF HandleGuard, HandleAdapter
    <3>. QED
      BY <3>1, <3>2 DEF TypeOK, QueueTypeOK
  <2>2. UNCHANGED <<cluster, caches, image, job, edits, faults, crashes>>
    BY <1>4 DEF HandleGuard, HandleAdapter
  <2>. QED
    BY <2>1, <2>2 DEF cluster, caches, TypeOK, ClusterTypeOK, AdaptersTypeOK, ChildOf,
                      JobTypeOK, BoundsOK
<1>5. ASSUME NEW p \in Providers, HandleProvider(p) PROVE TypeOK'
  BY <1>5 DEF HandleProvider, findGuardsForProvider, cluster, caches, TypeOK, ClusterTypeOK,
              AdaptersTypeOK, ChildOf, QueueTypeOK, JobTypeOK, BoundsOK
<1>. QED
  BY <1>1, <1>2, <1>3, <1>4, <1>5 DEF Informers

\* Whose turn it is while Reconcile is under way.
LEMMA AtWork ==
  ASSUME TypeOK, job.pc \in Kinds \cup {"ready", "notready"}
  PROVE  /\ job # Idle /\ job.key \in Guards /\ job.read \in GuardObjects
         /\ job.pc = "notready" => job.reason \in Reasons
         /\ job.pc # "notready" => job.config \in Configs /\ image \in AdapterImages /\ image # None
         /\ job.message \in Messages
<1>1. job # Idle
  BY DEF Idle, Job, Kinds
<1>. QED
  BY <1>1 DEF TypeOK, ClusterTypeOK, JobTypeOK

\* The ways in which a step of the worker leaves the job and the queue.
LEMMA JobSteps ==
  ASSUME TypeOK, job # Idle, UNCHANGED image
  PROVE  /\ Fail => JobTypeOK'
         /\ \A err : Return(err) => JobTypeOK' /\ queue' \subseteq Guards
         /\ job.key \in Guards
<1>0. job.key \in Guards /\ job.read \in GuardObjects
  BY DEF TypeOK, JobTypeOK
<1>1. Fail => JobTypeOK'
  BY <1>0 DEF Fail, Job, JobTypeOK, Reasons, Messages
<1>2. ASSUME NEW err, Return(err) PROVE JobTypeOK' /\ queue' \subseteq Guards
  BY <1>0, <1>2 DEF Return, JobTypeOK, TypeOK, QueueTypeOK
<1>. QED
  BY <1>0, <1>1, <1>2

\* Reconcile starts.
LEMMA BeginType == TypeOK /\ (\E k \in Guards : BeginNotFound(k) \/ Begin(k)) => TypeOK'
<1>. SUFFICES ASSUME TypeOK, NEW k \in Guards, BeginNotFound(k) \/ Begin(k) PROVE TypeOK'
  OBVIOUS
<1>1. JobTypeOK'
  <2>1. CASE Begin(k)
    <3>. DEFINE d == Decision(cGuards[k], k, cProviders, image)
                pc == IF d.reason = None THEN "configmap" ELSE "notready"
    <3>1. cGuards[k] \in GuardObjects /\ cProviders \in [Providers -> ProviderSpecs \cup {None}]
      BY <2>1 DEF Begin, TypeOK, ClusterTypeOK
    <3>2. /\ d.message \in Messages /\ (d.reason # None => d.reason \in Reasons)
          /\ d.reason = None => d.config \in Configs /\ image # None
      BY <3>1, Decided
    <3>3. job' = Job(pc, k, cGuards[k], d.config, d.reason, d.message) /\ UNCHANGED image
      BY <2>1 DEF Begin
    <3>. HIDE DEF d
    <3>. QED
      BY <3>1, <3>2, <3>3 DEF Job, JobTypeOK, Kinds
  <2>2. CASE BeginNotFound(k)
    BY <2>2 DEF BeginNotFound, TypeOK, JobTypeOK
  <2>. QED
    BY <2>1, <2>2
<1>. QED
  BY <1>1 DEF Begin, BeginNotFound, Dequeue, cluster, caches, watches, TypeOK, ClusterTypeOK,
              AdaptersTypeOK, ChildOf, QueueTypeOK, BoundsOK

\* What a step that writes a child does.
LEMMA EnsureSteps ==
  ASSUME TypeOK, NEW kind \in Kinds, NEW next \in Kinds \cup {"ready"}, ensure(kind, next)
  PROVE  LET want == AdapterFor(kind, job.key, job.read, job.config, image)
             new  == CreateOrPatch(cAdapters[kind][job.key], adapters[kind][job.key], want)
         IN  /\ job.pc = kind /\ job # Idle /\ job.key \in Guards
             /\ want \in Children(kind) /\ want.owner.key = job.key
             /\ want = [f \in DOMAIN want |-> want[f]]
             /\ \/ new = Failed /\ Fail /\ UNCHANGED <<adapters, wAdapters, pods, faults>>
                \/ /\ new # Failed /\ ChildOf(kind, job.key, new)
                   /\ AdapterChanged(kind, job.key, new)
                   /\ \/ /\ job' = Job(next, job.key, job.read, job.config, None, None)
                         /\ UNCHANGED faults
                      \/ Fail /\ Fault
             /\ UNCHANGED <<guards, providers, caches, wGuards, wProviders, image, queue,
                            swallowed, edits, crashes>>
<1>. DEFINE want == AdapterFor(kind, job.key, job.read, job.config, image)
            live == adapters[kind][job.key]
            new  == CreateOrPatch(cAdapters[kind][job.key], live, want)
<1>1. job.pc = kind
  BY DEF ensure
<1>2. job # Idle /\ job.key \in Guards
  BY <1>1, AtWork
<1>3. /\ job.read \in GuardObjects /\ job.config \in Configs /\ image \in AdapterImages
      /\ image # None
  BY <1>1, AtWork DEF Kinds
<1>4. /\ want \in Children(kind) /\ want.owner.key = job.key
      /\ want = [f \in DOMAIN want |-> want[f]]
  BY <1>2, <1>3, WantedChild
<1>5. ChildOf(kind, job.key, live)
  BY <1>2 DEF TypeOK, AdaptersTypeOK
<1>6. \/ new = Failed /\ Fail /\ UNCHANGED <<adapters, wAdapters, pods, faults>>
      \/ /\ new # Failed /\ AdapterChanged(kind, job.key, new)
         /\ \/ /\ job' = Job(next, job.key, job.read, job.config, None, None)
               /\ UNCHANGED faults
            \/ Fail /\ Fault
  BY Zenon DEF ensure
<1>. HIDE DEF want, live
<1>7. new # Failed => ChildOf(kind, job.key, new)
  BY <1>2, <1>4, <1>5, WrittenChild
<1>8. UNCHANGED <<guards, providers, caches, wGuards, wProviders, image, queue, swallowed,
                  edits, crashes>>
  BY DEF ensure
<1>. HIDE DEF new
<1>. QED
  BY <1>1, <1>2, <1>4, <1>6, <1>7, <1>8, Zenon DEF new, want, live

\* The three children.
LEMMA EnsureType ==
  ASSUME TypeOK, NEW kind \in Kinds, NEW next \in Kinds \cup {"ready"}, ensure(kind, next)
  PROVE  TypeOK'
<1>. DEFINE want == AdapterFor(kind, job.key, job.read, job.config, image)
            new  == CreateOrPatch(cAdapters[kind][job.key], adapters[kind][job.key], want)
<1>1. /\ job.pc = kind /\ job # Idle /\ job.key \in Guards
      /\ \/ new = Failed /\ Fail /\ UNCHANGED <<adapters, wAdapters, pods, faults>>
         \/ /\ new # Failed /\ ChildOf(kind, job.key, new) /\ AdapterChanged(kind, job.key, new)
            /\ \/ /\ job' = Job(next, job.key, job.read, job.config, None, None)
                  /\ UNCHANGED faults
               \/ Fail /\ Fault
      /\ UNCHANGED <<guards, providers, caches, wGuards, wProviders, image, queue,
                     swallowed, edits, crashes>>
  BY EnsureSteps
<1>2. job.read \in GuardObjects /\ job.config \in Configs /\ image # None
  BY <1>1, AtWork DEF Kinds
<1>. HIDE DEF new
<1>3. JobTypeOK'
  <2>1. Fail => JobTypeOK'
    BY <1>1, JobSteps
  <2>2. CASE job' = Job(next, job.key, job.read, job.config, None, None)
    BY <1>1, <1>2, <2>2 DEF Job, JobTypeOK, Kinds, Messages
  <2>. QED
    BY <1>1, <2>1, <2>2
<1>4. BoundsOK'
  BY <1>1, BoundsAssumption DEF Fault, TypeOK, BoundsOK
<1>5. AdaptersTypeOK' /\ DOMAIN pods' = Guards /\ wAdapters' \subseteq Kinds \X Guards
  <2>1. CASE UNCHANGED <<adapters, wAdapters, pods>>
    BY <1>1, <2>1 DEF caches, TypeOK, ClusterTypeOK, QueueTypeOK, AdaptersTypeOK, ChildOf
  <2>2. CASE ChildOf(kind, job.key, new) /\ AdapterChanged(kind, job.key, new)
    BY <1>1, <2>2, AdapterWritten DEF caches
  <2>. QED
    BY <1>1, <2>1, <2>2
<1>. QED
  BY <1>1, <1>3, <1>4, <1>5 DEF caches, TypeOK, ClusterTypeOK, QueueTypeOK

\* Reconcile ends.
LEMMA ReturnType ==
  ASSUME TypeOK, WriteReady \/ WriteNotReady \/ WriteNotReadyNotFound
  PROVE  TypeOK'
<1>1. CASE WriteReady
  <2>1. job.pc = "ready" /\ UNCHANGED <<providers, adapters, pods, caches, wProviders, wAdapters,
                                        image, swallowed, edits, crashes>>
    BY <1>1 DEF WriteReady
  <2>2. job # Idle
    BY <2>1, AtWork
  <2>3. PICK err : Return(err)
    BY <1>1, Zenon DEF WriteReady
  <2>4. JobTypeOK' /\ queue' \subseteq Guards
    BY <2>1, <2>2, <2>3, JobSteps
  <2>5. BoundsOK'
    <3>1. UNCHANGED faults \/ Fault
      BY <1>1, Zenon DEF WriteReady
    <3>. QED
      BY <2>1, <3>1, BoundsAssumption DEF Fault, TypeOK, BoundsOK
  <2>6. guards' \in [Guards -> GuardObjects \cup {None}] /\ wGuards' \subseteq Guards
    <3>1. CASE guards[job.key] = None
      BY <1>1, <3>1 DEF WriteReady, TypeOK, ClusterTypeOK, QueueTypeOK
    <3>2. CASE guards[job.key] # None
      <4>1. setReadyCondition("True", guardReasonReconciled, None)
        BY <1>1, <3>2 DEF WriteReady
      <4>. QED
        BY <2>2, <3>2, <4>1, StatusPatched DEF Reasons, Messages
    <3>. QED
      BY <3>1, <3>2
  <2>. QED
    BY <2>1, <2>4, <2>5, <2>6 DEF caches, TypeOK, ClusterTypeOK, AdaptersTypeOK, ChildOf,
                                  QueueTypeOK
<1>2. CASE WriteNotReady
  <2>1. /\ job.pc = "notready" /\ guards[job.key] # None
        /\ setReadyCondition("False", job.reason, job.message)
        /\ UNCHANGED <<providers, adapters, pods, caches, wProviders, wAdapters,
                       image, swallowed, edits, faults, crashes>>
    BY <1>2 DEF WriteNotReady
  <2>2. job # Idle /\ job.reason \in Reasons /\ job.message \in Messages
    BY <2>1, AtWork
  <2>3. PICK err : Return(err)
    BY <1>2, Zenon DEF WriteNotReady
  <2>4. JobTypeOK' /\ queue' \subseteq Guards
    BY <2>1, <2>2, <2>3, JobSteps
  <2>5. guards' \in [Guards -> GuardObjects \cup {None}] /\ wGuards' \subseteq Guards
    BY <2>1, <2>2, StatusPatched
  <2>. QED
    BY <2>1, <2>4, <2>5 DEF caches, TypeOK, ClusterTypeOK, AdaptersTypeOK, ChildOf,
                            QueueTypeOK, BoundsOK
<1>3. CASE WriteNotReadyNotFound
  <2>1. job.pc = "notready" /\ UNCHANGED <<cluster, caches, watches, image, edits, faults, crashes>>
    BY <1>3 DEF WriteNotReadyNotFound
  <2>2. job # Idle
    BY <2>1, AtWork
  <2>3. PICK err : Return(err)
    BY <1>3, Zenon DEF WriteNotReadyNotFound, NotReadyNotWritten
  <2>4. JobTypeOK' /\ queue' \subseteq Guards /\ job.key \in Guards
    BY <2>1, <2>2, <2>3, JobSteps
  <2>5. swallowed' \subseteq Guards
    BY <1>3, <2>4 DEF WriteNotReadyNotFound, NotReadyNotWritten, TypeOK, QueueTypeOK
  <2>. QED
    BY <2>1, <2>4, <2>5 DEF cluster, caches, watches, TypeOK, ClusterTypeOK, AdaptersTypeOK,
                            ChildOf, QueueTypeOK, BoundsOK
<1>. QED
  BY <1>1, <1>2, <1>3

\* A failing call.
LEMMA CallFailsType == TypeOK /\ CallFails => TypeOK'
<1>. SUFFICES ASSUME TypeOK, CallFails PROVE TypeOK'
  OBVIOUS
<1>1. job.pc \in Kinds \cup {"ready", "notready"}
  BY DEF CallFails
<1>2. job # Idle /\ UNCHANGED <<cluster, caches, watches, image, edits, crashes>>
  BY <1>1, AtWork DEF CallFails
<1>3. BoundsOK'
  BY BoundsAssumption DEF CallFails, Fault, TypeOK, BoundsOK
<1>4. \/ Fail /\ UNCHANGED <<queue, swallowed>>
      \/ Return(TRUE) /\ UNCHANGED swallowed
      \/ NotReadyNotWritten
  BY Zenon DEF CallFails
<1>5. JobTypeOK' /\ queue' \subseteq Guards /\ swallowed' \subseteq Guards
  <2>1. CASE Fail /\ UNCHANGED <<queue, swallowed>>
    BY <1>2, <2>1, JobSteps DEF TypeOK, QueueTypeOK
  <2>2. CASE Return(TRUE) /\ UNCHANGED swallowed
    BY <1>2, <2>2, JobSteps DEF TypeOK, QueueTypeOK
  <2>3. CASE NotReadyNotWritten
    BY <1>2, <2>3, JobSteps DEF NotReadyNotWritten, TypeOK, QueueTypeOK
  <2>. QED
    BY <1>4, <2>1, <2>2, <2>3
<1>. QED
  BY <1>2, <1>3, <1>5 DEF cluster, caches, watches, TypeOK, ClusterTypeOK, AdaptersTypeOK,
                          ChildOf, QueueTypeOK

\* The operator restarts.
LEMMA RestartType == TypeOK /\ Restart => TypeOK'
<1>. SUFFICES ASSUME TypeOK, Restart PROVE TypeOK'
  OBVIOUS
<1>1. BoundsOK'
  BY BoundsAssumption DEF Restart, TypeOK, BoundsOK
<1>. QED
  BY <1>1 DEF Restart, cluster, TypeOK, ClusterTypeOK, AdaptersTypeOK, ChildOf, QueueTypeOK,
              JobTypeOK

\* All steps together.
LEMMA NextType == TypeOK /\ [Next]_vars => TypeOK'
<1>1. TypeOK /\ UNCHANGED vars => TypeOK'
  BY DEF vars, cluster, caches, watches, TypeOK, ClusterTypeOK, AdaptersTypeOK, ChildOf,
         QueueTypeOK, JobTypeOK, BoundsOK
<1>2. TypeOK /\ Proceed => TypeOK'
  BY EnsureType, ReturnType DEF Proceed, ensureConfigMap, ensureDeployment, ensureService, Kinds
<1>. QED
  BY <1>1, <1>2, UsersType, InformersType, ClusterType, BeginType, CallFailsType, RestartType
     DEF Next, Worker

\* Every variable of the Guard controller keeps its type: children carry the
\* key of their Guard and a rendered configuration, a worker that writes one
\* has a configuration and an image, one that gave up a reason to report.
THEOREM TypeCorrect == Spec => []TypeOK
BY InitType, NextType, PTL DEF Spec

-----------------------------------------------------------------------------
(* Whatever changes is due, and what is due stays due.                     *)

\* Every change is an event.
Noted ==
  /\ \A k \in Guards : guards'[k] = guards[k] \/ k \in wGuards'
  /\ \A p \in Providers : providers'[p] = providers[p] \/ p \in wProviders'
  /\ \A kind \in Kinds, k \in Guards :
       adapters'[kind][k] = adapters[kind][k] \/ AdapterEvent(kind, k)'

\* An event is handled by queueing the Guards it is about.
Kept ==
  /\ \A k \in Guards : k \in wGuards \cup queue => k \in wGuards' \cup queue'
  /\ \A kind \in Kinds, k \in Guards :
       AdapterEvent(kind, k) => AdapterEvent(kind, k)' \/ k \in queue'
  /\ \A k \in Guards : (guards[k] # None /\ ProviderKey(k) \in wProviders) =>
       ProviderKey(k) \in wProviders' \/ k \in wGuards' \cup queue'

\* What is due stays due.
LEMMA DueKept ==
  ASSUME Noted, Kept, NEW k \in Guards, Due(k)
  PROVE  Due(k)'
<1>1. CASE k \in wGuards \cup queue
  BY <1>1 DEF Kept, Due
<1>2. CASE \E kind \in Kinds : AdapterEvent(kind, k)
  BY <1>2 DEF Kept, Due
<1>3. CASE guards[k] # None /\ ProviderKey(k) \in wProviders
  BY <1>3 DEF Noted, Kept, Due, ProviderKey
<1>. QED
  BY <1>1, <1>2, <1>3 DEF Due

\* The decision about a Guard for which nothing is due is still the same.
LEMMA DecisionKept ==
  ASSUME TypeOK, TypeOK', Noted, NEW k \in Guards, ~Due(k)', guards[k] # None, NEW img
  PROVE  /\ guards'[k] = guards[k]
         /\ Decision(guards'[k], k, providers', img) = Decision(guards[k], k, providers, img)
         /\ \A kind \in Kinds : adapters'[kind][k] = adapters[kind][k]
<1>1. guards'[k] = guards[k] /\ \A kind \in Kinds : adapters'[kind][k] = adapters[kind][k]
  BY DEF Noted, Due
<1>2. ProviderKey(k) \notin wProviders'
  BY <1>1 DEF Due, ProviderKey
<1>3. Get(providers', ProviderKey(k)) = Get(providers, ProviderKey(k))
  BY <1>2 DEF Get, Noted, TypeOK, ClusterTypeOK
<1>4. fetchProvider(guards[k], k, providers') = fetchProvider(guards[k], k, providers)
  BY <1>3 DEF fetchProvider, ProviderKey
<1>. QED
  BY <1>1, <1>4 DEF Decision

\* So a Guard that is mirrored stays so, or something becomes due.
LEMMA MirroredKept ==
  ASSUME TypeOK, TypeOK', Noted, UNCHANGED image, NEW k \in Guards,
         guards[k] # None, Mirrored(k), ~Due(k)'
  PROVE  Mirrored(k)'
<1>1. /\ guards'[k] = guards[k]
      /\ Decision(guards'[k], k, providers', image) = Decision(guards[k], k, providers, image)
      /\ \A kind \in Kinds : adapters'[kind][k] = adapters[kind][k]
  BY DecisionKept
<1>. QED
  BY <1>1 DEF Mirrored

\* The same for the worker's job, as long as it stands still.
LEMMA JobRightKept ==
  ASSUME TypeOK, TypeOK', Noted, Kept, UNCHANGED <<image, job>>, JobRightOrDue
  PROVE  JobRightOrDue'
<1>. SUFFICES ASSUME job # Idle, ~Due(job.key)' PROVE JobRight'
  BY DEF JobRightOrDue
<1>1. PICK n : n = job.key
  OBVIOUS
<1>2. n \in Guards /\ job.read \in GuardObjects
  BY <1>1 DEF TypeOK, JobTypeOK
<1>3. ~Due(n)'
  BY <1>1
<1>4. JobRight
  BY <1>1, <1>2, <1>3, DueKept DEF JobRightOrDue
<1>5. guards[n] # None
  BY <1>1, <1>2, <1>4, NoObjectAssumption DEF JobRight
<1>6. /\ guards'[n] = guards[n]
      /\ Decision(guards'[n], n, providers', image) = Decision(guards[n], n, providers, image)
      /\ \A kind \in Kinds : adapters'[kind][n] = adapters[kind][n]
  BY <1>2, <1>3, <1>5, DecisionKept
<1>7. Written(job.pc) \subseteq Kinds
  BY DEF Written, Kinds
<1>. QED
  BY <1>1, <1>4, <1>6, <1>7 DEF JobRight

\* The Guards that were mirrored or due, or in the worker's hands, are so
\* after a step in which the worker keeps its Guard or makes it due.
LEMMA MirrorKept ==
  ASSUME TypeOK, TypeOK', Noted, Kept, UNCHANGED image, swallowed \subseteq swallowed',
         MirroredOrDue, NEW n, n = job.key,
         \/ job'.key = n
         \/ n \in Guards => \/ guards'[n] = None \/ n \in swallowed'
                           \/ Mirrored(n)' \/ Due(n)'
  PROVE  MirroredOrDue'
<1>. SUFFICES ASSUME NEW k \in Guards, guards'[k] # None, k \notin swallowed', ~Due(k)',
                     job'.key # k
              PROVE  Mirrored(k)'
  BY DEF MirroredOrDue
<1>1. guards'[k] = guards[k]
  BY DEF Noted, Due
<1>2. CASE n = k
  BY <1>2
<1>3. CASE n # k
  <2>1. ~Due(k)
    BY DueKept
  <2>2. Mirrored(k)
    BY <1>1, <1>3, <2>1 DEF MirroredOrDue
  <2>. QED
    BY <1>1, <2>2, MirroredKept
<1>. QED
  BY <1>2, <1>3

\* A cache that lags behind has its event before it, when no cache moves.
LEMMA SeenKept ==
  ASSUME CachesSeen, Noted, UNCHANGED caches, wGuards \subseteq wGuards',
         wProviders \subseteq wProviders',
         \A kind \in Kinds, k \in Guards : AdapterEvent(kind, k) => AdapterEvent(kind, k)'
  PROVE  CachesSeen'
<1>1. \A k \in Guards : cGuards'[k] = guards'[k] \/ k \in wGuards'
  BY DEF CachesSeen, Noted, caches
<1>2. \A p \in Providers : cProviders'[p] = providers'[p] \/ p \in wProviders'
  BY DEF CachesSeen, Noted, caches
<1>3. \A kind \in Kinds, k \in Guards :
        cAdapters'[kind][k] = adapters'[kind][k] \/ AdapterEvent(kind, k)'
  BY DEF CachesSeen, Noted, caches
<1>. QED
  BY <1>1, <1>2, <1>3 DEF CachesSeen

\* The effect of one write to a child on what is due.
LEMMA AdapterNoted ==
  ASSUME TypeOK, NEW kind \in Kinds, NEW k \in Guards, NEW obj, AdapterChanged(kind, k, obj),
         UNCHANGED <<guards, providers, wGuards, wProviders, queue>>
  PROVE  /\ Noted /\ Kept
         /\ \A c \in Kinds, j \in Guards : AdapterEvent(c, j) => AdapterEvent(c, j)'
         /\ obj # adapters[kind][k] => AdapterEvent(kind, k)'
<1>1. AdaptersTypeOK
  BY DEF TypeOK
<1>2. \A c \in Kinds, j \in Guards : AdapterEvent(c, j) => AdapterEvent(c, j)'
  BY AdapterEvents DEF AdapterEvent
<1>3. obj # adapters[kind][k] => AdapterEvent(kind, k)'
  BY AdapterEvents DEF AdapterEvent
<1>4. \A c \in Kinds, j \in Guards : adapters'[c][j] = adapters[c][j] \/ AdapterEvent(c, j)'
  <2>. SUFFICES ASSUME NEW c \in Kinds, NEW j \in Guards
                PROVE  adapters'[c][j] = adapters[c][j] \/ AdapterEvent(c, j)'
    OBVIOUS
  <2>1. CASE c = kind /\ j = k
    BY <1>1, <1>3, <2>1, AdapterEntries
  <2>2. CASE c # kind \/ j # k
    BY <1>1, <2>2, AdapterEntries
  <2>. QED
    BY <2>1, <2>2
<1>5. Noted
  BY <1>4 DEF Noted
<1>6. Kept
  BY <1>2 DEF Kept, ProviderKey
<1>. QED
  BY <1>2, <1>3, <1>5, <1>6

\* And of one write to a Guard.
LEMMA GuardNoted ==
  ASSUME \A k \in Guards : guards'[k] = guards[k] \/ k \in wGuards', wGuards \subseteq wGuards',
         queue \subseteq queue', UNCHANGED <<providers, adapters, wProviders, wAdapters>>
  PROVE  /\ Noted /\ Kept
         /\ \A c \in Kinds, j \in Guards : AdapterEvent(c, j) => AdapterEvent(c, j)'
<1>1. \A c \in Kinds, j \in Guards : AdapterEvent(c, j) <=> AdapterEvent(c, j)'
  BY DEF AdapterEvent
<1>2. Noted
  BY DEF Noted
<1>3. Kept
  BY <1>1 DEF Kept, ProviderKey
<1>. QED
  BY <1>1, <1>2, <1>3

\* A step that leaves the cluster and the events alone.
LEMMA NothingNoted ==
  ASSUME UNCHANGED <<guards, providers, adapters, watches>>, queue \subseteq queue'
  PROVE  /\ Noted /\ Kept
         /\ \A c \in Kinds, j \in Guards : AdapterEvent(c, j) => AdapterEvent(c, j)'
<1>1. UNCHANGED <<wGuards, wProviders, wAdapters>>
  BY DEF watches
<1>. QED
  BY <1>1, GuardNoted

\* Users, garbage collector and kubelet.
LEMMA BackgroundNoted ==
  ASSUME TypeOK, TypeOK', CachesSeen, Users \/ Cluster
  PROVE  Noted /\ Kept /\ CachesSeen' /\ UNCHANGED <<image, job, swallowed, queue>>
<1>0. UNCHANGED <<image, job, swallowed, queue, caches>>
  BY DEF Users, Cluster, CreateGuard, EditGuard, DeleteGuard, DeleteAdapter, SetProvider,
         StartPods, Collect
<1>1. ASSUME NEW k \in Guards, CreateGuard(k) \/ EditGuard(k) \/ DeleteGuard(k)
      PROVE  Noted /\ Kept /\ CachesSeen'
  <2>1. PICK obj : GuardChanged(k, obj)
    BY <1>1 DEF CreateGuard, EditGuard, DeleteGuard
  <2>2. (\A j \in Guards : guards'[j] = guards[j] \/ j \in wGuards') /\ wGuards \subseteq wGuards'
    BY <2>1 DEF GuardChanged, TypeOK, ClusterTypeOK
  <2>3. UNCHANGED <<providers, adapters, wProviders, wAdapters>>
    BY <1>1 DEF CreateGuard, EditGuard, DeleteGuard
  <2>4. /\ Noted /\ Kept
        /\ \A c \in Kinds, j \in Guards : AdapterEvent(c, j) => AdapterEvent(c, j)'
    BY <1>0, <2>2, <2>3, GuardNoted
  <2>. QED
    BY <1>0, <2>2, <2>3, <2>4, SeenKept
<1>2. ASSUME NEW kind \in Kinds, NEW k \in Guards, DeleteAdapter(kind, k) \/ Collect(kind, k)
      PROVE  Noted /\ Kept /\ CachesSeen'
  <2>1. /\ AdapterChanged(kind, k, None)
        /\ UNCHANGED <<guards, providers, wGuards, wProviders, queue>>
    BY <1>2 DEF DeleteAdapter, Collect
  <2>2. /\ Noted /\ Kept
        /\ \A c \in Kinds, j \in Guards : AdapterEvent(c, j) => AdapterEvent(c, j)'
    BY <2>1, AdapterNoted
  <2>. QED
    BY <1>0, <2>1, <2>2, SeenKept
<1>3. ASSUME NEW p \in Providers, SetProvider(p)
      PROVE  Noted /\ Kept /\ CachesSeen'
  <2>1. /\ \A q \in Providers : providers'[q] = providers[q] \/ q \in wProviders'
        /\ wProviders \subseteq wProviders' /\ UNCHANGED <<guards, adapters, wGuards, wAdapters>>
    BY <1>3 DEF SetProvider, TypeOK, ClusterTypeOK
  <2>2. \A c \in Kinds, j \in Guards : AdapterEvent(c, j) <=> AdapterEvent(c, j)'
    BY <2>1 DEF AdapterEvent
  <2>3. Noted
    BY <2>1 DEF Noted
  <2>4. Kept
    BY <1>0, <2>1, <2>2 DEF Kept, ProviderKey
  <2>. QED
    BY <1>0, <2>1, <2>2, <2>3, <2>4, SeenKept
<1>4. ASSUME NEW k \in Guards, StartPods(k) PROVE Noted /\ Kept /\ CachesSeen'
  BY <1>0, <1>4, NothingNoted, SeenKept DEF StartPods, watches
<1>. QED
  BY <1>0, <1>1, <1>2, <1>3, <1>4 DEF Users, Cluster

\* The informers.
LEMMA InformersNoted ==
  ASSUME TypeOK, TypeOK', CachesSeen, Informers
  PROVE  Noted /\ Kept /\ CachesSeen' /\ UNCHANGED <<image, job, swallowed>> /\ queue \subseteq queue'
<1>0. UNCHANGED <<image, job, swallowed, guards, providers, adapters>> /\ queue \subseteq queue'
  BY DEF Informers, SyncGuard, HandleGuard, SyncAdapter, HandleAdapter, SyncProvider,
         HandleProvider, cluster
<1>1. Noted
  BY <1>0 DEF Noted
<1>2. ASSUME UNCHANGED watches PROVE Kept
  BY <1>0, <1>2, NothingNoted
<1>3. ASSUME NEW k \in Guards, SyncGuard(k) PROVE Kept /\ CachesSeen'
  <2>1. UNCHANGED <<watches, cProviders, cAdapters>> /\ cGuards' = [cGuards EXCEPT ![k] = guards[k]]
    BY <1>3 DEF SyncGuard
  <2>. QED
    BY <1>0, <1>2, <2>1 DEF CachesSeen, AdapterEvent, watches, TypeOK, ClusterTypeOK
<1>4. ASSUME NEW p \in Providers, SyncProvider(p) PROVE Kept /\ CachesSeen'
  <2>1. /\ UNCHANGED <<watches, cGuards, cAdapters>>
        /\ cProviders' = [cProviders EXCEPT ![p] = providers[p]]
    BY <1>4 DEF SyncProvider
  <2>. QED
    BY <1>0, <1>2, <2>1 DEF CachesSeen, AdapterEvent, watches, TypeOK, ClusterTypeOK
<1>5. ASSUME NEW kind \in Kinds, NEW k \in Guards, SyncAdapter(kind, k) PROVE Kept /\ CachesSeen'
  <2>1. UNCHANGED <<watches, cGuards, cProviders>>
    BY <1>5 DEF SyncAdapter
  <2>2. \A c \in Kinds, j \in Guards : AdapterEvent(c, j) <=> AdapterEvent(c, j)'
    BY <2>1 DEF watches, AdapterEvent
  <2>3. ASSUME NEW c \in Kinds, NEW j \in Guards
        PROVE  cAdapters'[c][j] = adapters'[c][j] \/ AdapterEvent(c, j)'
    <3>1. CASE c = kind /\ j = k
      BY <1>0, <1>5, <3>1, CacheEntries DEF TypeOK
    <3>2. CASE c # kind \/ j # k
      BY <1>0, <1>5, <2>2, <3>2, CacheEntries DEF TypeOK, CachesSeen
    <3>. QED
      BY <3>1, <3>2
  <2>. QED
    BY <1>0, <1>2, <2>1, <2>3 DEF CachesSeen, watches
<1>6. ASSUME NEW k \in Guards, HandleGuard(k) PROVE Kept /\ CachesSeen'
  <2>1. /\ cGuards[k] = guards[k] /\ wGuards' = wGuards \ {k} /\ queue' = queue \cup {k}
        /\ UNCHANGED <<caches, wProviders, wAdapters>>
    BY <1>6 DEF HandleGuard
  <2>2. \A c \in Kinds, j \in Guards : AdapterEvent(c, j) <=> AdapterEvent(c, j)'
    BY <2>1 DEF AdapterEvent
  <2>3. Kept
    BY <2>1, <2>2 DEF Kept, ProviderKey
  <2>4. CachesSeen'
    BY <1>0, <2>1, <2>2 DEF CachesSeen, caches
  <2>. QED
    BY <2>3, <2>4
<1>7. ASSUME NEW kind \in Kinds, NEW k \in Guards, HandleAdapter(kind, k) PROVE Kept /\ CachesSeen'
  <2>1. /\ cAdapters[kind][k] = adapters[kind][k] /\ queue' = queue \cup {k}
        /\ UNCHANGED <<caches, wGuards, wProviders>>
    BY <1>7 DEF HandleAdapter
  <2>2. \A c \in Kinds, j \in Guards :
          c # kind \/ j # k => (AdapterEvent(c, j) <=> AdapterEvent(c, j)')
    <3>1. wAdapters' = wAdapters \ {<<kind, k>>}
      BY <1>7 DEF HandleAdapter
    <3>. QED
      BY <3>1 DEF AdapterEvent
  <2>3. Kept
    BY <2>1, <2>2 DEF Kept, ProviderKey
  <2>4. CachesSeen'
    BY <1>0, <2>1, <2>2 DEF CachesSeen, caches
  <2>. QED
    BY <2>3, <2>4
<1>8. ASSUME NEW p \in Providers, HandleProvider(p) PROVE Kept /\ CachesSeen'
  <2>1. /\ cProviders[p] = providers[p] /\ wProviders' = wProviders \ {p}
        /\ queue' = queue \cup findGuardsForProvider(cGuards, p)
        /\ UNCHANGED <<caches, wGuards, wAdapters>>
    BY <1>8 DEF HandleProvider
  <2>2. \A c \in Kinds, j \in Guards : AdapterEvent(c, j) <=> AdapterEvent(c, j)'
    BY <2>1 DEF AdapterEvent
  <2>3. ASSUME NEW k \in Guards, guards[k] # None, ProviderKey(k) = p
        PROVE  k \in wGuards' \cup queue'
    BY <2>1, <2>3 DEF CachesSeen, findGuardsForProvider, ProviderKey
  <2>4. Kept
    BY <2>1, <2>2, <2>3 DEF Kept, ProviderKey
  <2>5. CachesSeen'
    BY <1>0, <2>1, <2>2 DEF CachesSeen, caches
  <2>. QED
    BY <2>4, <2>5
<1>. QED
  BY <1>0, <1>1, <1>3, <1>4, <1>5, <1>6, <1>7, <1>8 DEF Informers

-----------------------------------------------------------------------------
(* A settled Guard mirrors its inputs.                                     *)

\* Reconcile reads the caches: what they have not seen is due.
LEMMA BeginMirror ==
  ASSUME TypeOK, TypeOK', MirrorInv, NEW k \in Guards, BeginNotFound(k) \/ Begin(k)
  PROVE  MirrorInv'
<1>0. CachesSeen /\ MirroredOrDue /\ job = Idle /\ job.key # k
  BY NoneAssumption DEF MirrorInv, BeginNotFound, Begin, Dequeue, Idle, Job
<1>1. /\ UNCHANGED <<guards, providers, adapters, caches, wGuards, wProviders, wAdapters, image>>
      /\ queue' = queue \ {k} /\ swallowed' = swallowed \ {k}
  BY DEF BeginNotFound, Begin, Dequeue, cluster, watches
<1>2. \A c \in Kinds, j \in Guards : AdapterEvent(c, j) <=> AdapterEvent(c, j)'
  BY <1>1 DEF AdapterEvent
<1>3. Noted
  BY <1>1 DEF Noted
<1>4. CachesSeen'
  BY <1>0, <1>1, <1>2, <1>3, SeenKept
<1>5. ASSUME NEW j \in Guards, j # k PROVE (Due(j) => Due(j)') /\ (Mirrored(j) <=> Mirrored(j)')
  <2>1. Due(j) => Due(j)'
    BY <1>1, <1>2, <1>5 DEF Due, ProviderKey
  <2>2. Mirrored(j) <=> Mirrored(j)'
    BY <1>1 DEF Mirrored
  <2>. QED
    BY <2>1, <2>2
<1>6. ASSUME NEW j \in Guards, j # k, guards'[j] # None, j \notin swallowed'
      PROVE  Mirrored(j)' \/ Due(j)'
  <2>1. job.key # j
    BY <1>0, NoneAssumption DEF Idle, Job
  <2>2. guards[j] # None /\ j \notin swallowed
    BY <1>1, <1>6
  <2>. QED
    BY <1>0, <1>5, <1>6, <2>1, <2>2 DEF MirroredOrDue
<1>7. CASE BeginNotFound(k)
  <2>1. cGuards[k] = None /\ job' = Idle
    BY <1>0, <1>7 DEF BeginNotFound
  <2>2. guards'[k] # None => Due(k)'
    BY <1>0, <1>1, <2>1 DEF CachesSeen, Due
  <2>3. MirroredOrDue'
    BY <1>6, <2>2 DEF MirroredOrDue
  <2>4. JobRightOrDue'
    BY <2>1 DEF JobRightOrDue
  <2>. QED
    BY <1>4, <2>3, <2>4 DEF MirrorInv
<1>8. CASE Begin(k)
  <2>. DEFINE d == Decision(cGuards[k], k, cProviders, image)
              pc == IF d.reason = None THEN "configmap" ELSE "notready"
  <2>1. job' = Job(pc, k, cGuards[k], d.config, d.reason, d.message) /\ cGuards[k] # None
    BY <1>8 DEF Begin
  <2>2. /\ job'.key = k /\ job'.read = cGuards[k] /\ job'.pc = pc
        /\ job'.config = d.config /\ job'.reason = d.reason /\ job'.message = d.message
    BY <2>1 DEF Job
  <2>3. MirroredOrDue'
    BY <1>6, <2>2 DEF MirroredOrDue
  <2>4. ASSUME ~Due(k)' PROVE JobRight'
    <3>1. cGuards[k] = guards[k]
      BY <1>0, <1>1, <2>4 DEF CachesSeen, Due
    <3>2. ProviderKey(k) \notin wProviders
      BY <1>1, <2>1, <2>4, <3>1 DEF Due, ProviderKey
    <3>3. Get(cProviders, ProviderKey(k)) = Get(providers, ProviderKey(k))
      BY <1>0, <3>2 DEF Get, CachesSeen, TypeOK, ClusterTypeOK
    <3>4. d = Decision(guards'[k], k, providers', image')
      BY <1>1, <3>1, <3>3 DEF Decision, fetchProvider, ProviderKey
    <3>5. Written("configmap") = {}
      BY DEF Written
    <3>. HIDE DEF d
    <3>. QED
      BY <1>1, <2>2, <3>1, <3>4, <3>5 DEF JobRight
  <2>5. JobRightOrDue'
    BY <2>2, <2>4 DEF JobRightOrDue
  <2>. QED
    BY <1>4, <2>3, <2>5 DEF MirrorInv
<1>. QED
  BY <1>7, <1>8

\* The worker writes a child.  If nothing is due its cached copy is the live
\* one, and what it leaves is what it wanted.
LEMMA EnsureMirror ==
  ASSUME TypeOK, TypeOK', MirrorInv, NEW kind \in Kinds, NEW next \in Kinds \cup {"ready"},
         Written(next) \subseteq Written(kind) \cup {kind}, ensure(kind, next)
  PROVE  MirrorInv'
<1>1. PICK n : n = job.key
  OBVIOUS
<1>. DEFINE want == AdapterFor(kind, n, job.read, job.config, image)
            read == cAdapters[kind][n]
            live == adapters[kind][n]
            new  == CreateOrPatch(read, live, want)
<1>2. /\ job.pc = kind /\ job # Idle /\ n \in Guards
      /\ want = [f \in DOMAIN want |-> want[f]]
      /\ \/ new = Failed /\ Fail /\ UNCHANGED <<adapters, wAdapters>>
         \/ /\ new # Failed /\ AdapterChanged(kind, n, new)
            /\ \/ job' = Job(next, n, job.read, job.config, None, None)
               \/ Fail
      /\ UNCHANGED <<guards, providers, caches, wGuards, wProviders, image, queue, swallowed>>
  BY <1>1, EnsureSteps, Zenon
<1>. HIDE DEF want, new
<1>3. /\ Noted /\ Kept
      /\ \A c \in Kinds, j \in Guards : AdapterEvent(c, j) => AdapterEvent(c, j)'
  <2>1. CASE UNCHANGED <<adapters, wAdapters>>
    BY <1>2, <2>1, NothingNoted DEF watches
  <2>2. CASE AdapterChanged(kind, n, new)
    BY <1>2, <2>2, AdapterNoted
  <2>. QED
    BY <1>2, <2>1, <2>2
<1>4. CachesSeen'
  BY <1>2, <1>3, SeenKept DEF MirrorInv
<1>5. job'.key = n /\ job'.read = job.read /\ job'.config = job.config
  BY <1>1, <1>2 DEF Fail, Job
<1>6. MirroredOrDue'
  BY <1>1, <1>2, <1>3, <1>5, MirrorKept DEF MirrorInv
<1>7. ASSUME ~Due(n)' PROVE JobRight'
  <2>1. ~Due(n)
    BY <1>2, <1>3, <1>7, DueKept
  <2>2. JobRight
    BY <1>1, <1>2, <2>1 DEF MirrorInv, JobRightOrDue
  <2>3. job.read = guards[n] /\ guards[n] # None
    BY <1>1, <1>2, <2>2, NoObjectAssumption DEF JobRight, TypeOK, JobTypeOK
  <2>4. CASE Fail
    BY <1>2, <1>5, <2>3, <2>4 DEF Fail, Job, JobRight
  <2>5. CASE /\ new # Failed /\ AdapterChanged(kind, n, new)
             /\ job' = Job(next, n, job.read, job.config, None, None)
    <3>1. read = live
      BY <1>2, <2>1 DEF MirrorInv, CachesSeen, Due
    <3>2. new = want
      BY <1>2, <2>5, <3>1, PatchLive DEF new
    <3>3. adapters'[kind][n] = want
      BY <1>2, <2>5, <3>2, AdapterEntries DEF TypeOK
    <3>4. \A c \in Kinds : c # kind => adapters'[c][n] = adapters[c][n]
      BY <1>2, <2>5, AdapterEntries DEF TypeOK
    <3>5. /\ Decision(guards[n], n, providers, image).reason = None
          /\ Decision(guards[n], n, providers, image).config = job.config
          /\ \A c \in Written(kind) : adapters[c][n] = AdapterFor(c, n, job.read, job.config, image)
      BY <1>1, <1>2, <2>2 DEF JobRight, Kinds
    <3>6. Written(next) \subseteq Kinds
      BY DEF Written, Kinds
    <3>7. ASSUME NEW c \in Written(next)
          PROVE  adapters'[c][n] = AdapterFor(c, n, job.read, job.config, image)
      BY <3>3, <3>4, <3>5, <3>6, <3>7 DEF want
    <3>8. job'.pc = next /\ next # "notready"
      BY <2>5 DEF Job, Kinds
    <3>. QED
      BY <1>2, <1>5, <2>3, <3>5, <3>7, <3>8 DEF JobRight
  <2>. QED
    BY <1>2, <2>4, <2>5
<1>8. JobRightOrDue'
  BY <1>5, <1>7 DEF JobRightOrDue
<1>. QED
  BY <1>4, <1>6, <1>8 DEF MirrorInv

\* Reconcile ends with the Guard queued, gone or forgotten.
LEMMA GiveUpMirror ==
  ASSUME TypeOK, TypeOK', MirrorInv, job # Idle, job' = Idle,
         UNCHANGED <<guards, providers, adapters, caches, watches, image>>,
         queue \subseteq queue', swallowed \subseteq swallowed', NEW n, n = job.key,
         n \in queue' \cup swallowed'
  PROVE  MirrorInv'
<1>1. /\ Noted /\ Kept
      /\ \A c \in Kinds, j \in Guards : AdapterEvent(c, j) => AdapterEvent(c, j)'
  BY NothingNoted
<1>2. CachesSeen'
  BY <1>1, SeenKept DEF MirrorInv, watches
<1>3. n \in swallowed' \/ Due(n)'
  BY DEF Due
<1>4. MirroredOrDue'
  BY <1>1, <1>3, MirrorKept DEF MirrorInv
<1>5. JobRightOrDue'
  BY DEF JobRightOrDue
<1>. QED
  BY <1>2, <1>4, <1>5 DEF MirrorInv

\* Reconcile ends with a status patch.
LEMMA StatusMirror ==
  ASSUME TypeOK, TypeOK', MirrorInv, job # Idle, job' = Idle, guards[job.key] # None,
         NEW status \in {"True", "False"}, NEW reason \in Reasons, NEW message \in Messages,
         setReadyCondition(status, reason, message),
         UNCHANGED <<providers, adapters, caches, wProviders, wAdapters, image, swallowed>>,
         queue \subseteq queue',
         \/ job.key \in queue'
         \/ job.pc = "ready" /\ status = "True" /\ reason = guardReasonReconciled /\ message = None
         \/ /\ job.pc = "notready" /\ status = "False"
            /\ reason = job.reason /\ message = job.message
            /\ reason # guardReasonReconcileFailed
  PROVE  MirrorInv'
<1>1. PICK n : n = job.key
  OBVIOUS
<1>. DEFINE cond == Condition(job.read, status, reason, message)
<1>2. /\ n \in Guards /\ job.read \in GuardObjects /\ guards'[n] \in GuardObjects
      /\ guards'[n].status.cond = IF cond = job.read.status.cond THEN guards[n].status.cond ELSE cond
      /\ \A k \in Guards \ {n} : guards'[k] = guards[k]
      /\ wGuards \subseteq wGuards' /\ (guards'[n] # guards[n] => n \in wGuards')
  <2>1. n \in Guards /\ job.read \in GuardObjects
    BY <1>1 DEF TypeOK, JobTypeOK
  <2>. QED
    BY <1>1, <2>1, StatusPatched
<1>. HIDE DEF cond
<1>3. /\ Noted /\ Kept
      /\ \A c \in Kinds, j \in Guards : AdapterEvent(c, j) => AdapterEvent(c, j)'
  BY <1>2, GuardNoted
<1>4. CachesSeen'
  BY <1>2, <1>3, SeenKept DEF MirrorInv
<1>5. JobRightOrDue'
  BY DEF JobRightOrDue
<1>6. ASSUME ~Due(n)' PROVE Mirrored(n)'
  <2>1. guards'[n] = guards[n] /\ n \notin queue'
    BY <1>2, <1>6 DEF Due
  <2>2. ~Due(n)
    BY <1>2, <1>3, <1>6, DueKept
  <2>3. JobRight
    BY <1>1, <2>2 DEF MirrorInv, JobRightOrDue
  <2>4. job.read = guards[n]
    BY <1>1, <2>3 DEF JobRight
  <2>5. guards'[n].status.cond = Condition(guards[n], status, reason, message)
    BY <1>2, <2>4 DEF cond
  <2>6. UNCHANGED <<providers, adapters, image>>
    OBVIOUS
  <2>7. CASE /\ job.pc = "ready" /\ status = "True" /\ reason = guardReasonReconciled
             /\ message = None
    <3>1. /\ Decision(guards[n], n, providers, image).reason = None
          /\ Decision(guards[n], n, providers, image).config = job.config
          /\ \A c \in Kinds : adapters[c][n] = AdapterFor(c, n, guards[n], job.config, image)
      BY <1>1, <2>3, <2>4, <2>7 DEF JobRight, Written
    <3>. QED
      BY <2>1, <2>5, <2>6, <2>7, <3>1 DEF Mirrored
  <2>8. CASE /\ job.pc = "notready" /\ status = "False"
             /\ reason = job.reason /\ message = job.message
             /\ reason # guardReasonReconcileFailed
    <3>1. /\ Decision(guards[n], n, providers, image).reason = reason
          /\ Decision(guards[n], n, providers, image).message = message
      BY <1>1, <2>3, <2>4, <2>8 DEF JobRight
    <3>2. reason # None
      BY NoObjectAssumption
    <3>. QED
      BY <2>1, <2>5, <2>6, <2>8, <3>1, <3>2 DEF Mirrored
  <2>. QED
    BY <1>1, <2>1, <2>7, <2>8
<1>7. MirroredOrDue'
  BY <1>1, <1>3, <1>6, MirrorKept DEF MirrorInv
<1>. QED
  BY <1>4, <1>5, <1>7 DEF MirrorInv

\* The ways in which Reconcile ends.
LEMMA ReturnMirror ==
  ASSUME TypeOK, TypeOK', MirrorInv, WriteReady \/ WriteNotReady \/ WriteNotReadyNotFound
  PROVE  MirrorInv'
<1>1. CASE WriteReady
  <2>1. /\ job.pc = "ready"
        /\ UNCHANGED <<providers, adapters, caches, wProviders, wAdapters, image, swallowed>>
    BY <1>1 DEF WriteReady
  <2>2. job # Idle
    BY <2>1, AtWork
  <2>3. Return(TRUE) \/ Return(FALSE)
    BY <1>1, Zenon DEF WriteReady
  <2>4. job' = Idle /\ queue \subseteq queue'
    BY <2>3 DEF Return
  <2>5. CASE guards[job.key] = None
    <3>1. Return(TRUE) /\ UNCHANGED <<guards, wGuards>>
      BY <1>1, <2>5 DEF WriteReady
    <3>2. job.key \in queue'
      BY <3>1 DEF Return
    <3>. QED
      BY <2>1, <2>2, <2>4, <3>1, <3>2, GiveUpMirror DEF watches
  <2>6. CASE guards[job.key] # None
    <3>1. setReadyCondition("True", guardReasonReconciled, None)
      BY <1>1, <2>6 DEF WriteReady
    <3>2. guardReasonReconciled \in Reasons /\ None \in Messages
      BY DEF Reasons, Messages
    <3>. QED
      BY <2>1, <2>2, <2>4, <2>6, <3>1, <3>2, StatusMirror
  <2>. QED
    BY <2>5, <2>6
<1>2. CASE WriteNotReady
  <2>1. /\ job.pc = "notready" /\ guards[job.key] # None
        /\ setReadyCondition("False", job.reason, job.message)
        /\ UNCHANGED <<providers, adapters, caches, wProviders, wAdapters, image, swallowed>>
        /\ Return(~isTerminalReason(job.reason))
    BY <1>2 DEF WriteNotReady
  <2>2. job # Idle /\ job.reason \in Reasons /\ job.message \in Messages
    BY <2>1, AtWork
  <2>3. job' = Idle /\ queue \subseteq queue' /\ (~isTerminalReason(job.reason) => job.key \in queue')
    BY <2>1 DEF Return
  <2>4. isTerminalReason(job.reason) => job.reason # guardReasonReconcileFailed
    BY DEF isTerminalReason, guardReasonAdapterNotConfigured, guardReasonProviderNotFound,
       guardReasonUnsupportedProviderType, guardReasonInvalidConfig, guardReasonReconcileFailed
  <2>. QED
    BY <2>1, <2>2, <2>3, <2>4, StatusMirror
<1>3. CASE WriteNotReadyNotFound
  <2>1. /\ job.pc = "notready" /\ NotReadyNotWritten
        /\ UNCHANGED <<cluster, caches, watches, image>>
    BY <1>3 DEF WriteNotReadyNotFound
  <2>2. job # Idle
    BY <2>1, AtWork
  <2>3. /\ job' = Idle /\ queue \subseteq queue' /\ swallowed \subseteq swallowed'
        /\ job.key \in queue' \cup swallowed'
    BY <2>1 DEF NotReadyNotWritten, Return
  <2>. QED
    BY <2>1, <2>2, <2>3, GiveUpMirror DEF cluster
<1>. QED
  BY <1>1, <1>2, <1>3

\* A failing call.
LEMMA CallFailsMirror ==
  ASSUME TypeOK, TypeOK', MirrorInv, CallFails
  PROVE  MirrorInv'
<1>1. /\ job.pc \in Kinds \cup {"ready", "notready"}
      /\ UNCHANGED <<guards, providers, adapters, caches, watches, image>>
  BY DEF CallFails, cluster
<1>2. job # Idle
  BY <1>1, AtWork
<1>3. \/ Fail /\ UNCHANGED <<queue, swallowed>>
      \/ Return(TRUE) /\ UNCHANGED swallowed
      \/ NotReadyNotWritten
  BY Zenon DEF CallFails
<1>4. CASE (Return(TRUE) /\ UNCHANGED swallowed) \/ NotReadyNotWritten
  <2>1. /\ job' = Idle /\ queue \subseteq queue' /\ swallowed \subseteq swallowed'
        /\ job.key \in queue' \cup swallowed'
    BY <1>4 DEF NotReadyNotWritten, Return
  <2>. QED
    BY <1>1, <1>2, <2>1, GiveUpMirror
<1>5. CASE Fail /\ UNCHANGED <<queue, swallowed>>
  <2>1. PICK n : n = job.key
    OBVIOUS
  <2>2. /\ job'.key = n /\ job'.read = job.read /\ job'.pc = "notready"
        /\ job'.reason = guardReasonReconcileFailed
    BY <1>5, <2>1 DEF Fail, Job
  <2>3. /\ Noted /\ Kept
        /\ \A c \in Kinds, j \in Guards : AdapterEvent(c, j) => AdapterEvent(c, j)'
    BY <1>1, <1>5, NothingNoted
  <2>4. CachesSeen'
    BY <1>1, <2>3, SeenKept DEF MirrorInv, watches
  <2>5. MirroredOrDue'
    BY <1>1, <1>5, <2>1, <2>2, <2>3, MirrorKept DEF MirrorInv
  <2>6. ASSUME ~Due(n)' PROVE JobRight'
    <3>1. n \in Guards
      BY <1>2, <2>1 DEF TypeOK, JobTypeOK
    <3>2. JobRight
      BY <1>2, <2>1, <2>3, <2>6, <3>1, DueKept DEF MirrorInv, JobRightOrDue
    <3>. QED
      BY <1>1, <2>1, <2>2, <3>2 DEF JobRight
  <2>7. JobRightOrDue'
    BY <2>2, <2>6 DEF JobRightOrDue
  <2>. QED
    BY <2>4, <2>5, <2>7 DEF MirrorInv
<1>. QED
  BY <1>3, <1>4, <1>5

\* After a restart every Guard is queued.
LEMMA RestartMirror ==
  ASSUME TypeOK, Restart
  PROVE  MirrorInv'
<1>1. /\ job' = Idle /\ cGuards' = guards' /\ cProviders' = providers' /\ cAdapters' = adapters'
      /\ \A k \in Guards : guards'[k] # None => k \in queue'
  BY DEF Restart, cluster
<1>2. CachesSeen' /\ JobRightOrDue'
  BY <1>1 DEF CachesSeen, JobRightOrDue
<1>3. MirroredOrDue'
  BY <1>1 DEF MirroredOrDue, Due
<1>. QED
  BY <1>2, <1>3 DEF MirrorInv

\* All steps together.
LEMMA MirrorStep == TypeOK /\ TypeOK' /\ MirrorInv /\ [Next]_vars => MirrorInv'
<1>. SUFFICES ASSUME TypeOK, TypeOK', MirrorInv, Next \/ UNCHANGED vars PROVE MirrorInv'
  OBVIOUS
<1>1. ASSUME Noted, Kept, CachesSeen', UNCHANGED <<image, job, swallowed>> PROVE MirrorInv'
  <2>1. MirroredOrDue'
    BY <1>1, MirrorKept DEF MirrorInv
  <2>2. JobRightOrDue'
    BY <1>1, JobRightKept DEF MirrorInv
  <2>. QED
    BY <1>1, <2>1, <2>2 DEF MirrorInv
<1>2. CASE UNCHANGED vars
  <2>1. UNCHANGED <<guards, providers, adapters, caches, watches, image, job, swallowed, queue>>
    BY <1>2 DEF vars, cluster
  <2>2. /\ Noted /\ Kept
        /\ \A c \in Kinds, j \in Guards : AdapterEvent(c, j) => AdapterEvent(c, j)'
    BY <2>1, NothingNoted
  <2>3. CachesSeen'
    BY <2>1, <2>2, SeenKept DEF MirrorInv, watches
  <2>. QED
    BY <1>1, <2>1, <2>2, <2>3
<1>3. CASE Users \/ Cluster
  BY <1>1, <1>3, BackgroundNoted DEF MirrorInv
<1>4. CASE Informers
  BY <1>1, <1>4, InformersNoted DEF MirrorInv
<1>5. CASE Proceed
  <2>1. CASE ensureConfigMap
    <3>1. Written("deployment") \subseteq Written("configmap") \cup {"configmap"}
      BY DEF Written
    <3>. QED
      BY <2>1, <3>1, EnsureMirror DEF ensureConfigMap, Kinds
  <2>2. CASE ensureDeployment
    <3>1. Written("service") \subseteq Written("deployment") \cup {"deployment"}
      BY DEF Written
    <3>. QED
      BY <2>2, <3>1, EnsureMirror DEF ensureDeployment, Kinds
  <2>3. CASE ensureService
    <3>1. Written("ready") \subseteq Written("service") \cup {"service"}
      BY DEF Written, Kinds
    <3>. QED
      BY <2>3, <3>1, EnsureMirror DEF ensureService, Kinds
  <2>. QED
    BY <1>5, <2>1, <2>2, <2>3, ReturnMirror DEF Proceed
<1>. QED
  BY <1>2, <1>3, <1>4, <1>5, BeginMirror, CallFailsMirror, RestartMirror DEF Next, Worker

\* At first every cache is up to date, and every Guard queued.
LEMMA MirrorInit == Init => MirrorInv
<1>. SUFFICES ASSUME Init PROVE MirrorInv
  OBVIOUS
<1>1. /\ job = Idle /\ cGuards = guards /\ cProviders = providers /\ cAdapters = adapters
      /\ \A k \in Guards : guards[k] # None => k \in queue
  BY DEF Init
<1>2. CachesSeen /\ JobRightOrDue
  BY <1>1 DEF CachesSeen, JobRightOrDue
<1>3. MirroredOrDue
  BY <1>1 DEF MirroredOrDue, Due
<1>. QED
  BY <1>2, <1>3 DEF MirrorInv

\* The invariant of the argument holds throughout.
THEOREM MirrorInvariant == Spec => []MirrorInv
BY MirrorInit, MirrorStep, TypeCorrect, PTL DEF Spec

\* Nothing is due for what has settled.
LEMMA MirrorSettles == MirrorInv => SettledMirrors
<1>1. ASSUME NEW k \in Guards, Settled(k) PROVE ~Due(k) /\ job.key # k
  BY <1>1 DEF Settled, EventsHandled, Due, AdapterEvent
<1>. QED
  BY <1>1 DEF MirrorInv, MirroredOrDue, SettledMirrors

\* Once all events of a Guard are handled and no Reconcile of it is queued or
\* under way, its status and its adapter triple are those of its spec, its
\* provider and the image flag: no order of stale reads, failed calls, lost
\* answers and restarts leaves it otherwise, apart from a swallowed failure.
THEOREM AlwaysSettlesMirrored == Spec => []SettledMirrors
BY MirrorSettles, MirrorInvariant, PTL

-----------------------------------------------------------------------------
(* A Guard that says Ready has its adapter.                                *)

\* A child is there or due after every step that notes what it changes.
LEMMA AdapterOrDueKept ==
  ASSUME Noted, Kept, NEW kind \in Kinds, NEW k \in Guards, AdapterOrDue(kind, k)
  PROVE  AdapterOrDue(kind, k)'
<1>1. CASE AdapterEvent(kind, k) \/ k \in wGuards \cup queue
  BY <1>1 DEF Kept, AdapterOrDue
<1>2. CASE AdapterHere(kind, k)
  BY <1>2 DEF Noted, AdapterOrDue, AdapterHere, Owner
<1>. QED
  BY <1>1, <1>2 DEF AdapterOrDue

\* The kinds that are written before the worker gets to a step.
LEMMA WrittenKinds ==
  /\ \A pc : Written(pc) \subseteq Kinds
  /\ Written("idle") = {} /\ Written("notready") = {} /\ Written("configmap") = {}
  /\ Written("deployment") = Written("configmap") \cup {"configmap"}
  /\ Written("service") = Written("deployment") \cup {"deployment"}
  /\ Written("ready") = Written("service") \cup {"service"} /\ Written("ready") = Kinds
BY DEF Written, Kinds

\* So is that of a Guard that says Ready and is not in the worker's hands, and
\* the worker either keeps its Guard or leaves it right.
LEMMA ReadyKept ==
  ASSUME TypeOK, TypeOK', Noted, Kept, swallowed \subseteq swallowed', ReadyHasAdapter,
         NEW n, n = job.key,
         \/ job'.key = n
         \/ n \in Guards => \/ n \in swallowed' \/ ~SaysReady(n)'
                         \/ \A kind \in Kinds : AdapterOrDue(kind, n)'
  PROVE  ReadyHasAdapter'
<1>. SUFFICES ASSUME NEW k \in Guards, SaysReady(k)', k \notin swallowed',
                     NEW kind \in Kinds, ~AdapterOrDue(kind, k)', job'.key # k
              PROVE  FALSE
  BY DEF ReadyHasAdapter
<1>1. guards'[k] = guards[k]
  BY DEF Noted, AdapterOrDue
<1>2. SaysReady(k) /\ k \notin swallowed
  BY <1>1 DEF SaysReady
<1>3. ~AdapterOrDue(kind, k)
  BY AdapterOrDueKept
<1>4. k = n
  BY <1>2, <1>3 DEF ReadyHasAdapter
<1>. QED
  BY <1>4

\* A step in which the worker keeps its copy of the Guard keeps ReadStatusSeen.
LEMMA ReadSeenKept ==
  ASSUME TypeOK, Noted, Kept, ReadStatusSeen, job # Idle,
         NEW n, n = job.key, job'.key = n, job'.read = job.read
  PROVE  ReadStatusSeen'
<1>1. n \in Guards
  BY DEF TypeOK, JobTypeOK
<1>2. CASE n \in wGuards \cup queue
  BY <1>1, <1>2 DEF Kept, ReadStatusSeen
<1>3. CASE job.read = guards[n]
  BY <1>1, <1>3 DEF Noted, ReadStatusSeen
<1>. QED
  BY <1>2, <1>3 DEF ReadStatusSeen

\* The worker stands still.
LEMMA AdapterInvKept ==
  ASSUME TypeOK, TypeOK', AdapterInv, Noted, Kept, CachesSeen', UNCHANGED <<job, swallowed>>
  PROVE  AdapterInv'
<1>1. PICK n : n = job.key
  OBVIOUS
<1>2. ReadyHasAdapter'
  BY <1>1, ReadyKept DEF AdapterInv
<1>3. ReadStatusSeen'
  <2>1. CASE job = Idle
    BY <2>1 DEF ReadStatusSeen
  <2>2. CASE job # Idle
    BY <1>1, <2>2, ReadSeenKept DEF AdapterInv
  <2>. QED
    BY <2>1, <2>2
<1>4. WrittenOrDue'
  <2>. SUFFICES ASSUME NEW kind \in Written(job.pc) PROVE AdapterOrDue(kind, n)'
    BY <1>1 DEF WrittenOrDue
  <2>1. kind \in Kinds /\ job # Idle
    BY WrittenKinds DEF Idle, Job
  <2>2. n \in Guards
    BY <1>1, <2>1 DEF TypeOK, JobTypeOK
  <2>3. AdapterOrDue(kind, n)
    BY <1>1 DEF AdapterInv, WrittenOrDue
  <2>. QED
    BY <2>1, <2>2, <2>3, AdapterOrDueKept
<1>. QED
  BY <1>2, <1>3, <1>4 DEF AdapterInv

\* Reconcile reads its copy of the Guard; one it does not find is gone, or due.
LEMMA BeginAdapter ==
  ASSUME TypeOK, TypeOK', AdapterInv, CachesSeen', NEW k \in Guards, BeginNotFound(k) \/ Begin(k)
  PROVE  AdapterInv'
<1>0. CachesSeen /\ ReadyHasAdapter /\ job = Idle /\ job.key # k
  BY NoneAssumption DEF AdapterInv, BeginNotFound, Begin, Dequeue, Idle, Job
<1>1. /\ UNCHANGED <<guards, adapters, cGuards, wGuards, wAdapters>>
      /\ queue' = queue \ {k} /\ swallowed' = swallowed \ {k}
  BY DEF BeginNotFound, Begin, Dequeue, cluster, caches, watches
<1>2. ASSUME NEW j \in Guards, j # k, SaysReady(j)', j \notin swallowed', NEW kind \in Kinds
      PROVE  AdapterOrDue(kind, j)'
  <2>1. job.key # j
    BY <1>0, NoneAssumption DEF Idle, Job
  <2>2. SaysReady(j) /\ j \notin swallowed
    BY <1>1, <1>2 DEF SaysReady
  <2>3. AdapterOrDue(kind, j)
    BY <1>0, <2>1, <2>2 DEF ReadyHasAdapter
  <2>4. AdapterEvent(kind, j) <=> AdapterEvent(kind, j)'
    BY <1>1 DEF AdapterEvent
  <2>5. AdapterHere(kind, j) <=> AdapterHere(kind, j)'
    BY <1>1 DEF AdapterHere, Owner
  <2>. QED
    BY <1>1, <1>2, <2>3, <2>4, <2>5 DEF AdapterOrDue
<1>3. CASE BeginNotFound(k)
  <2>1. cGuards[k] = None /\ job' = Idle
    BY <1>0, <1>3 DEF BeginNotFound
  <2>2. SaysReady(k)' => \A kind \in Kinds : AdapterOrDue(kind, k)'
    BY <1>0, <1>1, <2>1 DEF CachesSeen, SaysReady, AdapterOrDue
  <2>3. ReadyHasAdapter'
    BY <1>2, <2>2 DEF ReadyHasAdapter
  <2>4. WrittenOrDue' /\ ReadStatusSeen'
    BY <2>1, WrittenKinds DEF WrittenOrDue, ReadStatusSeen, Idle, Job
  <2>. QED
    BY <2>3, <2>4 DEF AdapterInv
<1>4. CASE Begin(k)
  <2>1. job'.key = k /\ job'.read = cGuards[k] /\ job'.pc \in {"configmap", "notready"}
    BY <1>4 DEF Begin, Job
  <2>2. ReadyHasAdapter'
    BY <1>2, <2>1 DEF ReadyHasAdapter
  <2>3. WrittenOrDue'
    BY <2>1, WrittenKinds DEF WrittenOrDue
  <2>4. ReadStatusSeen'
    BY <1>0, <1>1, <2>1 DEF CachesSeen, ReadStatusSeen
  <2>. QED
    BY <2>2, <2>3, <2>4 DEF AdapterInv
<1>. QED
  BY <1>3, <1>4

\* The worker writes a child.  It is then there for the Guard that was read,
\* unless the cached copy it found in order is out of date; its event is then
\* still to come.
LEMMA EnsureAdapter ==
  ASSUME TypeOK, TypeOK', AdapterInv, CachesSeen', NEW kind \in Kinds, NEW next,
         <<kind, next>> \in {<<"configmap", "deployment">>, <<"deployment", "service">>,
                             <<"service", "ready">>},
         ensure(kind, next)
  PROVE  AdapterInv'
<1>0. next \in Kinds \cup {"ready"} /\ Written(next) = Written(kind) \cup {kind}
  BY WrittenKinds DEF Kinds
<1>1. PICK n : n = job.key
  OBVIOUS
<1>. DEFINE want == AdapterFor(kind, n, job.read, job.config, image)
            read == cAdapters[kind][n]
            live == adapters[kind][n]
            new  == CreateOrPatch(read, live, want)
<1>2. /\ job.pc = kind /\ job # Idle /\ n \in Guards
      /\ want = [f \in DOMAIN want |-> want[f]]
      /\ \/ new = Failed /\ Fail /\ UNCHANGED <<adapters, wAdapters>>
         \/ /\ new # Failed /\ AdapterChanged(kind, n, new)
            /\ \/ job' = Job(next, n, job.read, job.config, None, None)
               \/ Fail
      /\ UNCHANGED <<guards, providers, caches, wGuards, wProviders, image, queue, swallowed>>
  BY <1>0, <1>1, EnsureSteps, Zenon
<1>3. want \in Children(kind) /\ want.owner.key = n
  <2>1. job.read \in GuardObjects /\ job.config \in Configs /\ image # None
    BY <1>2, AtWork DEF Kinds
  <2>. QED
    BY <1>2, <2>1, WantedChild DEF TypeOK, ClusterTypeOK
<1>. HIDE DEF want, new
<1>4. Noted /\ Kept
  <2>1. CASE UNCHANGED <<adapters, wAdapters>>
    BY <1>2, <2>1, NothingNoted DEF watches
  <2>2. CASE AdapterChanged(kind, n, new)
    BY <1>2, <2>2, AdapterNoted
  <2>. QED
    BY <1>2, <2>1, <2>2
<1>5. job'.key = n /\ job'.read = job.read
  BY <1>1, <1>2 DEF Fail, Job
<1>6. ReadyHasAdapter' /\ ReadStatusSeen'
  BY <1>1, <1>2, <1>4, <1>5, ReadyKept, ReadSeenKept DEF AdapterInv
<1>7. WrittenOrDue'
  <2>. SUFFICES ASSUME NEW c \in Written(job'.pc) PROVE AdapterOrDue(c, n)'
    BY <1>5 DEF WrittenOrDue
  <2>1. job'.pc = next /\ new # Failed /\ AdapterChanged(kind, n, new)
    BY <1>2, WrittenKinds DEF Fail, Job
  <2>2. CASE c \in Written(kind)
    <3>1. AdapterOrDue(c, n) /\ c \in Kinds
      BY <1>1, <1>2, <2>2, WrittenKinds DEF AdapterInv, WrittenOrDue
    <3>. QED
      BY <1>2, <1>4, <3>1, AdapterOrDueKept
  <2>3. CASE c = kind
    <3>1. adapters'[kind][n] = new /\ (new # live => AdapterEvent(kind, n)')
      BY <1>2, <2>1, AdapterEntries, AdapterEvents DEF TypeOK, AdapterEvent
    <3>2. CASE read # live
      <4>1. AdapterOrDue(kind, n)
        BY <1>2, <3>2 DEF AdapterInv, CachesSeen, AdapterOrDue
      <4>. QED
        BY <1>2, <1>4, <2>3, <4>1, AdapterOrDueKept
    <3>3. CASE read = live
      <4>1. new = want
        BY <1>2, <2>1, <3>3, PatchLive DEF new
      <4>2. want # None /\ want.owner = Owner(n, job.read)
        BY <1>3, NoObjectAssumption
           DEF want, AdapterFor, ConfigMapFor, DeploymentFor, ServiceFor, Kinds
      <4>3. CASE n \in wGuards \cup queue
        BY <1>2, <1>4, <2>3, <4>3 DEF Kept, AdapterOrDue
      <4>4. CASE job.read = guards[n]
        <5>1. guards'[n] = job.read /\ job.read # None
          BY <1>2, <4>4, AtWork, NoObjectAssumption
        <5>. QED
          BY <2>3, <3>1, <4>1, <4>2, <5>1 DEF AdapterOrDue, AdapterHere
      <4>. QED
        BY <1>1, <1>2, <4>3, <4>4 DEF AdapterInv, ReadStatusSeen
    <3>. QED
      BY <3>2, <3>3
  <2>. QED
    BY <1>0, <2>1, <2>2, <2>3
<1>. QED
  BY <1>6, <1>7 DEF AdapterInv

\* Reconcile ends with the Guard queued or forgotten.
LEMMA GiveUpAdapter ==
  ASSUME TypeOK, TypeOK', AdapterInv, CachesSeen', job # Idle, job' = Idle,
         UNCHANGED <<guards, providers, adapters, watches>>,
         queue \subseteq queue', swallowed \subseteq swallowed', NEW n, n = job.key,
         n \in queue' \cup swallowed'
  PROVE  AdapterInv'
<1>1. Noted /\ Kept
  BY NothingNoted
<1>2. n \in swallowed' \/ \A kind \in Kinds : AdapterOrDue(kind, n)'
  BY DEF AdapterOrDue
<1>3. ReadyHasAdapter'
  BY <1>1, <1>2, ReadyKept DEF AdapterInv
<1>4. WrittenOrDue' /\ ReadStatusSeen'
  BY WrittenKinds DEF WrittenOrDue, ReadStatusSeen, Idle, Job
<1>. QED
  BY <1>3, <1>4 DEF AdapterInv

\* Reconcile ends with a status patch: Ready once the children were written,
\* not ready over the status that was read.
LEMMA StatusAdapter ==
  ASSUME TypeOK, TypeOK', AdapterInv, CachesSeen', job # Idle, job' = Idle,
         guards[job.key] # None,
         NEW status \in {"True", "False"}, NEW reason \in Reasons, NEW message \in Messages,
         setReadyCondition(status, reason, message),
         UNCHANGED <<providers, adapters, wProviders, wAdapters, swallowed>>,
         queue \subseteq queue',
         job.pc = "ready" \/ status = "False"
  PROVE  AdapterInv'
<1>1. PICK n : n = job.key
  OBVIOUS
<1>. DEFINE cond == Condition(job.read, status, reason, message)
<1>2. /\ n \in Guards /\ guards'[n] \in GuardObjects
      /\ guards'[n].status.cond = IF cond = job.read.status.cond THEN guards[n].status.cond ELSE cond
      /\ \A k \in Guards \ {n} : guards'[k] = guards[k]
      /\ wGuards \subseteq wGuards' /\ (guards'[n] # guards[n] => n \in wGuards')
  <2>1. n \in Guards
    BY <1>1 DEF TypeOK, JobTypeOK
  <2>. QED
    BY <1>1, <2>1, StatusPatched
<1>3. cond.status = status
  BY DEF Condition
<1>. HIDE DEF cond
<1>4. Noted /\ Kept
  BY <1>2, GuardNoted
<1>5. ~SaysReady(n)' \/ \A kind \in Kinds : AdapterOrDue(kind, n)'
  <2>1. CASE job.pc = "ready"
    <3>1. \A kind \in Kinds : AdapterOrDue(kind, n)
      BY <1>1, <2>1, WrittenKinds DEF AdapterInv, WrittenOrDue
    <3>. QED
      BY <1>2, <1>4, <3>1, AdapterOrDueKept
  <2>2. CASE status = "False"
    <3>. SUFFICES ASSUME NEW kind \in Kinds, ~AdapterOrDue(kind, n)' PROVE ~SaysReady(n)'
      OBVIOUS
    <3>1. n \notin wGuards' \cup queue'
      BY DEF AdapterOrDue
    <3>2. job.read = guards[n]
      BY <1>1, <1>2, <3>1 DEF AdapterInv, ReadStatusSeen
    <3>3. guards'[n].status.cond = cond
      BY <1>2, <3>2
    <3>. QED
      BY <1>3, <2>2, <3>3 DEF SaysReady
  <2>. QED
    BY <2>1, <2>2
<1>6. ReadyHasAdapter'
  BY <1>1, <1>4, <1>5, ReadyKept DEF AdapterInv
<1>7. WrittenOrDue' /\ ReadStatusSeen'
  BY WrittenKinds DEF WrittenOrDue, ReadStatusSeen, Idle, Job
<1>. QED
  BY <1>6, <1>7 DEF AdapterInv

\* The ways in which Reconcile ends.
LEMMA ReturnAdapter ==
  ASSUME TypeOK, TypeOK', AdapterInv, CachesSeen', WriteReady \/ WriteNotReady \/ WriteNotReadyNotFound
  PROVE  AdapterInv'
<1>1. CASE WriteReady
  <2>1. /\ job.pc = "ready"
        /\ UNCHANGED <<providers, adapters, wProviders, wAdapters, swallowed>>
    BY <1>1 DEF WriteReady
  <2>2. job # Idle
    BY <2>1, AtWork
  <2>3. Return(TRUE) \/ Return(FALSE)
    BY <1>1, Zenon DEF WriteReady
  <2>4. job' = Idle /\ queue \subseteq queue'
    BY <2>3 DEF Return
  <2>5. CASE guards[job.key] = None
    <3>1. Return(TRUE) /\ UNCHANGED <<guards, wGuards>>
      BY <1>1, <2>5 DEF WriteReady
    <3>2. job.key \in queue'
      BY <3>1 DEF Return
    <3>. QED
      BY <2>1, <2>2, <2>4, <3>1, <3>2, GiveUpAdapter DEF watches
  <2>6. CASE guards[job.key] # None
    <3>1. setReadyCondition("True", guardReasonReconciled, None)
      BY <1>1, <2>6 DEF WriteReady
    <3>2. guardReasonReconciled \in Reasons /\ None \in Messages
      BY DEF Reasons, Messages
    <3>. QED
      BY <2>1, <2>2, <2>4, <2>6, <3>1, <3>2, StatusAdapter
  <2>. QED
    BY <2>5, <2>6
<1>2. CASE WriteNotReady
  <2>1. /\ job.pc = "notready" /\ guards[job.key] # None
        /\ setReadyCondition("False", job.reason, job.message)
        /\ UNCHANGED <<providers, adapters, wProviders, wAdapters, swallowed>>
        /\ Return(~isTerminalReason(job.reason))
    BY <1>2 DEF WriteNotReady
  <2>2. job # Idle /\ job.reason \in Reasons /\ job.message \in Messages
    BY <2>1, AtWork
  <2>3. job' = Idle /\ queue \subseteq queue'
    BY <2>1 DEF Return
  <2>. QED
    BY <2>1, <2>2, <2>3, StatusAdapter
<1>3. CASE WriteNotReadyNotFound
  <2>1. job.pc = "notready" /\ NotReadyNotWritten /\ UNCHANGED <<cluster, watches>>
    BY <1>3 DEF WriteNotReadyNotFound
  <2>2. job # Idle
    BY <2>1, AtWork
  <2>3. /\ job' = Idle /\ queue \subseteq queue' /\ swallowed \subseteq swallowed'
        /\ job.key \in queue' \cup swallowed'
    BY <2>1 DEF NotReadyNotWritten, Return
  <2>. QED
    BY <2>1, <2>2, <2>3, GiveUpAdapter DEF cluster
<1>. QED
  BY <1>1, <1>2, <1>3

\* A failing call.
LEMMA CallFailsAdapter ==
  ASSUME TypeOK, TypeOK', AdapterInv, CachesSeen', CallFails
  PROVE  AdapterInv'
<1>1. /\ job.pc \in Kinds \cup {"ready", "notready"}
      /\ UNCHANGED <<guards, providers, adapters, watches>>
  BY DEF CallFails, cluster
<1>2. job # Idle
  BY <1>1, AtWork
<1>3. \/ Fail /\ UNCHANGED <<queue, swallowed>>
      \/ Return(TRUE) /\ UNCHANGED swallowed
      \/ NotReadyNotWritten
  BY Zenon DEF CallFails
<1>4. CASE (Return(TRUE) /\ UNCHANGED swallowed) \/ NotReadyNotWritten
  <2>1. /\ job' = Idle /\ queue \subseteq queue' /\ swallowed \subseteq swallowed'
        /\ job.key \in queue' \cup swallowed'
    BY <1>4 DEF NotReadyNotWritten, Return
  <2>. QED
    BY <1>1, <1>2, <2>1, GiveUpAdapter
<1>5. CASE Fail /\ UNCHANGED <<queue, swallowed>>
  <2>1. PICK n : n = job.key
    OBVIOUS
  <2>2. job'.key = n /\ job'.read = job.read /\ job'.pc = "notready"
    BY <1>5, <2>1 DEF Fail, Job
  <2>3. Noted /\ Kept
    BY <1>1, <1>5, NothingNoted
  <2>4. ReadyHasAdapter' /\ ReadStatusSeen'
    BY <1>2, <1>5, <2>1, <2>2, <2>3, ReadyKept, ReadSeenKept DEF AdapterInv
  <2>5. WrittenOrDue'
    BY <2>2, WrittenKinds DEF WrittenOrDue
  <2>. QED
    BY <2>4, <2>5 DEF AdapterInv
<1>. QED
  BY <1>3, <1>4, <1>5

\* After a restart every Guard is queued.
LEMMA RestartAdapter ==
  ASSUME TypeOK, CachesSeen', Restart
  PROVE  AdapterInv'
<1>1. job' = Idle /\ \A k \in Guards : guards'[k] # None => k \in queue'
  BY DEF Restart, cluster
<1>2. ReadyHasAdapter'
  BY <1>1 DEF ReadyHasAdapter, SaysReady, AdapterOrDue
<1>3. WrittenOrDue' /\ ReadStatusSeen'
  BY <1>1, WrittenKinds DEF WrittenOrDue, ReadStatusSeen, Idle, Job
<1>. QED
  BY <1>2, <1>3 DEF AdapterInv

\* All steps together.
LEMMA AdapterStep ==
  TypeOK /\ TypeOK' /\ MirrorInv /\ MirrorInv' /\ AdapterInv /\ [Next]_vars => AdapterInv'
<1>. SUFFICES ASSUME TypeOK, TypeOK', MirrorInv, CachesSeen', AdapterInv, Next \/ UNCHANGED vars
              PROVE  AdapterInv'
  BY DEF MirrorInv
<1>1. CASE UNCHANGED vars
  <2>1. UNCHANGED <<guards, providers, adapters, watches, job, swallowed, queue>>
    BY <1>1 DEF vars, cluster
  <2>2. Noted /\ Kept
    BY <2>1, NothingNoted
  <2>. QED
    BY <2>1, <2>2, AdapterInvKept
<1>2. CASE Users \/ Cluster
  BY <1>2, BackgroundNoted, AdapterInvKept DEF AdapterInv
<1>3. CASE Informers
  BY <1>3, InformersNoted, AdapterInvKept DEF AdapterInv
<1>4. CASE Proceed
  BY <1>4, EnsureAdapter, ReturnAdapter
     DEF Proceed, ensureConfigMap, ensureDeployment, ensureService, Kinds
<1>. QED
  BY <1>1, <1>2, <1>3, <1>4, BeginAdapter, CallFailsAdapter, RestartAdapter DEF Next, Worker

\* At first no Guard says Ready.
LEMMA AdapterInit == Init => AdapterInv
<1>. SUFFICES ASSUME Init PROVE AdapterInv
  OBVIOUS
<1>1. job = Idle /\ \A k \in Guards : guards[k] # None => k \in queue
  BY DEF Init
<1>2. cGuards = guards /\ cProviders = providers /\ cAdapters = adapters
  BY DEF Init
<1>3. CachesSeen
  BY <1>2 DEF CachesSeen
<1>4. ReadyHasAdapter
  BY <1>1 DEF ReadyHasAdapter, SaysReady, AdapterOrDue
<1>5. WrittenOrDue /\ ReadStatusSeen
  BY <1>1, WrittenKinds DEF WrittenOrDue, ReadStatusSeen, Idle, Job
<1>. QED
  BY <1>3, <1>4, <1>5 DEF AdapterInv

\* A Guard that says Ready has its own ConfigMap, Deployment and Service, or an
\* event of the missing child or of the Guard, or a Reconcile of it, is still to
\* come: the condition that ToolGateways rely on is never stale for good, unless
\* the status patch that was to take it back failed and was swallowed.
THEOREM ReadyAlwaysHasAdapter == Spec => []ReadyHasAdapter
<1>1. AdapterInv => ReadyHasAdapter
  BY DEF AdapterInv
<1>. QED
  BY <1>1, AdapterInit, AdapterStep, TypeCorrect, MirrorInvariant, PTL DEF Spec
=============================================================================
