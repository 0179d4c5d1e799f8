---------------------- MODULE ToolGatewayMirror_proofs ----------------------
(***************************************************************************)
(* A settled ToolGateway is mirrored: the proof that MirrorInv is          *)
(* inductive.  Every step notes what it changes as an event and keeps what *)
(* is due, so only the worker's own steps need an argument of their own.   *)
(***************************************************************************)
EXTENDS ToolGatewayReconciler_proofs

-----------------------------------------------------------------------------
(* Whatever changes is due, and what is due stays due.                     *)

Events == wTgs \cup wGws \cup wOthers \cup queue

\* Every change is an event.
Noted ==
  /\ UNCHANGED classes
  /\ \A k \in Gateways : /\ tgs'[k] = tgs[k] \/ k \in wTgs'
                         /\ gws'[k] = gws[k] \/ k \in wGws'
                         /\ params'[k] = params[k] \/ k \in wOthers'
                         /\ policies'[k] = policies[k] \/ k \in wOthers'
  /\ \A g \in Guards : guards'[g] = guards[g] \/ g \in wGuards'

\* An event is handled by queueing the ToolGateways it is about.
Kept ==
  /\ \A k \in Gateways : k \in Events => k \in Events'
  /\ \A k \in Gateways, g \in wGuards :
       (tgs[k] # None /\ g \in GuardRefs(tgs[k], k)) => g \in wGuards' \/ k \in Events'

\* What is due stays due.
LEMMA DueKept ==
  ASSUME Noted, Kept, NEW k \in Gateways, Due(k)
  PROVE  Due(k)'
<1>1. CASE k \in Events
  BY <1>1 DEF Kept, Events, Due
<1>2. CASE tgs[k] # None /\ GuardRefs(tgs[k], k) \cap wGuards # {}
  <2>1. PICK g \in wGuards : g \in GuardRefs(tgs[k], k)
    BY <1>2
  <2>2. g \in wGuards' \/ k \in Events'
    BY <1>2, <2>1 DEF Kept
  <2>. QED
    BY <1>2, <2>1, <2>2 DEF Noted, Events, Due
<1>. QED
  BY <1>1, <1>2 DEF Due, Events

\* What a ToolGateway for which nothing is due depends on is as it was.
LEMMA InputsKept ==
  ASSUME TypeOK, TypeOK', Noted, NEW k \in Gateways, ~Due(k)', tgs[k] # None
  PROVE  /\ tgs'[k] = tgs[k] /\ gws'[k] = gws[k]
         /\ params'[k] = params[k] /\ policies'[k] = policies[k]
         /\ Claimed(k)' <=> Claimed(k)
         /\ GuardrailsMirrored(k)' <=> GuardrailsMirrored(k)
<1>1. /\ tgs'[k] = tgs[k] /\ gws'[k] = gws[k]
      /\ params'[k] = params[k] /\ policies'[k] = policies[k]
  BY DEF Noted, Due
<1>2. Claimed(k)' <=> Claimed(k)
  BY <1>1 DEF Noted, Claimed
<1>. DEFINE guard == RefKey(tgs[k].spec.guardrails[1], k.ns)
<1>3. ASSUME Len(tgs[k].spec.guardrails) = 1
      PROVE  GuardReady(guards', guard) <=> GuardReady(guards, guard)
  <2>1. tgs[k] \in TgObjects
    BY DEF TypeOK, ClusterTypeOK
  <2>2. guard \in GuardRefs(tgs[k], k)
    BY <1>3, <2>1, OneGuardRef
  <2>. HIDE DEF guard
  <2>3. guard \notin wGuards'
    BY <1>1, <2>2 DEF Due
  <2>4. guard \in Guards => guards'[guard] = guards[guard]
    BY <2>3 DEF Noted
  <2>. QED
    BY <2>4, ReadinessSeen DEF TypeOK, ClusterTypeOK
<1>4. GuardrailsMirrored(k)' <=> GuardrailsMirrored(k)
  BY <1>1, <1>3 DEF GuardrailsMirrored
<1>. QED
  BY <1>1, <1>2, <1>4

\* So a ToolGateway that is mirrored stays so, or something becomes due.
LEMMA MirroredKept ==
  ASSUME TypeOK, TypeOK', Noted, NEW k \in Gateways, tgs[k] # None, Mirrored(k), ~Due(k)'
  PROVE  Mirrored(k)'
<1>1. /\ tgs'[k] = tgs[k] /\ gws'[k] = gws[k] /\ params'[k] = params[k]
      /\ GuardrailsMirrored(k)' <=> GuardrailsMirrored(k)
  BY InputsKept
<1>. QED
  BY <1>1 DEF Mirrored

\* The ToolGateways that were mirrored or due, or in the worker's hands, are
\* so after a step in which the worker keeps its own or leaves it right.
LEMMA MirrorKept ==
  ASSUME TypeOK, TypeOK', Noted, Kept, MirroredOrDue, NEW n, n = job.key,
         \/ job'.key = n
         \/ n \in Gateways => ~Claimed(n)' \/ Mirrored(n)' \/ Due(n)'
  PROVE  MirroredOrDue'
<1>. SUFFICES ASSUME NEW k \in Gateways, Claimed(k)', ~Due(k)', job'.key # k
              PROVE  Mirrored(k)'
  BY DEF MirroredOrDue
<1>1. tgs'[k] = tgs[k] /\ tgs[k] # None
  BY DEF Noted, Due, Claimed
<1>2. Claimed(k) /\ ~Due(k)
  BY <1>1, InputsKept, DueKept
<1>3. CASE n = k
  BY <1>3
<1>4. CASE n # k
  <2>1. Mirrored(k)
    BY <1>2, <1>4 DEF MirroredOrDue
  <2>. QED
    BY <1>1, <2>1, MirroredKept
<1>. QED
  BY <1>3, <1>4

\* The worker's job stays right, or something becomes due, while it stands still.
LEMMA JobRightKept ==
  ASSUME TypeOK, TypeOK', Noted, Kept, UNCHANGED job, JobRightOrDue
  PROVE  JobRightOrDue'
<1>. SUFFICES ASSUME job # Idle, job.pc # "notready", ~Due(job.key)' PROVE JobRight'
  BY DEF JobRightOrDue
<1>1. PICK n : n = job.key
  OBVIOUS
<1>2. n \in Gateways
  BY <1>1 DEF TypeOK, JobTypeOK
<1>3. ~Due(n)'
  BY <1>1
<1>4. JobRight
  BY <1>1, <1>2, <1>3, DueKept DEF JobRightOrDue
<1>5. tgs[n] # None
  BY <1>1, <1>4 DEF JobRight, Claimed
<1>6. /\ tgs'[n] = tgs[n] /\ gws'[n] = gws[n] /\ params'[n] = params[n]
      /\ Claimed(n)' <=> Claimed(n)
      /\ GuardrailsMirrored(n)' <=> GuardrailsMirrored(n)
  BY <1>2, <1>3, <1>5, InputsKept
<1>. HIDE DEF GuardrailsMirrored, Claimed
<1>. QED
  BY <1>1, <1>4, <1>6 DEF JobRight

\* A cache that lags behind has its event before it, when no cache moves.
LEMMA SeenKept ==
  ASSUME CachesSeen, Noted, UNCHANGED caches, wTgs \subseteq wTgs', wGuards \subseteq wGuards',
         wGws \subseteq wGws'
  PROVE  CachesSeen'
BY DEF CachesSeen, GuardsSeen, Noted, caches

\* A step that leaves the ToolGateways and the Guards alone and whose writes
\* to children are events.
LEMMA ChildrenNoted ==
  ASSUME UNCHANGED <<tgs, guards, classes, wTgs, wGuards>>,
         \A k \in Gateways : /\ gws'[k] = gws[k] \/ k \in wGws'
                             /\ params'[k] = params[k] \/ k \in wOthers'
                             /\ policies'[k] = policies[k] \/ k \in wOthers',
         wGws \subseteq wGws', wOthers \subseteq wOthers', queue \subseteq queue'
  PROVE  Noted /\ Kept
BY DEF Noted, Kept, Events

\* Each write to a child is an event.
LEMMA ChildWritten ==
  ASSUME TypeOK, NEW k \in Gateways, NEW obj
  PROVE  /\ GwChanged(k, obj) =>
              /\ gws'[k] = obj /\ wGws \subseteq wGws'
              /\ \A j \in Gateways : gws'[j] = gws[j] \/ j \in wGws'
         /\ ParamsChanged(k, obj) =>
              /\ params'[k] = obj /\ wOthers \subseteq wOthers'
              /\ \A j \in Gateways : params'[j] = params[j] \/ j \in wOthers'
         /\ PolicyChanged(k, obj) =>
              /\ policies'[k] = obj /\ wOthers \subseteq wOthers'
              /\ \A j \in Gateways : policies'[j] = policies[j] \/ j \in wOthers'
<1>. USE DEF TypeOK, ChildrenTypeOK, Event
<1>1. GwChanged(k, obj) => /\ gws'[k] = obj /\ wGws \subseteq wGws'
                           /\ \A j \in Gateways : gws'[j] = gws[j] \/ j \in wGws'
  BY DEF GwChanged
<1>2. ParamsChanged(k, obj) => /\ params'[k] = obj /\ wOthers \subseteq wOthers'
                               /\ \A j \in Gateways : params'[j] = params[j] \/ j \in wOthers'
  BY DEF ParamsChanged
<1>3. PolicyChanged(k, obj) => /\ policies'[k] = obj /\ wOthers \subseteq wOthers'
                               /\ \A j \in Gateways : policies'[j] = policies[j] \/ j \in wOthers'
  BY DEF PolicyChanged
<1>. QED
  BY <1>1, <1>2, <1>3

\* Users and garbage collector.
LEMMA BackgroundNoted ==
  ASSUME TypeOK, TypeOK', CachesSeen, Users \/ \E k \in Gateways : Collect(k)
  PROVE  Noted /\ Kept /\ CachesSeen' /\ UNCHANGED job
<1>0. UNCHANGED <<caches, classes, queue, job>>
  BY DEF Users, CreateGateway, EditGateway, DeleteGateway, Tamper, SetGuard, ChangeProvider,
         Collect, cluster
<1>1. ASSUME NEW k \in Gateways, CreateGateway(k) \/ EditGateway(k) \/ DeleteGateway(k)
      PROVE  Noted /\ Kept /\ CachesSeen'
  <2>1. PICK obj : TgChanged(k, obj)
    BY <1>1 DEF CreateGateway, EditGateway, DeleteGateway
  <2>2. (\A j \in Gateways : tgs'[j] = tgs[j] \/ j \in wTgs') /\ wTgs \subseteq wTgs'
    BY <2>1 DEF TgChanged, Event, TypeOK, ClusterTypeOK
  <2>3. UNCHANGED <<guards, params, gws, policies, wGuards, wGws, wOthers>>
    BY <1>1 DEF CreateGateway, EditGateway, DeleteGateway
  <2>4. Noted /\ Kept
    BY <1>0, <2>2, <2>3 DEF Noted, Kept, Events
  <2>. QED
    BY <1>0, <2>2, <2>3, <2>4, SeenKept
<1>2. ASSUME NEW g \in Guards, SetGuard(g) PROVE Noted /\ Kept /\ CachesSeen'
  <2>1. /\ \A h \in Guards : guards'[h] = guards[h] \/ h \in wGuards'
        /\ wGuards \subseteq wGuards'
        /\ UNCHANGED <<tgs, params, gws, policies, wTgs, wGws, wOthers>>
    BY <1>2 DEF SetGuard, TypeOK, ClusterTypeOK
  <2>2. Noted /\ Kept
    BY <1>0, <2>1 DEF Noted, Kept, Events
  <2>. QED
    BY <1>0, <2>1, <2>2, SeenKept
<1>3. ASSUME NEW p \in Providers, ChangeProvider(p) PROVE Noted /\ Kept /\ CachesSeen'
  BY <1>0, <1>3, ChildrenNoted, SeenKept DEF ChangeProvider, cluster
<1>4. ASSUME NEW k \in Gateways, NEW obj,
             \/ GwChanged(k, obj) /\ UNCHANGED <<params, policies, wOthers>>
             \/ ParamsChanged(k, obj) /\ UNCHANGED <<gws, policies, wGws>>
             \/ PolicyChanged(k, obj) /\ UNCHANGED <<gws, params, wGws>>,
             UNCHANGED <<tgs, guards, wTgs, wGuards>>
      PROVE  Noted /\ Kept /\ CachesSeen'
  <2>1. Noted /\ Kept /\ wGws \subseteq wGws'
    BY <1>0, <1>4, ChildWritten, ChildrenNoted
  <2>. QED
    BY <1>0, <1>4, <2>1, SeenKept
<1>5. ASSUME NEW k \in Gateways, Tamper(k) PROVE Noted /\ Kept /\ CachesSeen'
  <2>1. \E obj : \/ GwChanged(k, obj) /\ UNCHANGED <<params, policies, wOthers>>
                 \/ ParamsChanged(k, obj) /\ UNCHANGED <<gws, policies, wGws>>
                 \/ PolicyChanged(k, obj) /\ UNCHANGED <<gws, params, wGws>>
    BY <1>5, Zenon DEF Tamper
  <2>. QED
    BY <1>4, <1>5, <2>1 DEF Tamper
<1>6. ASSUME NEW k \in Gateways, Collect(k) PROVE Noted /\ Kept /\ CachesSeen'
  BY <1>4, <1>6 DEF Collect
<1>. QED
  BY <1>0, <1>1, <1>2, <1>3, <1>5, <1>6 DEF Users

\* The informers.
LEMMA InformersNoted ==
  ASSUME TypeOK, TypeOK', CachesSeen, Informers
  PROVE  Noted /\ Kept /\ CachesSeen' /\ UNCHANGED job
<1>0. UNCHANGED <<tgs, guards, classes, params, gws, policies, job, cClasses>>
  BY DEF Informers, SyncGateway, HandleGateway, SyncGw, HandleChild, SyncGuard, HandleGuard,
         HandleProvider, cluster, caches
<1>1. Noted
  BY <1>0 DEF Noted
<1>2. ASSUME NEW k \in Gateways, SyncGateway(k) PROVE Kept /\ CachesSeen'
  BY <1>0, <1>2 DEF SyncGateway, watches, Kept, Events, CachesSeen, GuardsSeen, TypeOK, ClusterTypeOK
<1>3. ASSUME NEW g \in Guards, SyncGuard(g) PROVE Kept /\ CachesSeen'
  BY <1>0, <1>3 DEF SyncGuard, watches, Kept, Events, CachesSeen, GuardsSeen, TypeOK, ClusterTypeOK
<1>4. ASSUME NEW k \in Gateways, SyncGw(k) PROVE Kept /\ CachesSeen'
  BY <1>0, <1>4 DEF SyncGw, watches, Kept, Events, CachesSeen, GuardsSeen, TypeOK, ChildrenTypeOK
<1>5. ASSUME NEW k \in Gateways, HandleGateway(k) PROVE Kept /\ CachesSeen'
  BY <1>0, <1>5 DEF HandleGateway, caches, Kept, Events, CachesSeen, GuardsSeen
<1>6. ASSUME NEW g \in Guards, HandleGuard(g) PROVE Kept /\ CachesSeen'
  <2>1. /\ cGuards[g] = guards[g] /\ wGuards' = wGuards \ {g}
        /\ queue' = queue \cup findToolGatewayForGuard(cTgs, g)
        /\ UNCHANGED <<caches, wTgs, wGws, wOthers>>
    BY <1>6 DEF HandleGuard
  <2>2. ASSUME NEW k \in Gateways, tgs[k] # None, g \in GuardRefs(tgs[k], k)
        PROVE  k \in wTgs' \cup queue'
    BY <2>1, <2>2 DEF CachesSeen, GuardsSeen, findToolGatewayForGuard
  <2>3. Kept
    BY <2>1, <2>2 DEF Kept, Events
  <2>4. CachesSeen'
    BY <1>0, <2>1 DEF CachesSeen, GuardsSeen, caches
  <2>. QED
    BY <2>3, <2>4
<1>7. ASSUME NEW p \in Providers, HandleProvider(p) PROVE Kept /\ CachesSeen'
  BY <1>0, <1>7 DEF HandleProvider, caches, Kept, Events, CachesSeen, GuardsSeen
<1>8. ASSUME NEW k \in Gateways, HandleChild(k) PROVE Kept /\ CachesSeen'
  BY <1>0, <1>8 DEF HandleChild, caches, Kept, Events, CachesSeen, GuardsSeen
<1>. QED
  BY <1>0, <1>1, <1>2, <1>3, <1>4, <1>5, <1>6, <1>7, <1>8 DEF Informers

-----------------------------------------------------------------------------
(* The worker.                                                             *)

\* Reconcile reads the caches: what they have not seen is due.
LEMMA BeginMirror ==
  ASSUME TypeOK, TypeOK', MirrorInv, NEW k \in Gateways, Begin(k)
  PROVE  MirrorInv'
<1>0. CachesSeen /\ MirroredOrDue /\ job = Idle
  BY DEF MirrorInv, Begin, BeginNotFound, BeginNotOwned, BeginOwned, Dequeue
<1>1. /\ UNCHANGED <<tgs, guards, classes, params, gws, policies, caches, wTgs, wGuards, wGws, wOthers>>
      /\ queue' = queue \ {k}
  BY DEF Begin, BeginNotFound, BeginNotOwned, BeginOwned, Dequeue, cluster, watches
<1>2. CachesSeen'
  BY <1>0, <1>1 DEF CachesSeen, GuardsSeen, caches
<1>3. ASSUME NEW j \in Gateways, j # k, Claimed(j)' PROVE Mirrored(j)' \/ Due(j)'
  <2>1. job.key # j
    BY <1>0, NoneAssumption DEF Idle, Job
  <2>2. Claimed(j)
    BY <1>1, <1>3 DEF Claimed
  <2>3. Mirrored(j) \/ Due(j)
    BY <1>0, <2>1, <2>2 DEF MirroredOrDue
  <2>4. Mirrored(j) <=> Mirrored(j)'
    BY <1>1 DEF Mirrored, GuardrailsMirrored
  <2>5. Due(j) => Due(j)'
    BY <1>1, <1>3 DEF Due
  <2>. QED
    BY <2>3, <2>4, <2>5
<1>4. CASE BeginNotFound(k) \/ BeginNotOwned(k)
  <2>1. job' = Idle /\ (cTgs[k] = None \/ ~Owned(k))
    BY <1>0, <1>4 DEF BeginNotFound, BeginNotOwned
  <2>2. Claimed(k)' => Due(k)'
    BY <1>0, <1>1, <2>1 DEF CachesSeen, GuardsSeen, Claimed, Owned, Due
  <2>3. MirroredOrDue'
    BY <1>3, <2>2 DEF MirroredOrDue
  <2>4. JobRightOrDue'
    BY <2>1 DEF JobRightOrDue
  <2>. QED
    BY <1>2, <2>3, <2>4 DEF MirrorInv
<1>5. CASE BeginOwned(k)
  <2>1. /\ job'.key = k /\ job'.mem = cTgs[k] /\ job'.pc = "params"
        /\ cTgs[k] # None /\ Owned(k)
    BY <1>5 DEF BeginOwned, Job
  <2>2. MirroredOrDue'
    BY <1>3, <2>1 DEF MirroredOrDue
  <2>3. CASE cTgs[k] = tgs[k]
    <3>1. Claimed(k)'
      BY <1>0, <1>1, <2>1, <2>3 DEF CachesSeen, GuardsSeen, Claimed, Owned
    <3>2. JobRight'
      BY <1>1, <2>1, <2>3, <3>1 DEF JobRight
    <3>. QED
      BY <1>2, <2>2, <3>2 DEF MirrorInv, JobRightOrDue
  <2>4. CASE k \in wTgs
    <3>1. Due(k)'
      BY <1>1, <2>4 DEF Due
    <3>2. JobRightOrDue'
      BY <2>1, <3>1 DEF JobRightOrDue
    <3>. QED
      BY <1>2, <2>2, <3>2 DEF MirrorInv
  <2>. QED
    BY <1>0, <2>3, <2>4 DEF CachesSeen, GuardsSeen
<1>. QED
  BY <1>4, <1>5 DEF Begin

\* The worker goes on with its ToolGateway; if nothing is due its job is right
\* after the step as it was before, or it gave up.
LEMMA GoesOn ==
  ASSUME TypeOK, TypeOK', MirrorInv, job # Idle, job.pc # "notready",
         NEW n, n = job.key, job'.key = n,
         UNCHANGED <<tgs, guards, classes, caches, wTgs, wGuards>>, wGws \subseteq wGws',
         Noted, Kept,
         \/ job'.pc = "notready"
         \/ ~Due(n) /\ JobRight => JobRight'
  PROVE  MirrorInv'
<1>1. CachesSeen'
  BY SeenKept DEF MirrorInv
<1>2. MirroredOrDue'
  BY MirrorKept DEF MirrorInv
<1>3. JobRightOrDue'
  <2>. SUFFICES ASSUME job'.pc # "notready", ~Due(n)' PROVE JobRight'
    BY DEF JobRightOrDue
  <2>1. n \in Gateways
    BY DEF TypeOK, JobTypeOK
  <2>2. ~Due(n)
    BY <2>1, DueKept
  <2>. QED
    BY <2>2 DEF MirrorInv, JobRightOrDue
<1>. QED
  BY <1>1, <1>2, <1>3 DEF MirrorInv

\* The worker is in the middle of a Reconcile.
LEMMA AtWork ==
  ASSUME TypeOK, job.pc \in {"params", "gateway", "guardrails", "ready", "notready"}
  PROVE  job # Idle /\ job.key \in Gateways /\ job.mem \in TgObjects
<1>1. job # Idle
  BY DEF Idle, Job
<1>. QED
  BY <1>1 DEF TypeOK, JobTypeOK

\* After Answered the job goes on at pc with mem, or it gave up.
LEMMA AfterAnswer ==
  ASSUME NEW pc, NEW mem, NEW reason, Answered(pc, mem, reason)
  PROVE  /\ job'.key = job.key
         /\ job'.pc = "notready" \/ (job'.pc = pc /\ job'.mem = mem)
BY DEF Answered, FailWith, Job

\* A child that is wanted is a record.
LEMMA WantedRecord ==
  ASSUME NEW k, NEW obj, NEW spec
  PROVE  Child(k, obj, spec) = [f \in DOMAIN Child(k, obj, spec) |-> Child(k, obj, spec)[f]]
BY DEF Child

\* The Parameters are read live: what is left is what is wanted.
LEMMA ParamsMirror ==
  ASSUME TypeOK, TypeOK', MirrorInv, ensureAgentgatewayParameters
  PROVE  MirrorInv'
<1>1. PICK n : n = job.key
  OBVIOUS
<1>. DEFINE want == ParamsFor(n, job.mem)
            new == CreateOrPatch(params[n], params[n], want)
<1>2. /\ job.pc = "params"
      /\ UNCHANGED <<tgs, guards, classes, gws, policies, caches, wTgs, wGuards, wGws, queue>>
  BY DEF ensureAgentgatewayParameters
<1>3. job # Idle /\ n \in Gateways
  BY <1>1, <1>2, AtWork
<1>4. want = [f \in DOMAIN want |-> want[f]]
  BY WantedRecord DEF ParamsFor
<1>5. CASE new = Failed
  <2>1. /\ FailWith(reasonAgentgatewayParametersFailed, None) /\ UNCHANGED <<params, wOthers>>
    BY <1>1, <1>5 DEF ensureAgentgatewayParameters
  <2>2. job'.key = n /\ job'.pc = "notready"
    BY <1>1, <2>1 DEF FailWith, Job
  <2>3. Noted /\ Kept
    BY <1>2, <2>1, ChildrenNoted
  <2>. QED
    BY <1>1, <1>2, <1>3, <2>2, <2>3, GoesOn
<1>6. CASE new # Failed
  <2>1. ParamsChanged(n, new) /\ Answered("gateway", job.mem, reasonAgentgatewayParametersFailed)
    BY <1>1, <1>6 DEF ensureAgentgatewayParameters
  <2>. HIDE DEF want
  <2>2. new = want
    BY <1>4, <1>6, PatchLive
  <2>. HIDE DEF new
  <2>3. params'[n] = want /\ Noted /\ Kept
    BY <1>2, <1>3, <2>1, <2>2, ChildWritten, ChildrenNoted
  <2>4. job'.key = n /\ (job'.pc = "notready" \/ (job'.pc = "gateway" /\ job'.mem = job.mem))
    BY <1>1, <2>1, AfterAnswer
  <2>5. ASSUME job'.pc # "notready", JobRight PROVE JobRight'
    <3>1. Claimed(n) /\ job.mem = tgs[n]
      BY <1>1, <1>2, <2>5 DEF JobRight
    <3>2. Claimed(n)'
      BY <1>2, <3>1 DEF Claimed
    <3>. QED
      BY <1>2, <2>3, <2>4, <2>5, <3>1, <3>2 DEF JobRight, want
  <2>. QED
    BY <1>1, <1>2, <1>3, <2>3, <2>4, <2>5, GoesOn
<1>. QED
  BY <1>5, <1>6

\* The Gateway is read from the cache, which has seen all if nothing is due.
LEMMA GatewayMirror ==
  ASSUME TypeOK, TypeOK', MirrorInv, ensureGateway
  PROVE  MirrorInv'
<1>1. PICK n : n = job.key
  OBVIOUS
<1>. DEFINE want == GatewayFor(n, job.mem)
            new == CreateOrPatch(cGws[n], gws[n], want)
<1>2. /\ job.pc = "gateway"
      /\ UNCHANGED <<tgs, guards, classes, params, policies, caches, wTgs, wGuards, wOthers, queue>>
  BY DEF ensureGateway
<1>3. job # Idle /\ n \in Gateways
  BY <1>1, <1>2, AtWork
<1>4. want = [f \in DOMAIN want |-> want[f]]
  BY WantedRecord DEF GatewayFor
<1>5. CASE new = Failed
  <2>1. FailWith(reasonGatewayFailed, None) /\ UNCHANGED <<gws, wGws>>
    BY <1>1, <1>5 DEF ensureGateway
  <2>2. job'.key = n /\ job'.pc = "notready"
    BY <1>1, <2>1 DEF FailWith, Job
  <2>3. Noted /\ Kept
    BY <1>2, <2>1, ChildrenNoted
  <2>. QED
    BY <1>1, <1>2, <1>3, <2>1, <2>2, <2>3, GoesOn
<1>6. CASE new # Failed
  <2>1. GwChanged(n, new) /\ Answered("guardrails", job.mem, reasonGatewayFailed)
    BY <1>1, <1>6 DEF ensureGateway
  <2>. HIDE DEF want
  <2>2. cGws[n] = gws[n] => new = want
    BY <1>4, <1>6, PatchLive
  <2>. HIDE DEF new
  <2>3. gws'[n] = new /\ Noted /\ Kept /\ wGws \subseteq wGws'
    BY <1>2, <1>3, <2>1, ChildWritten, ChildrenNoted
  <2>4. job'.key = n /\ (job'.pc = "notready" \/ (job'.pc = "guardrails" /\ job'.mem = job.mem))
    BY <1>1, <2>1, AfterAnswer
  <2>5. ASSUME job'.pc # "notready", ~Due(n), JobRight PROVE JobRight'
    <3>1. Claimed(n) /\ job.mem = tgs[n] /\ params[n] = ParamsFor(n, tgs[n])
      BY <1>1, <1>2, <2>5 DEF JobRight
    <3>2. Claimed(n)'
      BY <1>2, <3>1 DEF Claimed
    <3>3. cGws[n] = gws[n]
      BY <1>3, <2>5 DEF MirrorInv, CachesSeen, GuardsSeen, Due
    <3>. QED
      BY <1>2, <2>2, <2>3, <2>4, <2>5, <3>1, <3>2, <3>3 DEF JobRight, want
  <2>. QED
    BY <1>1, <1>2, <1>3, <2>3, <2>4, <2>5, GoesOn
<1>. QED
  BY <1>5, <1>6

\* Whatever Reconcile does about guardrails, it goes on only with the policy
\* that the copies it read call for.
LEMMA GuardrailsMirror ==
  ASSUME TypeOK, TypeOK', MirrorInv,
         ensureNoGuardrails \/ MultipleGuards \/ GuardNotUsable \/ ensureGuardrailPolicy
  PROVE  MirrorInv'
<1>1. PICK n : n = job.key
  OBVIOUS
<1>2. /\ job.pc = "guardrails"
      /\ UNCHANGED <<tgs, guards, classes, params, gws, caches, wTgs, wGuards, wGws, queue>>
  BY DEF ensureNoGuardrails, MultipleGuards, GuardNotUsable, ensureGuardrailPolicy, cluster, watches
<1>3. job # Idle /\ n \in Gateways /\ job.mem \in TgObjects
  BY <1>1, <1>2, AtWork
<1>4. ASSUME UNCHANGED <<policies, wOthers>>, job'.key = n, job'.pc = "notready"
      PROVE  MirrorInv'
  <2>1. Noted /\ Kept
    BY <1>2, <1>4, ChildrenNoted
  <2>. QED
    BY <1>1, <1>2, <1>3, <1>4, <2>1, GoesOn
<1>5. ASSUME NEW obj, PolicyChanged(n, obj),
             Answered("ready", WithUnsupported(job.mem, None), reasonGuardrailsFailed),
             ~Due(n) /\ JobRight =>
               \/ tgs[n].spec.guardrails = <<>> /\ obj = None
               \/ /\ Len(tgs[n].spec.guardrails) = 1
                  /\ GuardReady(guards, RefKey(tgs[n].spec.guardrails[1], n.ns))
                  /\ obj = PolicyFor(n, tgs[n], RefKey(tgs[n].spec.guardrails[1], n.ns))
      PROVE  MirrorInv'
  <2>1. policies'[n] = obj /\ Noted /\ Kept
    BY <1>2, <1>3, <1>5, ChildWritten, ChildrenNoted
  <2>2. /\ job'.key = n
        /\ job'.pc = "notready" \/ (job'.pc = "ready" /\ job'.mem = WithUnsupported(job.mem, None))
    BY <1>1, <1>5, AfterAnswer
  <2>3. ASSUME job'.pc # "notready", ~Due(n), JobRight PROVE JobRight'
    <3>1. /\ Claimed(n) /\ job.mem = tgs[n] /\ params[n] = ParamsFor(n, tgs[n])
          /\ gws[n] = GatewayFor(n, tgs[n])
      BY <1>1, <1>2, <2>3 DEF JobRight
    <3>2. Claimed(n)'
      BY <1>2, <3>1 DEF Claimed
    <3>3. GuardrailsMirrored(n)'
      BY <1>2, <1>5, <2>1, <2>3 DEF GuardrailsMirrored
    <3>. QED
      BY <1>2, <2>2, <2>3, <3>1, <3>2, <3>3 DEF JobRight
  <2>. QED
    BY <1>1, <1>2, <1>3, <2>1, <2>2, <2>3, GoesOn
<1>6. JobRight => job.mem = tgs[n]
  BY <1>1, <1>2 DEF JobRight
<1>7. CASE ensureNoGuardrails
  <2>1. /\ PolicyChanged(n, None) /\ job.mem.spec.guardrails = <<>>
        /\ Answered("ready", WithUnsupported(job.mem, None), reasonGuardrailsFailed)
    BY <1>1, <1>7 DEF ensureNoGuardrails
  <2>. QED
    BY <1>5, <1>6, <2>1
<1>8. CASE MultipleGuards
  BY <1>1, <1>4, <1>8 DEF MultipleGuards, cluster, watches, Job
<1>9. CASE GuardNotUsable
  <2>1. UNCHANGED <<policies, wOthers>> /\ \E reason, about : FailWith(reason, about)
    BY <1>9, Zenon DEF GuardNotUsable, cluster, watches
  <2>. QED
    BY <1>1, <1>4, <2>1 DEF FailWith, Job
<1>10. CASE ensureGuardrailPolicy
  <2>. DEFINE guard == RefKey(job.mem.spec.guardrails[1], n.ns)
              want == PolicyFor(n, job.mem, guard)
              new == CreateOrPatch(policies[n], policies[n], want)
  <2>1. CASE new = Failed
    <3>1. UNCHANGED <<policies, wOthers>> /\ FailWith(reasonGuardrailsFailed, None)
      BY <1>1, <1>10, <2>1 DEF ensureGuardrailPolicy, jobGuard
    <3>. QED
      BY <1>1, <1>4, <3>1 DEF FailWith, Job
  <2>2. CASE new # Failed
    <3>1. /\ PolicyChanged(n, new)
          /\ Answered("ready", WithUnsupported(job.mem, None), reasonGuardrailsFailed)
      BY <1>1, <1>10, <2>2 DEF ensureGuardrailPolicy, jobGuard
    <3>2. Len(job.mem.spec.guardrails) = 1 /\ GuardReady(cGuards, guard)
      BY <1>1, <1>10 DEF ensureGuardrailPolicy, jobGuard
    <3>3. want = [f \in DOMAIN want |-> want[f]]
      BY WantedRecord DEF PolicyFor
    <3>4. guard \in GuardRefs(job.mem, n)
      BY <1>3, <3>2, OneGuardRef
    <3>. HIDE DEF want, guard
    <3>5. new = want
      BY <2>2, <3>3, PatchLive
    <3>. HIDE DEF new
    <3>6. ASSUME ~Due(n), JobRight PROVE GuardReady(guards, guard)
      <4>1. tgs[n] # None
        BY <1>1, <3>6 DEF JobRight, Claimed
      <4>2. guard \notin wGuards
        BY <1>6, <3>4, <3>6, <4>1 DEF Due
      <4>3. guard \in Guards => cGuards[guard] = guards[guard]
        BY <4>2 DEF MirrorInv, CachesSeen, GuardsSeen
      <4>. QED
        BY <3>2, <4>3, ReadinessSeen DEF TypeOK, ClusterTypeOK
    <3>. QED
      BY <1>5, <1>6, <3>1, <3>2, <3>5, <3>6 DEF want, guard
  <2>. QED
    BY <2>1, <2>2
<1>. QED
  BY <1>7, <1>8, <1>9, <1>10

\* The status of a copy whose condition GuardrailsUnsupported was taken back.
LEMMA TakenBack ==
  ASSUME NEW obj \in TgObjects
  PROVE  WithUnsupported(obj, None).status =
           [conds |-> [ready |-> obj.status.conds.ready, unsupported |-> None],
            url |-> obj.status.url]
BY DEF WithUnsupported, TgObjects, Statuses

\* The patch that says Ready leaves the whole status right, although its base
\* lacks the condition that was taken back in memory: the list is left out only
\* if it says Ready already, and then that condition is not there.
LEMMA ReadyPatched ==
  ASSUME TypeOK, ReadyNotUnsupported, job # Idle, NEW n, n = job.key, tgs[n] # None,
         job.mem = WithUnsupported(tgs[n], None), PatchStatus(ReadyStatus(job.mem))
  PROVE  tgs'[n].status =
           [conds |-> [ready |-> ReadyCond(tgs'[n]), unsupported |-> None], url |-> TRUE]
<1>. DEFINE live == tgs[n]
            cond == ReadyCond(job.mem)
            want == ReadyStatus(job.mem)
            read == job.mem.status
<1>1. n \in Gateways /\ live \in TgObjects /\ live.status \in Statuses
  BY DEF TypeOK, JobTypeOK, ClusterTypeOK, TgObjects
<1>2. read = [conds |-> [ready |-> live.status.conds.ready, unsupported |-> None],
              url |-> live.status.url]
  BY <1>1, TakenBack
<1>3. /\ want = [conds |-> [ready |-> cond, unsupported |-> None], url |-> TRUE]
      /\ want \in Statuses
  <2>1. job.mem.status.conds.unsupported = None
    BY <1>1, UnsupportedEdited
  <2>2. job.mem \in TgObjects
    BY <1>1, UnsupportedEdited
  <2>. QED
    BY <2>1, <2>2, WantedStatus DEF ReadyStatus
<1>4. job.mem.gen = live.gen
  <2>1. WithUnsupported(live, None).gen = live.gen
    BY <1>1, UnsupportedEdited
  <2>. HIDE DEF WithUnsupported
  <2>. QED
    BY <2>1
<1>5. cond = ReadyCond(live) /\ cond.status = "True"
  BY <1>4 DEF ReadyCond
<1>6. cond # None
  BY <1>1, <1>5, NoObjectAssumption DEF ReadyCond, Conditions, Reasons, Abouts, TgObjects
<1>7. /\ live.status = [conds |-> live.status.conds, url |-> live.status.url]
      /\ live.status.conds = [ready |-> live.status.conds.ready,
                              unsupported |-> live.status.conds.unsupported]
  BY <1>1 DEF Statuses
<1>8. live.status.conds.ready = cond => live.status.conds.unsupported = None
  BY <1>1, <1>5, <1>6 DEF ReadyNotUnsupported
<1>9. tgs'[n] = [live EXCEPT !.status = MergePatch(read, live.status, want)]
  BY <1>1 DEF PatchStatus, TgChanged, TypeOK, ClusterTypeOK
<1>. HIDE DEF live, cond, want, read
<1>10. MergePatch(read, live.status, want) = want
  <2>. DEFINE new == MergePatch(read, live.status, want)
  <2>0. /\ new \in Statuses
        /\ new.conds = IF want.conds = read.conds THEN live.status.conds ELSE want.conds
    BY <1>1, <1>3, MergedStatus
  <2>1. new.url = IF want.url = read.url THEN live.status.url ELSE want.url
    <3>1. "url" \in DOMAIN want
      BY <1>3
    <3>. QED
      BY <3>1, MergedField
  <2>. HIDE DEF new
  <2>2. want.conds = read.conds => live.status.conds = want.conds
    BY <1>2, <1>3, <1>7, <1>8
  <2>3. want.url = read.url => live.status.url = want.url
    BY <1>2, <1>3
  <2>4. new.conds = want.conds /\ new.url = want.url
    BY <2>0, <2>1, <2>2, <2>3
  <2>5. new = want
    BY <1>3, <2>0, <2>4 DEF Statuses
  <2>. QED
    BY <2>5 DEF new
<1>11. tgs'[n].status = want /\ tgs'[n].gen = live.gen
  BY <1>1, <1>9, <1>10 DEF TgObjects
<1>12. ReadyCond(tgs'[n]) = cond
  BY <1>5, <1>11 DEF ReadyCond
<1>. QED
  BY <1>3, <1>11, <1>12

\* Reconcile ends: its ToolGateway is queued again, or it is mirrored.
LEMMA EndsMirror ==
  ASSUME TypeOK, TypeOK', MirrorInv, job # Idle, job' = Idle, NEW n, n = job.key,
         UNCHANGED <<caches, wGuards, wGws>>, wTgs \subseteq wTgs', Noted, Kept,
         n \in queue' \/ (~Due(n)' => Mirrored(n)')
  PROVE  MirrorInv'
<1>1. CachesSeen'
  BY SeenKept DEF MirrorInv
<1>2. MirroredOrDue'
  <2>1. n \in queue' => Due(n)'
    BY DEF Due
  <2>. QED
    BY <2>1, MirrorKept DEF MirrorInv
<1>3. JobRightOrDue'
  BY DEF JobRightOrDue
<1>. QED
  BY <1>1, <1>2, <1>3 DEF MirrorInv

\* The two status patches.
LEMMA StatusMirror ==
  ASSUME TypeOK, TypeOK', MirrorInv, ReadyNotUnsupported, updateStatusReady \/ updateStatusNotReady
  PROVE  MirrorInv'
<1>0. /\ job.pc \in {"ready", "notready"}
      /\ UNCHANGED <<guards, classes, params, gws, policies, caches, wGuards, wGws, wOthers>>
  BY DEF updateStatusReady, updateStatusNotReady
<1>1. PICK n : n = job.key
  OBVIOUS
<1>2. job # Idle /\ n \in Gateways /\ job.mem \in TgObjects
  BY <1>0, <1>1, AtWork
<1>3. Return(TRUE) \/ Return(FALSE)
  BY Zenon DEF updateStatusReady, updateStatusNotReady
<1>4. job' = Idle /\ queue \subseteq queue'
  BY <1>3 DEF Return
<1>5. \/ UNCHANGED <<tgs, wTgs>>
      \/ tgs[n] # None /\ \E want \in Statuses : PatchStatus(want)
  <2>1. CASE updateStatusReady
    BY <1>1, <1>2, <2>1, WantedStatus DEF updateStatusReady
  <2>2. CASE updateStatusNotReady
    <3>1. job.reason \in Reasons /\ job.about \in Abouts
      BY <1>2, <2>2 DEF updateStatusNotReady, TypeOK, JobTypeOK
    <3>. QED
      BY <1>1, <1>2, <2>2, <3>1, WantedStatus DEF updateStatusNotReady
  <2>. QED
    BY <2>1, <2>2
<1>6. (\A k \in Gateways : tgs'[k] = tgs[k] \/ k \in wTgs') /\ wTgs \subseteq wTgs'
  <2>1. CASE UNCHANGED <<tgs, wTgs>>
    BY <2>1
  <2>2. ASSUME tgs[n] # None, NEW want \in Statuses, PatchStatus(want)
        PROVE  (\A k \in Gateways : tgs'[k] = tgs[k] \/ k \in wTgs') /\ wTgs \subseteq wTgs'
    <3>1. /\ \A k \in Gateways \ {n} : tgs'[k] = tgs[k]
          /\ wTgs' = Event(wTgs, n, tgs[n], tgs'[n])
      BY <1>1, <1>2, <2>2, StatusPatched
    <3>. QED
      BY <3>1 DEF Event
  <2>. QED
    BY <1>5, <2>1, <2>2
<1>7. Noted /\ Kept
  BY <1>0, <1>4, <1>6 DEF Noted, Kept, Events
<1>8. CASE Return(TRUE)
  <2>1. n \in queue'
    BY <1>1, <1>8 DEF Return
  <2>. QED
    BY <1>0, <1>1, <1>2, <1>4, <1>6, <1>7, <2>1, EndsMirror
<1>9. CASE Return(FALSE) /\ ~Return(TRUE)
  <2>1. updateStatusReady
    BY <1>9 DEF updateStatusNotReady
  <2>2. /\ job.pc = "ready" /\ tgs[n] # None /\ PatchStatus(ReadyStatus(job.mem))
    BY <1>1, <1>9, <2>1 DEF updateStatusReady
  <2>3. ASSUME ~Due(n)' PROVE Mirrored(n)'
    <3>1. ~Due(n)
      BY <1>2, <1>7, <2>3, DueKept
    <3>2. JobRight
      BY <1>1, <1>2, <2>2, <3>1 DEF MirrorInv, JobRightOrDue
    <3>3. /\ job.mem = WithUnsupported(tgs[n], None) /\ params[n] = ParamsFor(n, tgs[n])
          /\ gws[n] = GatewayFor(n, tgs[n]) /\ GuardrailsMirrored(n)
      BY <1>1, <2>2, <3>2 DEF JobRight
    <3>4. /\ tgs'[n] = tgs[n] /\ gws'[n] = gws[n] /\ params'[n] = params[n]
          /\ GuardrailsMirrored(n)'
      BY <1>2, <1>7, <2>2, <2>3, <3>3, InputsKept
    <3>5. tgs'[n].status =
            [conds |-> [ready |-> ReadyCond(tgs'[n]), unsupported |-> None], url |-> TRUE]
      BY <1>1, <1>2, <2>2, <3>3, ReadyPatched
    <3>. QED
      BY <3>3, <3>4, <3>5 DEF Mirrored
  <2>. QED
    BY <1>0, <1>1, <1>2, <1>4, <1>6, <1>7, <2>3, EndsMirror
<1>. QED
  BY <1>3, <1>8, <1>9

\* A failing call.
LEMMA CallFailsMirror ==
  ASSUME TypeOK, TypeOK', MirrorInv, CallFails
  PROVE  MirrorInv'
<1>1. PICK n : n = job.key
  OBVIOUS
<1>2. /\ job.pc \in {"params", "gateway", "guardrails", "ready", "notready"}
      /\ UNCHANGED <<tgs, guards, classes, params, gws, policies, caches,
                     wTgs, wGuards, wGws, wOthers>>
  BY DEF CallFails, cluster, watches
<1>3. job # Idle
  BY <1>2, AtWork
<1>4. \/ /\ job.pc \in {"params", "gateway", "guardrails"} /\ UNCHANGED queue
         /\ \E reason : FailWith(reason, None)
      \/ Return(TRUE)
  BY Zenon DEF CallFails
<1>5. CASE Return(TRUE)
  <2>1. job' = Idle /\ queue' = queue \cup {n}
    BY <1>1, <1>5 DEF Return
  <2>2. Noted /\ Kept
    BY <1>2, <2>1, ChildrenNoted
  <2>. QED
    BY <1>1, <1>2, <1>3, <2>1, <2>2, EndsMirror
<1>6. CASE /\ job.pc \in {"params", "gateway", "guardrails"} /\ UNCHANGED queue
           /\ \E reason : FailWith(reason, None)
  <2>1. job'.key = n /\ job'.pc = "notready" /\ job.pc # "notready"
    BY <1>1, <1>6 DEF FailWith, Job
  <2>2. Noted /\ Kept
    BY <1>2, <1>6, ChildrenNoted
  <2>. QED
    BY <1>1, <1>2, <1>3, <2>1, <2>2, GoesOn
<1>. QED
  BY <1>4, <1>5, <1>6

\* After a restart every ToolGateway is queued.
LEMMA RestartMirror ==
  ASSUME TypeOK, Restart
  PROVE  MirrorInv'
<1>1. /\ job' = Idle /\ cTgs' = tgs' /\ cGuards' = guards' /\ cClasses' = classes' /\ cGws' = gws'
      /\ \A k \in Gateways : tgs'[k] # None => k \in queue'
  BY DEF Restart, cluster
<1>2. CachesSeen' /\ JobRightOrDue'
  BY <1>1 DEF CachesSeen, GuardsSeen, JobRightOrDue
<1>3. MirroredOrDue'
  BY <1>1 DEF MirroredOrDue, Due, Claimed
<1>. QED
  BY <1>2, <1>3 DEF MirrorInv

-----------------------------------------------------------------------------
(* All steps together.                                                     *)

\* A step in which the worker stands still.
LEMMA MirrorQuiet ==
  ASSUME TypeOK, TypeOK', MirrorInv, Noted, Kept, CachesSeen', UNCHANGED job
  PROVE  MirrorInv'
<1>1. PICK n : n = job.key
  OBVIOUS
<1>2. MirroredOrDue'
  BY <1>1, MirrorKept DEF MirrorInv
<1>3. JobRightOrDue'
  BY JobRightKept DEF MirrorInv
<1>. QED
  BY <1>2, <1>3 DEF MirrorInv

\* MirrorInv is inductive, given types and that Ready excludes Unsupported.
LEMMA MirrorStep ==
  TypeOK /\ TypeOK' /\ ReadyNotUnsupported /\ MirrorInv /\ [Next]_vars => MirrorInv'
<1>. SUFFICES ASSUME TypeOK, TypeOK', ReadyNotUnsupported, MirrorInv, Next \/ UNCHANGED vars
              PROVE  MirrorInv'
  OBVIOUS
<1>1. CASE UNCHANGED vars
  BY <1>1, ChildrenNoted, SeenKept, MirrorQuiet DEF MirrorInv, vars, cluster, watches
<1>2. CASE Users \/ \E k \in Gateways : Collect(k)
  BY <1>2, BackgroundNoted, MirrorQuiet DEF MirrorInv
<1>3. CASE Informers
  BY <1>3, InformersNoted, MirrorQuiet DEF MirrorInv
<1>4. CASE Proceed
  BY <1>4, ParamsMirror, GatewayMirror, GuardrailsMirror, StatusMirror DEF Proceed
<1>. QED
  BY <1>1, <1>2, <1>3, <1>4, BeginMirror, CallFailsMirror, RestartMirror DEF Next

\* At first every cache is up to date, and every ToolGateway queued.
LEMMA MirrorInit == Init => MirrorInv
<1>. SUFFICES ASSUME Init PROVE MirrorInv
  OBVIOUS
<1>1. /\ job = Idle /\ cTgs = tgs /\ cGuards = guards /\ cClasses = classes /\ cGws = gws
      /\ \A k \in Gateways : tgs[k] # None => k \in queue
  BY DEF Init
<1>2. CachesSeen /\ JobRightOrDue
  BY <1>1 DEF CachesSeen, GuardsSeen, JobRightOrDue
<1>3. MirroredOrDue
  BY <1>1 DEF MirroredOrDue, Due, Claimed
<1>. QED
  BY <1>2, <1>3 DEF MirrorInv

\* The invariant of the argument holds throughout.
THEOREM MirrorInvariant == Spec => []MirrorInv
BY MirrorInit, MirrorStep, TypeCorrect, NeverReadyUnsupported, PTL DEF Spec

\* Nothing is due for what has settled.
LEMMA MirrorSettles == MirrorInv => SettledMirrors
<1>1. ASSUME NEW k \in Gateways, Settled(k) PROVE ~Due(k) /\ job.key # k
  BY <1>1 DEF Settled, EventsHandled, Due
<1>. QED
  BY <1>1 DEF MirrorInv, MirroredOrDue, SettledMirrors

\* Once all events are handled and no Reconcile of a claimed ToolGateway is
\* queued or under way, it is Ready, its Parameters and Gateway are those of
\* its spec and its policy that of its Guard, which is Ready now: no order of
\* stale reads, failed calls, lost answers and restarts leaves it otherwise.
THEOREM AlwaysSettlesMirrored == Spec => []SettledMirrors
BY MirrorSettles, MirrorInvariant, PTL
=============================================================================
