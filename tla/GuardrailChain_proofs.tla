----------------------- MODULE GuardrailChain_proofs -----------------------
(***************************************************************************)
(* The two controllers together.  Each keeps its own inductive invariant   *)
(* while it moves, by the lemmas proved about it alone; what is left to    *)
(* show is that it also keeps it while the other one moves.  That a Ready  *)
(* ToolGateway has an adapter behind it follows from the two invariants.   *)
(***************************************************************************)
EXTENDS GuardrailChain, GuardReconciler_proofs

\* The ToolGateway controller of GuardrailChain, with its lemmas.
TGP == INSTANCE ToolGatewayMirror_proofs
         WITH guards <- GuardView, cGuards <- cGuardView, GuardObjects <- GuardViews,
              wGuards <- tgGuards, wProviders <- tgProviders,
              queue <- tgQueue, job <- tgJob

-----------------------------------------------------------------------------
(* TG and TGP are instances of the same definitions.                       *)

\* The translation of the environment.
LEMMA SameParams ==
  ASSUME NEW spec
  PROVE  TG!setAgentgatewayParametersSpec(spec) = TGP!setAgentgatewayParametersSpec(spec)
<1>1. \A x : TG!parseHeaders(x) = TGP!parseHeaders(x)
  BY DEF TG!parseHeaders, TGP!parseHeaders
<1>2. \A x : TG!buildTelemetryConfig(x) = TGP!buildTelemetryConfig(x)
  BY <1>1 DEF TG!buildTelemetryConfig, TGP!buildTelemetryConfig, TG!TracingValue, TGP!TracingValue,
         TG!NormalizedProtocol, TGP!NormalizedProtocol
<1>3. \A x : TG!extractOTELEnvVars(x) = TGP!extractOTELEnvVars(x)
  BY DEF TG!extractOTELEnvVars, TGP!extractOTELEnvVars, TG!LastValue, TGP!LastValue,
         TG!OtelNames, TGP!OtelNames, TG!OtelName, TGP!OtelName, TG!Signals, TGP!Signals,
         TG!Kinds, TGP!Kinds
<1>. QED
  BY <1>2, <1>3 DEF TG!setAgentgatewayParametersSpec, TGP!setAgentgatewayParametersSpec

\* What users and the garbage collector do to ToolGateways and their children.
LEMMA SameUsers ==
  ASSUME NEW k \in Gateways,
         TG!CreateGateway(k) \/ TG!EditGateway(k) \/ TG!DeleteGateway(k) \/ TG!Tamper(k) \/ TG!Collect(k)
  PROVE  TGP!CreateGateway(k) \/ TGP!EditGateway(k) \/ TGP!DeleteGateway(k) \/ TGP!Tamper(k) \/ TGP!Collect(k)
  BY DEF TG!CreateGateway, TGP!CreateGateway, TG!EditGateway, TGP!EditGateway, TG!DeleteGateway,
         TGP!DeleteGateway, TG!Tamper, TGP!Tamper, TG!Collect, TGP!Collect, TG!Garbage,
         TGP!Garbage, TG!Live, TGP!Live, TG!NewGateway, TGP!NewGateway, TG!EditedGateway,
         TGP!EditedGateway, TG!NoStatus, TGP!NoStatus, TG!TgChanged, TGP!TgChanged, TG!GwChanged,
         TGP!GwChanged, TG!ParamsChanged, TGP!ParamsChanged, TG!PolicyChanged, TGP!PolicyChanged,
         TG!Edit, TGP!Edit, TG!MayDisturb, TGP!MayDisturb, TG!Event, TGP!Event, TG!cluster,
         TGP!cluster, TG!caches, TGP!caches, TG!watches, TGP!watches

\* The informers and handlers.
LEMMA SameInformers ==
  /\ \A k \in Gateways : /\ TG!SyncGateway(k) => TGP!SyncGateway(k)
                         /\ TG!HandleGateway(k) => TGP!HandleGateway(k)
                         /\ TG!SyncGw(k) => TGP!SyncGw(k)
                         /\ TG!HandleChild(k) => TGP!HandleChild(k)
  /\ \A g \in Guards : TG!HandleGuard(g) => TGP!HandleGuard(g)
  /\ \A p \in Providers : TG!HandleProvider(p) => TGP!HandleProvider(p)
  BY DEF TG!SyncGateway, TGP!SyncGateway, TG!HandleGateway, TGP!HandleGateway, TG!SyncGw,
         TGP!SyncGw, TG!HandleChild, TGP!HandleChild, TG!HandleGuard, TGP!HandleGuard,
         TG!HandleProvider, TGP!HandleProvider, TG!findToolGatewayForGuard,
         TGP!findToolGatewayForGuard, TG!findToolGatewayForGuardrailProvider,
         TGP!findToolGatewayForGuardrailProvider, TG!GuardRefs, TGP!GuardRefs, TG!RefKey,
         TGP!RefKey, TG!cluster, TGP!cluster, TG!caches, TGP!caches, TG!watches, TGP!watches

\* The start of Reconcile.
LEMMA SameBegin == \A k \in Gateways : TG!Begin(k) => TGP!Begin(k)
  BY DEF TG!Begin, TGP!Begin, TG!BeginNotFound, TGP!BeginNotFound, TG!BeginNotOwned,
         TGP!BeginNotOwned, TG!BeginOwned, TGP!BeginOwned, TG!Dequeue, TGP!Dequeue, TG!Owned,
         TGP!Owned, TG!isToolGatewayOwnedByController, TGP!isToolGatewayOwnedByController,
         TG!Job, TGP!Job, TG!Idle, TGP!Idle, TG!cluster, TGP!cluster, TG!caches, TGP!caches,
         TG!watches, TGP!watches

\* The calls of Reconcile.
LEMMA SameProceed == TG!Proceed => TGP!Proceed
<1>1. TG!ensureAgentgatewayParameters => TGP!ensureAgentgatewayParameters
  BY SameParams DEF TG!ensureAgentgatewayParameters, TGP!ensureAgentgatewayParameters, TG!ParamsFor,
         TGP!ParamsFor, TG!ParamsChanged, TGP!ParamsChanged, TG!Event, TGP!Event,
         TG!reasonAgentgatewayParametersFailed, TGP!reasonAgentgatewayParametersFailed,
         TG!CreateOrPatch, TGP!CreateOrPatch, TG!MergePatch, TGP!MergePatch, TG!OwnedByAnother,
         TGP!OwnedByAnother, TG!Child, TGP!Child, TG!Fault, TGP!Fault, TG!MayDisturb,
         TGP!MayDisturb, TG!FailWith, TGP!FailWith, TG!Answered, TGP!Answered, TG!Return,
         TGP!Return, TG!Job, TGP!Job, TG!Idle, TGP!Idle, TG!cluster, TGP!cluster, TG!caches,
         TGP!caches, TG!watches, TGP!watches
<1>2. TG!ensureGateway => TGP!ensureGateway
  BY DEF TG!ensureGateway, TGP!ensureGateway, TG!GatewayFor, TGP!GatewayFor, TG!GwChanged,
         TGP!GwChanged, TG!Event, TGP!Event, TG!reasonGatewayFailed, TGP!reasonGatewayFailed,
         TG!CreateOrPatch, TGP!CreateOrPatch, TG!MergePatch, TGP!MergePatch, TG!OwnedByAnother,
         TGP!OwnedByAnother, TG!Child, TGP!Child, TG!Fault, TGP!Fault, TG!MayDisturb,
         TGP!MayDisturb, TG!FailWith, TGP!FailWith, TG!Answered, TGP!Answered, TG!Return,
         TGP!Return, TG!Job, TGP!Job, TG!Idle, TGP!Idle, TG!cluster, TGP!cluster, TG!caches,
         TGP!caches, TG!watches, TGP!watches
<1>3. TG!ensureNoGuardrails => TGP!ensureNoGuardrails
  BY DEF TG!ensureNoGuardrails, TGP!ensureNoGuardrails, TG!WithUnsupported, TGP!WithUnsupported,
         TG!PolicyChanged, TGP!PolicyChanged, TG!Event, TGP!Event, TG!reasonGuardrailsFailed,
         TGP!reasonGuardrailsFailed, TG!Fault, TGP!Fault, TG!MayDisturb, TGP!MayDisturb,
         TG!FailWith, TGP!FailWith, TG!Answered, TGP!Answered, TG!Return, TGP!Return, TG!Job,
         TGP!Job, TG!Idle, TGP!Idle, TG!cluster, TGP!cluster, TG!caches, TGP!caches, TG!watches,
         TGP!watches
<1>4. TG!MultipleGuards => TGP!MultipleGuards
  BY DEF TG!MultipleGuards, TGP!MultipleGuards, TG!WithUnsupported, TGP!WithUnsupported,
         TG!reasonGuardrailsFailed, TGP!reasonGuardrailsFailed, TG!Fault, TGP!Fault,
         TG!MayDisturb, TGP!MayDisturb, TG!FailWith, TGP!FailWith, TG!Answered, TGP!Answered,
         TG!Return, TGP!Return, TG!Job, TGP!Job, TG!Idle, TGP!Idle, TG!cluster, TGP!cluster,
         TG!caches, TGP!caches, TG!watches, TGP!watches
<1>5. TG!GuardNotUsable => TGP!GuardNotUsable
  BY DEF TG!GuardNotUsable, TGP!GuardNotUsable, TG!GuardReady, TGP!GuardReady, TG!jobGuard,
         TGP!jobGuard, TG!Get, TGP!Get, TG!RefKey, TGP!RefKey, TG!reasonGuardNotFound,
         TGP!reasonGuardNotFound, TG!reasonGuardNotReady, TGP!reasonGuardNotReady, TG!Fault,
         TGP!Fault, TG!MayDisturb, TGP!MayDisturb, TG!FailWith, TGP!FailWith, TG!Answered,
         TGP!Answered, TG!Return, TGP!Return, TG!Job, TGP!Job, TG!Idle, TGP!Idle, TG!cluster,
         TGP!cluster, TG!caches, TGP!caches, TG!watches, TGP!watches
<1>6. TG!ensureGuardrailPolicy => TGP!ensureGuardrailPolicy
  BY DEF TG!ensureGuardrailPolicy, TGP!ensureGuardrailPolicy, TG!PolicyFor, TGP!PolicyFor,
         TG!buildGuardrailPolicySpec, TGP!buildGuardrailPolicySpec, TG!GuardReady,
         TGP!GuardReady, TG!jobGuard, TGP!jobGuard, TG!Get, TGP!Get, TG!RefKey, TGP!RefKey,
         TG!WithUnsupported, TGP!WithUnsupported, TG!PolicyChanged, TGP!PolicyChanged, TG!Event,
         TGP!Event, TG!reasonGuardrailsFailed, TGP!reasonGuardrailsFailed, TG!CreateOrPatch,
         TGP!CreateOrPatch, TG!MergePatch, TGP!MergePatch, TG!OwnedByAnother, TGP!OwnedByAnother,
         TG!Child, TGP!Child, TG!Fault, TGP!Fault, TG!MayDisturb, TGP!MayDisturb, TG!FailWith,
         TGP!FailWith, TG!Answered, TGP!Answered, TG!Return, TGP!Return, TG!Job, TGP!Job,
         TG!Idle, TGP!Idle, TG!cluster, TGP!cluster, TG!caches, TGP!caches, TG!watches,
         TGP!watches
<1>7. TG!updateStatusReady => TGP!updateStatusReady
  BY DEF TG!updateStatusReady, TGP!updateStatusReady, TG!PatchStatus, TGP!PatchStatus,
         TG!ReadyStatus, TGP!ReadyStatus, TG!ReadyCond, TGP!ReadyCond, TG!TgChanged,
         TGP!TgChanged, TG!Event, TGP!Event, TG!MergePatch, TGP!MergePatch, TG!reasonReconciled,
         TGP!reasonReconciled, TG!Fault, TGP!Fault, TG!MayDisturb, TGP!MayDisturb, TG!FailWith,
         TGP!FailWith, TG!Answered, TGP!Answered, TG!Return, TGP!Return, TG!Job, TGP!Job,
         TG!Idle, TGP!Idle, TG!cluster, TGP!cluster, TG!caches, TGP!caches, TG!watches,
         TGP!watches
<1>8. TG!updateStatusNotReady => TGP!updateStatusNotReady
  BY DEF TG!updateStatusNotReady, TGP!updateStatusNotReady, TG!PatchStatus, TGP!PatchStatus,
         TG!NotReadyStatus, TGP!NotReadyStatus, TG!NotReadyCond, TGP!NotReadyCond, TG!TgChanged,
         TGP!TgChanged, TG!Event, TGP!Event, TG!MergePatch, TGP!MergePatch, TG!Fault, TGP!Fault,
         TG!MayDisturb, TGP!MayDisturb, TG!FailWith, TGP!FailWith, TG!Answered, TGP!Answered,
         TG!Return, TGP!Return, TG!Job, TGP!Job, TG!Idle, TGP!Idle, TG!cluster, TGP!cluster,
         TG!caches, TGP!caches, TG!watches, TGP!watches
<1>. QED
  BY <1>1, <1>2, <1>3, <1>4, <1>5, <1>6, <1>7, <1>8 DEF TG!Proceed, TGP!Proceed

\* A failing call and a restart.
LEMMA SameFailures == /\ TG!CallFails => TGP!CallFails
                      /\ TG!Restart => TGP!Restart
  BY DEF TG!CallFails, TGP!CallFails, TG!Restart, TGP!Restart, TG!GuardReady, TGP!GuardReady,
         TG!jobGuard, TGP!jobGuard, TG!Get, TGP!Get, TG!RefKey, TGP!RefKey, TG!reasonReconciled,
         TGP!reasonReconciled, TG!reasonAgentgatewayParametersFailed,
         TGP!reasonAgentgatewayParametersFailed, TG!reasonGatewayFailed, TGP!reasonGatewayFailed,
         TG!reasonGuardrailsFailed, TGP!reasonGuardrailsFailed, TG!reasonGuardNotFound,
         TGP!reasonGuardNotFound, TG!reasonGuardNotReady, TGP!reasonGuardNotReady, TG!Fault,
         TGP!Fault, TG!MayDisturb, TGP!MayDisturb, TG!FailWith, TGP!FailWith, TG!Answered,
         TGP!Answered, TG!Return, TGP!Return, TG!Job, TGP!Job, TG!Idle, TGP!Idle, TG!cluster,
         TGP!cluster, TG!caches, TGP!caches, TG!watches, TGP!watches

\* The initial states.
LEMMA SameInit == TG!Init => TGP!Init
  BY DEF TG!Init, TGP!Init, TG!NewGateway, TGP!NewGateway, TG!NoStatus, TGP!NoStatus, TG!Job,
         TGP!Job, TG!Idle, TGP!Idle

\* What the ToolGateway controller assumes of its constants holds here.
LEMMA Assumptions ==
  /\ MaxEdits \in Nat /\ MaxFaults \in Nat /\ MaxCrashes \in Nat /\ MaxDisturbances \in Nat
  /\ None \notin Gateways /\ None \notin GatewaySpecs /\ None \notin GuardViews /\ Failed # None
  /\ \A s \in GatewaySpecs : DOMAIN s.guardrails = 1..Len(s.guardrails)
  /\ None \notin TGP!TgObjects /\ None \notin TGP!Conditions(TGP!Abouts)
<1>1. TG!Reasons = TGP!Reasons
  BY DEF TG!Reasons, TGP!Reasons, TG!reasonReconciled, TGP!reasonReconciled,
         TG!reasonAgentgatewayParametersFailed, TGP!reasonAgentgatewayParametersFailed,
         TG!reasonGatewayFailed, TGP!reasonGatewayFailed, TG!reasonGuardrailsFailed,
         TGP!reasonGuardrailsFailed, TG!reasonGuardNotFound, TGP!reasonGuardNotFound,
         TG!reasonGuardNotReady, TGP!reasonGuardNotReady
<1>2. TG!GuardKeys = TGP!GuardKeys
  BY DEF TG!GuardKeys, TGP!GuardKeys, TG!RefKey, TGP!RefKey
<1>3. TG!Abouts = TGP!Abouts
  BY <1>2 DEF TG!Abouts, TGP!Abouts
<1>4. TG!Conditions(TG!Abouts) = TGP!Conditions(TGP!Abouts)
  BY <1>1, <1>3 DEF TG!Conditions, TGP!Conditions
<1>5. TG!TgObjects = TGP!TgObjects
  BY <1>4 DEF TG!TgObjects, TGP!TgObjects, TG!Statuses, TGP!Statuses
<1>. QED
  BY <1>4, <1>5, GatewayAssumption, BoundsAssumption, NoneAssumption

-----------------------------------------------------------------------------
(* The invariants, and each controller's own steps.                        *)

GuardInv   == TypeOK /\ MirrorInv /\ AdapterInv
GatewayInv == /\ TGP!TypeOK /\ TGP!ReadyTakesBack /\ TGP!ReadyNotUnsupported
              /\ TGP!GuardrailInv /\ TGP!ReadyGuardInv /\ TGP!MirrorInv
ChainInv   == GuardInv /\ GatewayInv

\* The Guard controller keeps its invariant when it moves.
LEMMA GuardMoves == GuardInv /\ [Next]_vars => GuardInv'
<1>. SUFFICES ASSUME GuardInv, [Next]_vars PROVE GuardInv'
  OBVIOUS
<1>1. TypeOK'
  BY NextType DEF GuardInv
<1>2. MirrorInv'
  BY <1>1, MirrorStep DEF GuardInv
<1>3. AdapterInv'
  BY <1>1, <1>2, AdapterStep DEF GuardInv
<1>. QED
  BY <1>1, <1>2, <1>3 DEF GuardInv

\* So does the ToolGateway controller.
LEMMA GatewayMoves == GatewayInv /\ [TGP!Next]_(TGP!vars) => GatewayInv'
<1>. SUFFICES ASSUME GatewayInv, [TGP!Next]_(TGP!vars) PROVE GatewayInv'
  OBVIOUS
<1>1. TGP!TypeOK'
  BY Assumptions, TGP!NextType DEF GatewayInv
<1>2. TGP!ReadyTakesBack'
  BY Assumptions, TGP!TakesBackStep DEF GatewayInv
<1>3. TGP!ReadyNotUnsupported'
  BY Assumptions, TGP!NotUnsupportedStep DEF GatewayInv
<1>4. TGP!GuardrailInv'
  BY <1>1, Assumptions, TGP!GuardrailStep DEF GatewayInv
<1>5. TGP!ReadyGuardInv'
  BY <1>1, Assumptions, TGP!ReadyGuardStep DEF GatewayInv
<1>6. TGP!MirrorInv'
  BY <1>1, Assumptions, TGP!MirrorStep DEF GatewayInv
<1>. QED
  BY <1>1, <1>2, <1>3, <1>4, <1>5, <1>6 DEF GatewayInv

-----------------------------------------------------------------------------
(* Each controller while the other one moves.                              *)

\* The Guard controller keeps its invariant while the other one moves.
LEMMA GuardRests ==
  ASSUME GuardInv, UNCHANGED guardSide, BoundsOK'
  PROVE  GuardInv'
<1>1. /\ UNCHANGED <<guards, providers, adapters, pods, cGuards, cProviders, cAdapters>>
      /\ UNCHANGED <<wGuards, wProviders, wAdapters, image, queue, job, swallowed>>
  BY DEF guardSide, cluster, caches, watches
<1>2. TypeOK'
  BY <1>1 DEF GuardInv, TypeOK, ClusterTypeOK, AdaptersTypeOK, ChildOf, QueueTypeOK, JobTypeOK
<1>3. Noted /\ Kept /\ \A c \in Kinds, j \in Guards : AdapterEvent(c, j) => AdapterEvent(c, j)'
  BY <1>1, NothingNoted DEF watches
<1>4. CachesSeen'
  BY <1>1, <1>3, SeenKept DEF GuardInv, MirrorInv, caches
<1>5. PICK n : n = job.key
  OBVIOUS
<1>6. JobRightOrDue' /\ MirroredOrDue'
  BY <1>1, <1>2, <1>3, <1>5, JobRightKept, MirrorKept DEF GuardInv, MirrorInv
<1>7. AdapterInv'
  BY <1>1, <1>2, <1>3, <1>4, AdapterInvKept DEF GuardInv
<1>. QED
  BY <1>2, <1>4, <1>6, <1>7 DEF GuardInv, MirrorInv

\* What the ToolGateway controller sees of Guards is what its types allow.
LEMMA Viewed ==
  ASSUME NEW objs \in [Guards -> GuardObjects \cup {None}]
  PROVE  [g \in Guards |-> View(objs[g])] \in [Guards -> GuardViews \cup {None}]
<1>1. ASSUME NEW obj \in GuardObjects \cup {None} PROVE View(obj) \in GuardViews \cup {None}
  <2>1. CASE obj = None
    BY <2>1 DEF View
  <2>2. CASE obj \in GuardObjects /\ obj # None
    <3>1. obj.spec \in GuardSpecs /\ obj.status.cond \in Conditions \cup {None}
      BY <2>2 DEF GuardObjects, Statuses
    <3>2. obj.status.cond # None => obj.status.cond.status \in {"True", "False"}
      BY <3>1 DEF Conditions
    <3>. QED
      BY <2>2, <3>1, <3>2 DEF View, GuardViews
  <2>. QED
    BY <2>1, <2>2
<1>. QED
  BY <1>1

\* All of the ToolGateway controller's side but the events that it is to hear of.
gatewayRest == <<tgs, classes, params, gws, policies, cTgs, cClasses, cGws,
                 wTgs, wGws, wOthers, tgQueue, tgJob>>

\* The ToolGateway controller keeps its invariant while the other one moves:
\* what changes in a Guard is an event, and the shared cache only catches up.
LEMMA GatewayRests ==
  ASSUME GatewayInv, TypeOK, TypeOK', UNCHANGED gatewayRest, edits <= edits',
         tgGuards' = tgGuards \cup {g \in Guards : guards'[g] # guards[g]},
         tgProviders' \subseteq Providers,
         \A g \in Guards : cGuards'[g] = cGuards[g] \/ cGuards'[g] = guards[g]
  PROVE  GatewayInv'
<1>1. UNCHANGED <<tgs, classes, params, gws, policies, cTgs, cClasses, cGws,
                  wTgs, wGws, wOthers, tgQueue, tgJob>>
  BY DEF gatewayRest
<1>2. TGP!TypeOK'
  <2>1. TGP!ClusterTypeOK'
    BY <1>1, Viewed DEF GatewayInv, TGP!TypeOK, TGP!ClusterTypeOK, GuardView, cGuardView,
                        TypeOK, ClusterTypeOK
  <2>2. TGP!QueueTypeOK'
    BY <1>1 DEF GatewayInv, TGP!TypeOK, TGP!QueueTypeOK
  <2>3. TGP!BoundsOK'
    BY DEF TypeOK, BoundsOK, TGP!BoundsOK
  <2>4. TGP!ChildrenTypeOK' /\ TGP!JobTypeOK'
    BY <1>1 DEF GatewayInv, TGP!TypeOK, TGP!ChildrenTypeOK, TGP!ChildOf, TGP!JobTypeOK
  <2>. QED
    BY <2>1, <2>2, <2>3, <2>4 DEF TGP!TypeOK
<1>3. TGP!ReadyTakesBack' /\ TGP!ReadyNotUnsupported'
  BY <1>1 DEF GatewayInv, TGP!ReadyTakesBack, TGP!ReadyNotUnsupported
<1>4. \A g \in Guards : GuardView'[g] = GuardView[g] \/ g \in tgGuards'
  BY DEF GuardView
<1>5. TGP!GuardsSeen'
  <2>. SUFFICES ASSUME NEW g \in Guards, g \notin tgGuards' PROVE cGuardView'[g] = GuardView'[g]
    BY DEF TGP!GuardsSeen
  <2>1. guards'[g] = guards[g] /\ cGuardView[g] = GuardView[g]
    BY DEF GatewayInv, TGP!ReadyGuardInv, TGP!GuardsSeen
  <2>. QED
    BY <2>1 DEF GuardView, cGuardView
<1>6. TGP!GuardrailInv'
  <2>1. edits' \in Nat
    BY Assumptions DEF TypeOK, BoundsOK
  <2>. QED
    BY <1>1, <2>1, Assumptions, TGP!QuietStep DEF GatewayInv, TGP!SameJob
<1>7. TGP!ReadyGuardInv'
  <2>1. TGP!EventsKept
    BY <1>1, <1>4 DEF TGP!EventsKept
  <2>. QED
    BY <1>1, <1>2, <1>5, <2>1, Assumptions, TGP!ReadyGuardQuiet DEF GatewayInv
<1>8. TGP!MirrorInv'
  <2>1. TGP!Noted
    BY <1>1, <1>4 DEF TGP!Noted
  <2>2. TGP!Kept
    BY <1>1 DEF TGP!Kept, TGP!Events
  <2>3. TGP!CachesSeen'
    BY <1>1, <1>5 DEF GatewayInv, TGP!MirrorInv, TGP!CachesSeen
  <2>. QED
    BY <1>1, <1>2, <2>1, <2>2, <2>3, Assumptions, TGP!MirrorQuiet DEF GatewayInv
<1>. QED
  BY <1>2, <1>3, <1>6, <1>7, <1>8 DEF GatewayInv

\* No step of the Guard controller takes the cache of Guards back.
LEMMA GuardCacheSteps ==
  ASSUME TypeOK, Users \/ Informers \/ Worker \/ Cluster
  PROVE  /\ edits <= edits'
         /\ \A g \in Guards : cGuards'[g] = cGuards[g] \/ cGuards'[g] = guards[g]
<1>1. edits \in Nat
  BY BoundsAssumption DEF TypeOK, BoundsOK
<1>2. CASE Users
  BY <1>1, <1>2 DEF Users, CreateGuard, EditGuard, DeleteGuard, DeleteAdapter, SetProvider, Edit, caches
<1>3. CASE Informers
  <2>1. ASSUME NEW k \in Guards, SyncGuard(k)
        PROVE  edits' = edits /\ \A g \in Guards : cGuards'[g] = cGuards[g] \/ cGuards'[g] = guards[g]
    BY <2>1 DEF SyncGuard, TypeOK, ClusterTypeOK
  <2>2. (\E k \in Guards : SyncGuard(k)) \/ UNCHANGED <<cGuards, edits>>
    BY <1>3 DEF Informers, HandleGuard, SyncAdapter, HandleAdapter, SyncProvider,
                HandleProvider, caches
  <2>. QED
    BY <1>1, <2>1, <2>2
<1>4. CASE Worker
  <2>1. UNCHANGED <<cGuards, edits>>
    <3>1. ASSUME NEW k \in Guards, BeginNotFound(k) \/ Begin(k) PROVE UNCHANGED <<cGuards, edits>>
      BY <3>1 DEF BeginNotFound, Begin, caches
    <3>2. ASSUME NEW kind, NEW next, ensure(kind, next) PROVE UNCHANGED <<cGuards, edits>>
      BY <3>2 DEF ensure, caches
    <3>3. CASE WriteReady \/ WriteNotReady \/ WriteNotReadyNotFound \/ CallFails
      BY <3>3 DEF WriteReady, WriteNotReady, WriteNotReadyNotFound, CallFails, caches
    <3>. QED
      BY <1>4, <3>1, <3>2, <3>3 DEF Worker, Proceed, ensureConfigMap, ensureDeployment, ensureService
  <2>. QED
    BY <1>1, <2>1
<1>5. CASE Cluster
  BY <1>1, <1>5 DEF Cluster, StartPods, Collect, caches
<1>. QED
  BY <1>2, <1>3, <1>4, <1>5

\* A step of the Guard controller, or of a user on its inputs.
LEMMA GuardStepKeeps ==
  ASSUME ChainInv, GuardStep(Users) \/ GuardStep(Informers) \/ GuardStep(Worker)
                   \/ \E g \in Guards, kind \in Kinds : GuardStep(Collect(kind, g))
  PROVE  ChainInv'
<1>1. /\ Users \/ Informers \/ Worker \/ Cluster
      /\ UNCHANGED gatewayRest
      /\ tgGuards' = tgGuards \cup {g \in Guards : guards'[g] # guards[g]}
      /\ tgProviders' = tgProviders \cup {p \in Providers : providers'[p] # providers[p]}
  BY DEF GuardStep, gatewayRest, Cluster
<1>2. GuardInv'
  BY <1>1, GuardMoves DEF ChainInv, Next
<1>3. tgProviders' \subseteq Providers
  BY <1>1 DEF ChainInv, GatewayInv, TGP!TypeOK, TGP!QueueTypeOK
<1>4. GatewayInv'
  BY <1>1, <1>2, <1>3, GuardCacheSteps, GatewayRests DEF ChainInv, GuardInv
<1>. QED
  BY <1>2, <1>4 DEF ChainInv

\* A step of the ToolGateway controller, or of a user on its inputs.
LEMMA GatewayStepKeeps ==
  ASSUME ChainInv, UNCHANGED guardSide, [TGP!Next]_(TGP!vars)
  PROVE  ChainInv'
<1>1. GatewayInv'
  BY GatewayMoves DEF ChainInv
<1>2. BoundsOK'
  BY <1>1 DEF GatewayInv, TGP!TypeOK, TGP!BoundsOK, BoundsOK
<1>. QED
  BY <1>1, <1>2, GuardRests DEF ChainInv

-----------------------------------------------------------------------------
(* The composition.                                                        *)

\* All steps together; a restart is one of both controllers.
LEMMA ChainStep == ChainInv /\ [ChainNext]_chainVars => ChainInv'
<1>. SUFFICES ASSUME ChainInv, ChainNext \/ UNCHANGED chainVars PROVE ChainInv'
  OBVIOUS
<1>1. CASE UNCHANGED chainVars
  <2>1. UNCHANGED guardSide
    BY <1>1 DEF chainVars, vars, guardSide
  <2>2. UNCHANGED TGP!vars
    BY <1>1 DEF chainVars, vars, cluster, caches, gatewaySide, TGP!vars, TGP!cluster, TGP!caches,
                TGP!watches, GuardView, cGuardView
  <2>. QED
    BY <2>1, <2>2, GatewayStepKeeps
<1>2. ASSUME NEW k \in Gateways,
             \/ GatewayStep(TG!CreateGateway(k)) \/ GatewayStep(TG!EditGateway(k))
             \/ GatewayStep(TG!DeleteGateway(k)) \/ GatewayStep(TG!Tamper(k))
             \/ GatewayStep(TG!Collect(k))
      PROVE  ChainInv'
  BY <1>2, SameUsers, GatewayStepKeeps DEF GatewayStep, TGP!Next, TGP!Users
<1>3. ASSUME NEW k \in Gateways,
             \/ GatewayStep(TG!SyncGateway(k)) \/ GatewayStep(TG!HandleGateway(k))
             \/ GatewayStep(TG!SyncGw(k)) \/ GatewayStep(TG!HandleChild(k))
             \/ GatewayStep(TG!Begin(k))
      PROVE  ChainInv'
  BY <1>3, SameInformers, SameBegin, GatewayStepKeeps DEF GatewayStep, TGP!Next, TGP!Informers
<1>4. ASSUME NEW g \in Guards, GatewayHandlesGuard(g) PROVE ChainInv'
  BY <1>4, SameInformers, GatewayStepKeeps DEF GatewayHandlesGuard, GatewayStep, TGP!Next, TGP!Informers
<1>5. ASSUME NEW q \in Providers, GatewayStep(TG!HandleProvider(q)) PROVE ChainInv'
  BY <1>5, SameInformers, GatewayStepKeeps DEF GatewayStep, TGP!Next, TGP!Informers
<1>6. CASE GatewayStep(TG!Proceed) \/ GatewayStep(TG!CallFails)
  BY <1>6, SameProceed, SameFailures, GatewayStepKeeps DEF GatewayStep, TGP!Next
<1>7. CASE RestartOperator
  <2>1. GuardInv'
    BY <1>7, GuardMoves DEF RestartOperator, ChainInv, Next
  <2>2. GatewayInv'
    BY <1>7, SameFailures, GatewayMoves DEF RestartOperator, ChainInv, TGP!Next
  <2>. QED
    BY <2>1, <2>2 DEF ChainInv
<1>. QED
  BY <1>1, <1>2, <1>3, <1>4, <1>5, <1>6, <1>7, GuardStepKeeps
     DEF ChainNext, ChainUsers, GuardController, GatewayController

\* The invariants hold at first.
LEMMA ChainStart == ChainInit => ChainInv
<1>. SUFFICES ASSUME Init, TGP!Init PROVE ChainInv
  BY SameInit DEF ChainInit
<1>1. GuardInv
  BY InitType, MirrorInit, AdapterInit DEF GuardInv
<1>2. GatewayInv
  BY Assumptions, TGP!InitType, TGP!ApartInit, TGP!GuardrailInit, TGP!ReadyGuardInit, TGP!MirrorInit
     DEF GatewayInv
<1>. QED
  BY <1>1, <1>2 DEF ChainInv

\* Composed in one operator, with one cache of Guards, a common restart and
\* events that wake both, the two controllers keep the invariants that each of
\* them keeps alone: what TypeOK, SettledMirrors, ReadyHasAdapter and
\* GuardrailInForce say of them holds in the composition.
THEOREM ChainInvariant == ChainSpec => []ChainInv
BY ChainStart, ChainStep, PTL DEF ChainSpec

\* A Guard that the ToolGateway controller would take for Ready says so.
LEMMA ReadyInView ==
  ASSUME TypeOK, NEW g, TGP!GuardReady(GuardView, g)
  PROVE  g \in Guards /\ Get(guards, g) # None /\ SaysReady(g)
<1>1. DOMAIN GuardView = Guards /\ DOMAIN guards = Guards
  BY DEF GuardView, TypeOK, ClusterTypeOK
<1>2. g \in Guards /\ GuardView[g] # None /\ GuardView[g].ready = "True"
  BY <1>1 DEF TGP!GuardReady, TGP!Get
<1>3. GuardView[g] = View(guards[g])
  BY <1>2 DEF GuardView
<1>4. guards[g] # None
  BY <1>2, <1>3 DEF View
<1>5. View(guards[g]).ready = IF guards[g].status.cond = None THEN None ELSE guards[g].status.cond.status
  BY <1>4 DEF View
<1>. QED
  BY <1>1, <1>2, <1>3, <1>4, <1>5, GatewayAssumption DEF Get, SaysReady

\* The properties of the two instances are the same, too.
LEMMA SameProperties ==
  ASSUME NEW k \in Gateways
  PROVE  /\ TG!Claimed(k) <=> TGP!Claimed(k)
         /\ ReportsReady(k) <=> TGP!SaysReady(tgs[k])
         /\ GuardOf(k) = TGP!RefKey(tgs[k].spec.guardrails[1], k.ns)
         /\ TG!Settled(k) <=> TGP!Settled(k)
         /\ TG!Mirrored(k) <=> TGP!Mirrored(k)
<1>1. TG!Claimed(k) <=> TGP!Claimed(k)
  BY DEF TG!Claimed, TGP!Claimed, TG!isToolGatewayOwnedByController,
         TGP!isToolGatewayOwnedByController
<1>2. ReportsReady(k) <=> TGP!SaysReady(tgs[k])
  BY DEF ReportsReady, TG!ReadyCond, TGP!SaysReady, TGP!ReadyCond, TG!reasonReconciled,
         TGP!reasonReconciled
<1>3. GuardOf(k) = TGP!RefKey(tgs[k].spec.guardrails[1], k.ns)
  BY DEF GuardOf, RefKey, TGP!RefKey
<1>4. TG!Settled(k) <=> TGP!Settled(k)
  BY DEF TG!Settled, TGP!Settled, TG!EventsHandled, TGP!EventsHandled
<1>5. TG!GuardrailsMirrored(k) <=> TGP!GuardrailsMirrored(k)
  BY DEF TG!GuardrailsMirrored, TGP!GuardrailsMirrored, TG!GuardReady, TGP!GuardReady, TG!Get,
         TGP!Get, TG!RefKey, TGP!RefKey, TG!PolicyFor, TGP!PolicyFor, TG!Child, TGP!Child,
         TG!buildGuardrailPolicySpec, TGP!buildGuardrailPolicySpec
<1>6. TG!Mirrored(k) <=> TGP!Mirrored(k)
  BY <1>5, SameParams DEF TG!Mirrored, TGP!Mirrored, TG!ReadyCond, TGP!ReadyCond, TG!reasonReconciled,
         TGP!reasonReconciled, TG!ParamsFor, TGP!ParamsFor, TG!GatewayFor, TGP!GatewayFor,
         TG!Child, TGP!Child
<1>. QED
  BY <1>1, <1>2, <1>3, <1>4, <1>6

\* A claimed ToolGateway that reports Ready has a Guard that says Ready, and the
\* adapter of that Guard as it exists now, unless one of the two controllers is
\* on its way to look again or a terminal status was swallowed: whatever users
\* do, however events of the two controllers are interleaved, whichever calls
\* fail and wherever the operator restarts.
THEOREM PolicyAlwaysBacked == ChainSpec => []PolicyBacked
<1>1. ChainInv => PolicyBacked
  <2>. SUFFICES ASSUME ChainInv, NEW k \in Gateways, TG!Claimed(k), ReportsReady(k), HasGuard(k),
                       ~GatewayUnderWay(k), NEW g, g = GuardOf(k)
                PROVE  /\ Get(guards, g) # None /\ SaysReady(g)
                       /\ \/ \A kind \in Kinds : AdapterHere(kind, g)
                          \/ GuardUnderWay(g) \/ g \in swallowed
    BY DEF PolicyBacked
  <2>1. TypeOK /\ ReadyHasAdapter /\ TGP!ReadyGuardOrDue
    BY DEF ChainInv, GuardInv, AdapterInv, GatewayInv, TGP!ReadyGuardInv
  <2>2. TGP!GuardReadyOrDue(k, tgs[k])
    BY <2>1, SameProperties DEF TGP!ReadyGuardOrDue, TGP!ReadyGuard, HasGuard, GatewayUnderWay
  <2>3. TGP!GuardReady(GuardView, g)
    BY <2>2, SameProperties DEF TGP!GuardReadyOrDue, GatewayUnderWay
  <2>4. g \in Guards /\ Get(guards, g) # None /\ SaysReady(g)
    BY <2>1, <2>3, ReadyInView
  <2>5. \/ \A kind \in Kinds : AdapterHere(kind, g)
        \/ GuardUnderWay(g) \/ g \in swallowed
    BY <2>1, <2>4 DEF ReadyHasAdapter, AdapterOrDue, GuardUnderWay
  <2>. QED
    BY <2>4, <2>5
<1>. QED
  BY <1>1, ChainInvariant, PTL

\* Once a claimed ToolGateway and its Guard have settled, the Guard's inputs are
\* usable, the adapter is the one they call for, and the ToolGateway is Ready
\* with the policy that names it.
THEOREM ChainAlwaysSettles == ChainSpec => []SettledChain
<1>1. ChainInv => SettledChain
  <2>. SUFFICES ASSUME ChainInv, NEW k \in Gateways, TG!Claimed(k), HasGuard(k), TG!Settled(k),
                       NEW g, g = GuardOf(k), Settled(g), g \notin swallowed
                PROVE  /\ Get(guards, g) # None
                       /\ Decision(guards[g], g, providers, image).reason = None
                       /\ Mirrored(g) /\ TG!Mirrored(k)
    BY DEF SettledChain
  <2>1. TypeOK /\ SettledMirrors /\ TGP!SettledMirrors
    BY MirrorSettles, Assumptions, TGP!MirrorSettles DEF ChainInv, GuardInv, GatewayInv
  <2>2. TG!Mirrored(k) /\ TGP!Mirrored(k)
    BY <2>1, SameProperties DEF TGP!SettledMirrors
  <2>3. TGP!GuardReady(GuardView, g)
    <3>1. tgs[k].spec.guardrails # <<>>
      BY DEF HasGuard
    <3>. QED
      BY <2>2, <3>1, SameProperties DEF TGP!Mirrored, TGP!GuardrailsMirrored
  <2>4. g \in Guards /\ Get(guards, g) # None /\ SaysReady(g)
    BY <2>1, <2>3, ReadyInView
  <2>5. Mirrored(g)
    BY <2>1, <2>4 DEF SettledMirrors, SaysReady
  <2>6. Decision(guards[g], g, providers, image).reason = None
    BY <2>4, <2>5 DEF Mirrored, SaysReady, Condition
  <2>. QED
    BY <2>2, <2>4, <2>5, <2>6
<1>. QED
  BY <1>1, ChainInvariant, PTL
=============================================================================
