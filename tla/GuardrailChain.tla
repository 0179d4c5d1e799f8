--------------------------- MODULE GuardrailChain ---------------------------
(***************************************************************************)
(* The Guard controller and the ToolGateway controller in one operator and *)
(* one cluster.  They never call each other: a GuardrailProvider event     *)
(* wakes both, a Guard event wakes both, and the Ready condition that the  *)
(* Guard controller writes decides whether the ToolGateway controller      *)
(* wires the guardrail policy.                                             *)
(*                                                                         *)
(* The variables of GuardReconciler are taken as they are.  The second     *)
(* controller is an instance of ToolGatewayReconciler that sees a Guard as *)
(* its provider reference and the status of its Ready condition.  Both use *)
(* the manager's one cache of Guards; each has its own watches, queue and  *)
(* worker.  A restart stops both.                                          *)
(***************************************************************************)
EXTENDS GuardReconciler

CONSTANTS Gateways, GatewaySpecs, ClassSets,
          defaultToolGatewayNamespace, ControllerName

VARIABLES
  tgs, classes, params, gws, policies,
  cTgs, cClasses, cGws,
  wTgs, wGws, wOthers,
  tgGuards, tgProviders,   \* Guards and providers whose events the ToolGateway
                           \* controller has not handled yet
  tgQueue, tgJob

gatewaySide == <<tgs, classes, params, gws, policies, cTgs, cClasses, cGws,
                 wTgs, wGws, wOthers, tgGuards, tgProviders, tgQueue, tgJob>>
guardSide   == <<cluster, caches, watches, image, queue, job, swallowed>>
chainVars   == <<vars, gatewaySide>>

\* What ensureGuardrails looks at in a Guard.
View(obj) == IF obj = None THEN None
             ELSE [provider |-> obj.spec.provider,
                   ready    |-> IF obj.status.cond = None THEN None ELSE obj.status.cond.status]

GuardView  == [g \in Guards |-> View(guards[g])]
cGuardView == [g \in Guards |-> View(cGuards[g])]
GuardViews == [provider : {s.provider : s \in GuardSpecs}, ready : {"True", "False", None}]

TG == INSTANCE ToolGatewayReconciler
        WITH guards <- GuardView, cGuards <- cGuardView, GuardObjects <- GuardViews,
             wGuards <- tgGuards, wProviders <- tgProviders,
             queue <- tgQueue, job <- tgJob

ASSUME GatewayAssumption ==
  /\ None \notin Gateways /\ None \notin GatewaySpecs /\ None \notin GuardViews /\ None # "True"
  /\ None \notin TG!TgObjects /\ None \notin TG!Conditions(TG!Abouts)
  /\ \A s \in GatewaySpecs : DOMAIN s.guardrails = 1..Len(s.guardrails)

-----------------------------------------------------------------------------
(* A step of the Guard controller, or of a user on its inputs: the Guards  *)
(* and providers it changes are events for the other controller too.       *)

GuardStep(A) ==
  /\ A
  /\ tgGuards'    = tgGuards \cup {g \in Guards : guards'[g] # guards[g]}
  /\ tgProviders' = tgProviders \cup {p \in Providers : providers'[p] # providers[p]}
  /\ UNCHANGED <<tgs, classes, params, gws, policies, cTgs, cClasses, cGws,
                 wTgs, wGws, wOthers, tgQueue, tgJob>>

\* A step of the ToolGateway controller, or of a user on its inputs.
GatewayStep(A) == UNCHANGED guardSide /\ A

\* The handler runs after the cache has the Guard, all of it.
GatewayHandlesGuard(g) == cGuards[g] = guards[g] /\ GatewayStep(TG!HandleGuard(g))

RestartOperator == Restart /\ TG!Restart

-----------------------------------------------------------------------------
ChainInit == Init /\ TG!Init

ChainUsers ==
  \/ GuardStep(Users)
  \/ \E k \in Gateways : \/ GatewayStep(TG!CreateGateway(k)) \/ GatewayStep(TG!EditGateway(k))
                         \/ GatewayStep(TG!DeleteGateway(k)) \/ GatewayStep(TG!Tamper(k))

\* The adapter's pods, which no controller looks at, are left out.
GuardController ==
  \/ GuardStep(Informers) \/ GuardStep(Worker)
  \/ \E g \in Guards, kind \in Kinds : GuardStep(Collect(kind, g))

GatewayController ==
  \/ \E k \in Gateways : \/ GatewayStep(TG!SyncGateway(k)) \/ GatewayStep(TG!HandleGateway(k))
                         \/ GatewayStep(TG!SyncGw(k))      \/ GatewayStep(TG!HandleChild(k))
                         \/ GatewayStep(TG!Collect(k))     \/ GatewayStep(TG!Begin(k))
  \/ \E g \in Guards : GatewayHandlesGuard(g)
  \/ \E p \in Providers : GatewayStep(TG!HandleProvider(p))
  \/ GatewayStep(TG!Proceed) \/ GatewayStep(TG!CallFails)

ChainNext == ChainUsers \/ GuardController \/ GatewayController \/ RestartOperator

(***************************************************************************)
(* Informers, handlers, garbage collector and both workers keep running;   *)
(* each workqueue is FIFO, so a key that stays queued is taken although    *)
(* others come back with retries.  One informer serves the one Guard cache.*)
(***************************************************************************)
ChainFairness ==
  /\ \A g \in Guards : /\ WF_chainVars(GuardStep(SyncGuard(g)))
                       /\ WF_chainVars(GuardStep(HandleGuard(g)))
                       /\ WF_chainVars(GatewayHandlesGuard(g))
                       /\ SF_chainVars(GuardStep(BeginNotFound(g) \/ Begin(g)))
                       /\ \A kind \in Kinds : /\ WF_chainVars(GuardStep(SyncAdapter(kind, g)))
                                              /\ WF_chainVars(GuardStep(HandleAdapter(kind, g)))
                                              /\ WF_chainVars(GuardStep(Collect(kind, g)))
  /\ \A p \in Providers : /\ WF_chainVars(GuardStep(SyncProvider(p)))
                          /\ WF_chainVars(GuardStep(HandleProvider(p)))
                          /\ WF_chainVars(GatewayStep(TG!HandleProvider(p)))
  /\ \A k \in Gateways : /\ WF_chainVars(GatewayStep(TG!SyncGateway(k)))
                         /\ WF_chainVars(GatewayStep(TG!HandleGateway(k)))
                         /\ WF_chainVars(GatewayStep(TG!SyncGw(k)))
                         /\ WF_chainVars(GatewayStep(TG!HandleChild(k)))
                         /\ WF_chainVars(GatewayStep(TG!Collect(k)))
                         /\ SF_chainVars(GatewayStep(TG!Begin(k)))
  /\ WF_chainVars(GuardStep(Proceed)) /\ WF_chainVars(GatewayStep(TG!Proceed))

ChainSpec == ChainInit /\ [][ChainNext]_chainVars /\ ChainFairness

-----------------------------------------------------------------------------
(* What is checked.                                                        *)

GuardOf(k) == RefKey(tgs[k].spec.guardrails[1], k.ns)
HasGuard(k) == Len(tgs[k].spec.guardrails) = 1

ReportsReady(k) == tgs[k] # None /\ tgs[k].status.conds.ready = TG!ReadyCond(tgs[k])

GuardUnderWay(g) == \/ g \in wGuards \cup queue \/ job.key = g
                    \/ \E kind \in Kinds : AdapterEvent(kind, g)

GatewayUnderWay(k) == \/ k \in tgQueue \/ tgJob.key = k
                      \/ k \in wTgs \/ GuardOf(k) \in tgGuards

(***************************************************************************)
(* A ToolGateway of ours that reports Ready sends its traffic through the  *)
(* adapter of a Guard.  Either its controller is on its way to look at the *)
(* Guard again, or the Guard is there and says Ready, and the Service that *)
(* the policy names, with the Deployment and the ConfigMap behind it,      *)
(* belongs to the Guard as it exists now or the Guard controller is on its *)
(* way to restore it.  No order in which the two controllers see the same  *)
(* events leaves neither of them responsible, apart from a terminal status *)
(* that was lost (swallowed).                                              *)
(***************************************************************************)
PolicyBacked ==
  \A k \in Gateways :
    (TG!Claimed(k) /\ ReportsReady(k) /\ HasGuard(k))
    => LET g == GuardOf(k)
       IN  \/ GatewayUnderWay(k)
           \/ /\ Get(guards, g) # None /\ SaysReady(g)
              /\ \/ \A kind \in Kinds : AdapterHere(kind, g)
                 \/ GuardUnderWay(g) \/ g \in swallowed

(***************************************************************************)
(* When a claimed ToolGateway and its Guard have both settled, the whole   *)
(* chain is that of the present inputs: the Guard's provider and the image *)
(* flag are usable, the adapter runs their configuration, the policy names *)
(* that adapter, and both objects say Ready.  A provider that went away,   *)
(* of which the ToolGateway controller hears only through the Guard, never *)
(* leaves the ToolGateway at rest.                                         *)
(***************************************************************************)
SettledChain ==
  \A k \in Gateways :
    (TG!Claimed(k) /\ HasGuard(k) /\ TG!Settled(k))
    => LET g == GuardOf(k)
       IN  (Settled(g) /\ g \notin swallowed)
           => /\ Get(guards, g) # None
              /\ Decision(guards[g], g, providers, image).reason = None
              /\ Mirrored(g) /\ TG!Mirrored(k)

\* What the Guard, its provider and the image flag call for, end to end.
ChainMirrored(k) ==
  LET g == GuardOf(k)
  IN  IF /\ Get(guards, g) # None
         /\ Decision(guards[g], g, providers, image).reason = None
      THEN Mirrored(g) /\ TG!Mirrored(k)
      ELSE TG!ReportsFailure(k)

(***************************************************************************)
(* When users and failures let go, a provider and a Guard that are valid   *)
(* end up, for good, as a running adapter and a Ready ToolGateway whose    *)
(* policy points to it; and if either is missing or invalid the            *)
(* ToolGateway says so, although it hears of the provider only through     *)
(* the Guard's status.                                                     *)
(***************************************************************************)
ChainConverges ==
  /\ Converges /\ TG!Converges
  /\ \A k \in Gateways :
       <>[]((TG!Claimed(k) /\ HasGuard(k) /\ GuardOf(k) \notin swallowed) => ChainMirrored(k))
=============================================================================
