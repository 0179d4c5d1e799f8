-------------------------- MODULE MCGuardrailChain --------------------------
(***************************************************************************)
(* One provider, one Guard and one ToolGateway that refers to it, at rest  *)
(* when the first disturbance comes.                                       *)
(***************************************************************************)
EXTENDS GuardrailChain

key(ns, name) == [ns |-> ns, name |-> name]

OneGateway  == {key("team", "gw")}
OneGuard    == {key("team", "pii")}
OneProvider == {key("team", "presidio")}

OurClass    == [name |-> "agentgateway", controller |-> ControllerName, default |-> TRUE]
MCClassSets == {{OurClass}}

PreCall == [provider |-> key("", "presidio"), mode |-> <<"pre_call">>, presidio |-> None]
BadMode == [provider |-> key("", "presidio"), mode |-> <<"pre_call", "during_call">>,
            presidio |-> None]
MCGuardSpecs    == {PreCall, BadMode}
MCProviderSpecs == {[type |-> "presidio-api", baseUrl |-> "http://a"],
                    [type |-> "presidio-api", baseUrl |-> "http://b"],
                    [type |-> "bedrock-api", baseUrl |-> ""]}
Configured      == {"adapter:1"}

Gw(class, guardrails) ==
  [class |-> class, guardrails |-> guardrails, env |-> <<>>, envFrom |-> <<>>]
Open      == Gw("", <<>>)
Guarded   == Gw("", <<key("", "pii")>>)
TwoGuards == Gw("", <<key("", "pii"), key("team", "second")>>)
Elsewhere == Gw("other", <<key("", "pii")>>)
MCGatewaySpecs == {Open, Guarded, TwoGuards, Elsewhere}

-----------------------------------------------------------------------------
(* A cluster at rest: every object there may or may not be, and each       *)
(* controller has done what it can about it.                               *)

RestGuard(k, spec) ==
  LET obj == NewGuard(0, spec)
      d   == Decision(obj, k, providers, image)
  IN  [obj EXCEPT !.status.cond =
         IF d.reason = None THEN Condition(obj, "True", guardReasonReconciled, None)
                            ELSE Condition(obj, "False", d.reason, d.message)]

RestAdapter(kind, k) ==
  IF guards[k] = None \/ guards[k].status.cond.status = "False" THEN None
  ELSE AdapterFor(kind, k, guards[k],
                  Decision(guards[k], k, providers, image).config, image)

RestGateway(k, spec) ==
  LET obj   == TG!NewGateway(0, spec)
      g     == RefKey(spec.guardrails[1], k.ns)
      ready == spec.guardrails = <<>> \/ TG!GuardReady(GuardView, g)
      cond  == IF ready THEN TG!ReadyCond(obj)
               ELSE IF guards[g] = None
               THEN TG!NotReadyCond(obj, TG!reasonGuardNotFound, [guard |-> g, ready |-> None])
               ELSE TG!NotReadyCond(obj, TG!reasonGuardNotReady, [guard |-> g, ready |-> "False"])
  IN  [obj EXCEPT !.status.conds.ready = cond, !.status.url = ready]

RestPolicy(k) ==
  IF tgs[k] = None \/ ~ReportsReady(k) \/ tgs[k].spec.guardrails = <<>> THEN None
  ELSE TG!PolicyFor(k, tgs[k], GuardOf(k))

\* The child of an object that exists.
IfAny(obj, child) == IF obj = None THEN None ELSE child

AtRest ==
  /\ image \in AdapterImages
  /\ providers \in [Providers -> {p \in ProviderSpecs : p.baseUrl # "http://b"} \cup {None}]
  /\ guards \in {[g \in Guards |-> IfAny(spec, RestGuard(g, spec))] :
                   spec \in GuardSpecs \cup {None}}
  /\ adapters = [kind \in Kinds |-> [g \in Guards |-> RestAdapter(kind, g)]]
  /\ pods = [g \in Guards |-> None]
  /\ cGuards = guards /\ cProviders = providers /\ cAdapters = adapters
  /\ wGuards = {} /\ wProviders = {} /\ wAdapters = {}
  /\ queue = {} /\ job = Idle /\ swallowed = {}
  /\ edits = 0 /\ faults = 0 /\ crashes = 0
  /\ tgs \in {[k \in Gateways |-> IfAny(spec, RestGateway(k, spec))] :
                spec \in {Open, Guarded, None}}
  /\ classes \in ClassSets
  /\ params   = [k \in Gateways |-> IfAny(tgs[k], TG!ParamsFor(k, tgs[k]))]
  /\ gws      = [k \in Gateways |-> IfAny(tgs[k], TG!GatewayFor(k, tgs[k]))]
  /\ policies = [k \in Gateways |-> RestPolicy(k)]
  /\ cTgs = tgs /\ cClasses = classes /\ cGws = gws
  /\ wTgs = {} /\ wGws = {} /\ wOthers = {} /\ tgGuards = {} /\ tgProviders = {}
  \* A ToolGateway whose Guard is not usable is retried for ever.
  /\ tgQueue = {k \in Gateways : tgs[k] # None /\ ~ReportsReady(k)}
  /\ tgJob = TG!Idle

(***************************************************************************)
(* All delays of the ToolGateway controller, and of the Guard controller   *)
(* while there is no ToolGateway.  Otherwise the Guard controller sees its *)
(* own children at once.                                                   *)
(***************************************************************************)
AdaptersSeen == \/ cAdapters = adapters /\ wAdapters = {}
                \/ \A k \in Gateways : tgs[k] = None /\ k \notin tgQueue /\ tgJob = TG!Idle

SeeAdapters == \E g \in Guards, kind \in Kinds : \/ GuardStep(SyncAdapter(kind, g))
                                                 \/ GuardStep(HandleAdapter(kind, g))

RestNext == SeeAdapters \/ (AdaptersSeen /\ ChainNext)

RestSpec == AtRest /\ [][RestNext]_chainVars /\ ChainFairness
=============================================================================
