--------------------------- MODULE MCToolGateway ---------------------------
(***************************************************************************)
(* A small cluster for the ToolGateway controller: one ToolGateway and one *)
(* Guard in a team namespace.                                              *)
(***************************************************************************)
EXTENDS ToolGatewayReconciler

key(ns, name) == [ns |-> ns, name |-> name]

OneGateway  == {key("team", "gw")}
OneGuard    == {key("team", "pii")}
OneProvider == {key("team", "presidio")}

OurClass     == [name |-> "agentgateway", controller |-> ControllerName, default |-> TRUE]
ForeignClass == [name |-> "other", controller |-> "other", default |-> TRUE]
MCClassSets  == {{OurClass, ForeignClass}}

Endpoint == [name |-> OtelName("", "ENDPOINT"), value |-> "http://otel", valueFrom |-> None]
Plain    == [name |-> "LOG_LEVEL", value |-> "debug", valueFrom |-> None]

Gw(class, guardrails, env) ==
  [class |-> class, guardrails |-> guardrails, env |-> env, envFrom |-> <<>>]

Traced    == Gw("", <<>>, <<Endpoint, Plain>>)
Guarded   == Gw("agentgateway", <<key("", "pii")>>, <<Plain>>)
TwoGuards == Gw("", <<key("", "pii"), key("team", "second")>>, <<>>)
Elsewhere == Gw("other", <<>>, <<>>)

MCGatewaySpecs == {Traced, Guarded, TwoGuards, Elsewhere}
MCGuardObjects == {[provider |-> key("", "presidio"), ready |-> r] : r \in {"True", "False", None}}
\* The run with two disturbances does without a Guard that has no condition yet.
ReportedGuards == {g \in MCGuardObjects : g.ready # None}

\* A gateway of another class, without guardrails or with two Guards comes
\* about by a change.
DisturbedInit == Init /\ \A k \in Gateways : tgs[k] # None => tgs[k].spec = Guarded
DisturbedSpec == DisturbedInit /\ [][Next]_vars

-----------------------------------------------------------------------------
(* What the documentation says and the code does not do.                   *)

\* The class is installed, or not yet.  The controller caches classes but
\* no event of theirs enqueues anything.
NoClassYet == {{}, {OurClass}}

InstallClass == /\ Edit
                /\ classes' = {OurClass}
                /\ UNCHANGED <<tgs, guards, params, gws, policies, caches, watches, queue, job,
                               faults, crashes>>

SyncClasses == /\ cClasses # classes
               /\ cClasses' = classes
               /\ UNCHANGED <<cluster, cTgs, cGuards, cGws, watches, queue, job,
                              edits, faults, crashes>>

SpecInstallingClass == Init /\ [][Next \/ InstallClass \/ SyncClasses]_vars

(***************************************************************************)
(* "A `ToolGateway` resource with `spec.toolGatewayClassName:              *)
(* agentgateway` is claimed and reconciled by this operator": once the     *)
(* class is known to the controller and everything is handled, such a      *)
(* ToolGateway has a Gateway.  One that came before the class has none.    *)
(***************************************************************************)
AgentgatewayClaimed ==
  \A k \in Gateways :
    (/\ tgs[k] # None /\ tgs[k].spec.class = "agentgateway"
     /\ OurClass \in cClasses /\ Settled(k))
    => gws[k] # None
=============================================================================
