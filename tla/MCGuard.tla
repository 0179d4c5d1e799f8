------------------------------ MODULE MCGuard ------------------------------
(***************************************************************************)
(* A small cluster for the Guard controller: one Guard, one provider.      *)
(***************************************************************************)
EXTENDS GuardReconciler

key(ns, name) == [ns |-> ns, name |-> name]

OneGuard    == {key("team", "pii")}
OneProvider == {key("team", "presidio")}

PreCall == [provider |-> key("", "presidio"), mode |-> <<"pre_call">>, presidio |-> None]
BadMode == [provider |-> key("", "presidio"), mode |-> <<"pre_call", "during_call">>,
            presidio |-> None]

MCGuardSpecs    == {PreCall, BadMode}
MCProviderSpecs == {[type |-> "presidio-api", baseUrl |-> "http://a"],
                    [type |-> "bedrock-api", baseUrl |-> ""]}
Configured      == {"adapter:1"}
Images          == {"adapter:1", "adapter:2", None}

\* Unusable specs come about by a change, another image or a missing flag by
\* a restart.
DisturbedInit == /\ Init
                 /\ image = "adapter:1"
                 /\ \A k \in Guards : guards[k] # None => guards[k].spec = PreCall
                 /\ \A p \in Providers : providers[p] # None => providers[p].type = "presidio-api"
DisturbedSpec == DisturbedInit /\ [][Next]_vars

-----------------------------------------------------------------------------
(***************************************************************************)
(* "The hash is used as a pod-template annotation so the Deployment rolls  *)
(* when the ConfigMap changes": the pods of a settled, Ready Guard run     *)
(* with the configuration that its ConfigMap holds.                        *)
(***************************************************************************)
RollsWithConfigMap ==
  \A k \in Guards :
    (guards[k] # None /\ Settled(k) /\ Mirrored(k) /\ adapters["configmap"][k] # None)
    => pods[k] \in {None, adapters["configmap"][k].data}

\* Two valid configurations, and users who only change the provider.
TwoEndpoints  == {[type |-> "presidio-api", baseUrl |-> u] : u \in {"http://a", "http://b"}}
EndpointsNext == \/ \E p \in Providers : SetProvider(p) /\ providers'[p] # None
                 \/ Informers \/ Cluster \/ Worker
EndpointsSpec == Init /\ [][EndpointsNext]_vars
=============================================================================
