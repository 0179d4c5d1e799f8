---------------------------- MODULE MCToolRoute ----------------------------
(***************************************************************************)
(* Small clusters for the ToolRoute controller: one team namespace, the    *)
(* default gateway namespace, one class of this operator and one foreign.  *)
(***************************************************************************)
EXTENDS ToolRouteReconciler

key(ns, name) == [ns |-> ns, name |-> name]

\* One route, a gateway of its own and one in the default namespace.
OneRoute    == {key("team", "r")}
TwoGateways == {key("tool-gateway", "g"), key("team", "h")}
OneServer   == {key("team", "s")}

MCRegexMeta  == {"\\", ".", "+", "*", "?", "(", ")", "|", "[", "]", "{", "}", "^", "$"}
MCClasses    == {[name |-> "agentgateway", controller |-> ControllerName, default |-> TRUE],
                 [name |-> "other", controller |-> "other", default |-> FALSE]}
MCClassNames  == {"", "other"}
MCServerSpecs == {[port |-> 8080, path |-> ""]}

ToServer == [toolServerRef |-> key("", "s"), external |-> None]
ToURL(u) == [toolServerRef |-> None, external |-> u]
Remote   == ToURL([scheme |-> "https", host |-> "mcp.example.com", port |-> None, path |-> ""])
BadPort  == ToURL([scheme |-> "https", host |-> "mcp.example.com", port |-> 65536, path |-> ""])

NoFilter   == None
DenyDelete == [allow |-> <<>>, deny |-> <<<<"d", "*">>>>]
AllowGet   == [allow |-> <<<<"g">>>>, deny |-> <<>>]

MCRouteSpecs == {[gw |-> None, upstream |-> Remote, filter |-> DenyDelete],
                 [gw |-> None, upstream |-> Remote, filter |-> AllowGet],
                 [gw |-> None, upstream |-> BadPort, filter |-> None],
                 [gw |-> key("", "h"), upstream |-> ToServer, filter |-> None]}

\* The cluster has all gateways, of our class, and all servers, or none; the
\* second filter and the malformed URL come about by a change.
DisturbedInit == /\ Init
                 /\ \A r \in Routes : routes[r] # None =>
                      routes[r].spec.filter # AllowGet /\ routes[r].spec.upstream # BadPort
                 /\ \/ /\ \A g \in Gateways : gateways[g] = ""
                       /\ \A s \in Servers : servers[s] # None
                    \/ /\ \A g \in Gateways : gateways[g] = None
                       /\ \A s \in Servers : servers[s] = None

DisturbedSpec     == DisturbedInit /\ [][Next]_vars
FairDisturbedSpec == DisturbedSpec /\ Fairness

\* "a" + "b-c" and "a-b" + "c": two routes of one namespace, one child name.
CollidingRoutes   == {key("team", "b-c"), key("team", "c")}
CollidingGateways == {key("team", "a"), key("team", "a-b")}
NoServers         == {}
CollidingSpecs    == {[gw |-> key("", "a"), upstream |-> Remote, filter |-> DenyDelete],
                      [gw |-> key("", "a-b"), upstream |-> Remote, filter |-> None]}
OurClass          == {""}

\* Both gateways exist, and both routes, each with the gateway that gives it
\* the common name; the filtered route's children may come first or second.
Colliding == /\ Init
             /\ \A g \in Gateways : gateways[g] # None
             /\ \A r \in Routes : /\ routes[r] # None
                                  /\ routes[r].spec.gw.name =
                                       (IF r.name = "c" THEN "a-b" ELSE "a")
\* Users only delete the filtered route here and create it as it was.
CollidingNext == \/ \E r \in {key("team", "b-c")} :
                      \/ DeleteRoute(r)
                      \/ CreateRoute(r) /\ routes'[r].spec.gw.name = "a"
                 \/ GarbageCollector \/ Informers \/ Worker
CollidingSpec == Colliding /\ [][CollidingNext]_vars

\* The liveness run leaves out the malformed URL, as a missing server already
\* makes an upstream unresolvable, and the second filter.
LiveRouteSpecs == {s \in MCRouteSpecs : s.upstream # BadPort /\ s.filter # AllowGet}

-----------------------------------------------------------------------------
(* What comments say and the code does not do.                             *)

(***************************************************************************)
(* "Reconcile keeps the AgentgatewayBackend, HTTPRoute, and (optionally)   *)
(* AgentgatewayPolicy for a ToolRoute in sync with the spec": a settled,   *)
(* Ready route is attached to the gateway its spec names and to no other.  *)
(* Nothing deletes the children under the name of the former gateway.      *)
(***************************************************************************)
OnlyCurrentGateway ==
  \A r \in Routes :
    (routes[r] # None /\ Settled(r) /\ routes[r].status.cond # None
       /\ routes[r].status.cond.status = "True")
    => \A n \in ChildKeys : (httproutes[n] # None /\ httproutes[n].owner.key = r)
                            => httproutes[n].parentRefs = routes[r].status.url

(***************************************************************************)
(* "Surface this clearly on the status so users know why the route isn't   *)
(* Ready": a settled route whose gateway does not exist says so.  The      *)
(* error of that status patch is logged, and Reconcile returns nil.        *)
(***************************************************************************)
MissingGatewaySurfaced ==
  \A r \in Routes :
    (/\ routes[r] # None /\ Settled(r) /\ routes[r].spec.gw # None
     /\ Get(gateways, RefKey(routes[r].spec.gw, r.ns)) = None)
    => /\ routes[r].status.cond # None
       /\ routes[r].status.cond.reason = reasonGatewayNotFound

\* Someone deletes a Backend or a tool filter's policy.
RemoveUnwatched(n) ==
  /\ Edit
  /\ \/ backends[n] # None /\ backends' = [backends EXCEPT ![n] = None] /\ UNCHANGED policies
     \/ policies[n] # None /\ policies' = [policies EXCEPT ![n] = None] /\ UNCHANGED backends
  /\ UNCHANGED <<routes, gateways, servers, httproutes, caches, watches, queue, job,
                 swallowed, faults, crashes>>

RemovingNext == (\E n \in ChildKeys : RemoveUnwatched(n)) \/ Informers \/ Worker
RemovingSpec == DisturbedInit /\ [][RemovingNext]_vars

(***************************************************************************)
(* "Reconcile keeps the AgentgatewayBackend, HTTPRoute, and (optionally)   *)
(* AgentgatewayPolicy for a ToolRoute in sync with the spec": a settled,   *)
(* Ready route has a Backend, and a policy if it has a filter.  Only the   *)
(* HTTPRoute is watched: nobody puts the other two back.                   *)
(***************************************************************************)
ChildrenKeptInSync ==
  \A r \in Routes :
    (routes[r] # None /\ Settled(r) /\ ReportsReady(routes[r]))
    => \E n \in ChildKeys : /\ httproutes[n] # None /\ httproutes[n].owner.key = r
                            /\ backends[n] # None
                            /\ routes[r].spec.filter # None => policies[n] # None
=============================================================================
