--------------------------- MODULE RouteResources ---------------------------
(***************************************************************************)
(* What the ToolRoute reconciler computes for one route: its upstream      *)
(* (resolveRouteUpstream), the name its children share and their contents  *)
(* (resources.go, toolroute_authz.go).                                     *)
(*                                                                         *)
(* A route's upstream is [toolServerRef, external]; either may be None.    *)
(* An external URL is [scheme, host, port, path] as url.Parse splits it    *)
(* (port None when absent), or Failed when url.Parse rejects it.  A        *)
(* ToolServer is [port, path].                                             *)
(***************************************************************************)
EXTENDS Integers, ClassOwnership, ToolFilter

toolServerHost(name, namespace) == name \o "." \o namespace \o ".svc.cluster.local"

\* The port a URL stands for: the scheme's default when it names none.
URLPort(u) == IF u.port # None THEN u.port
              ELSE IF u.scheme = "https" THEN 443 ELSE 80

\* The TCP ports.
Ports == 1..65535

\* Mutant: the range of the port is not checked.
ValidURLAnyPort(u) == /\ u # Failed
                      /\ u.scheme \in {"http", "https"}
                      /\ u.host # ""

ValidURL(u) == /\ u # Failed
               /\ u.scheme \in {"http", "https"}
               /\ u.host # ""
               /\ URLPort(u) \in Ports

toolServerUpstream(servers, key) ==
  LET ts == Get(servers, key)
  IN  IF ts = None
      THEN Failed
      ELSE [host |-> toolServerHost(key.name, key.ns),
            port |-> ts.port,
            path |-> IF ts.path = "" THEN "/mcp" ELSE ts.path]

externalUpstream(u) ==
  IF ~ValidURL(u)
  THEN Failed
  ELSE [host |-> u.host,
        port |-> URLPort(u),
        path |-> IF u.path = "" THEN "/" ELSE u.path]

\* The MCP target of a route in namespace ns, or Failed.
resolveRouteUpstream(servers, upstream, ns) ==
  IF upstream.toolServerRef # None
  THEN toolServerUpstream(servers, RefKey(upstream.toolServerRef, ns))
  ELSE IF upstream.external # None THEN externalUpstream(upstream.external)
                                   ELSE Failed

(***************************************************************************)
(* tg.Name + "-" + route.Name in the route's namespace: the key of the     *)
(* Backend and the HTTPRoute; the policy appends "-toolfilter", which      *)
(* keeps names apart or equal, so the same key identifies it.  Different   *)
(* pairs may well yield the same key ("a-b" + "c", "a" + "b-c").           *)
(***************************************************************************)
ChildKey(g, r) == [ns |-> r.ns, name |-> g.name \o "-" \o r.name]

RoutePath(r) == [ns |-> r.ns, name |-> r.name]      \* /<ns>/<name>/mcp

\* The owner reference SetControllerReference writes for a route it read.
ControllerRef(r, obj) == [key |-> r, uid |-> obj.uid]

BackendFor(r, obj, target) ==
  [owner |-> ControllerRef(r, obj), targets |-> target]

HTTPRouteFor(r, obj, g) ==
  [owner      |-> ControllerRef(r, obj),
   parentRefs |-> g,
   rules      |-> [backend |-> ChildKey(g, r), path |-> RoutePath(r)]]

\* The policy of a route with a filter; None when the filter has no rules.
PolicyFor(r, obj, g) ==
  LET rules == buildMcpAuthorizationRules(obj.spec.filter)
  IN  IF rules = <<>>
      THEN None
      ELSE [owner         |-> ControllerRef(r, obj),
            targetRefs    |-> ChildKey(g, r),
            authorization |-> rules]
=============================================================================
