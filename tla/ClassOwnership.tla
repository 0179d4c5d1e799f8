--------------------------- MODULE ClassOwnership ---------------------------
(***************************************************************************)
(* class_ownership.go: which ToolGateway a ToolRoute targets, and which    *)
(* ToolGateways this operator is responsible for.                          *)
(*                                                                         *)
(* A ToolGatewayClass is [name, controller, default]: default says whether *)
(* it carries the annotation is-default-class = "true".  A ToolGateway is  *)
(* represented by its spec.toolGatewayClassName ("" when unset).           *)
(***************************************************************************)
EXTENDS KubeClient

CONSTANTS
  defaultToolGatewayNamespace,   \* "tool-gateway"
  ControllerName                 \* ToolGatewayAgentgatewayControllerName

\* An explicit class name never falls back to the default class.
isToolGatewayOwnedByController(classList, className) ==
  LET owned == {c \in classList : c.controller = ControllerName}
  IN  IF className # "" THEN \E c \in owned : c.name = className
                        ELSE \E c \in owned : c.default

(***************************************************************************)
(* The keys resolveToolGatewayKey may return for a route in namespace ns   *)
(* with toolGatewayRef ref, given the ToolGateways in the cache.  Without  *)
(* a reference the first listed item wins, and a cached List is not        *)
(* ordered, so every ToolGateway of the default namespace is possible; the *)
(* empty set is errNoDefaultToolGateway.                                   *)
(***************************************************************************)
resolveToolGatewayKey(tgs, ref, ns) ==
  IF ref # None
  THEN {RefKey(ref, ns)}
  ELSE {g \in DOMAIN tgs : g.ns = defaultToolGatewayNamespace /\ tgs[g] # None}
=============================================================================
