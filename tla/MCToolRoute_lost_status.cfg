SPECIFICATION Spec
CONSTANTS
  None = None
  Failed = Failed
  defaultToolGatewayNamespace = "tool-gateway"
  ControllerName = "runtime.agentic-layer.ai/tool-gateway-agentgateway-controller"
  RegexMeta <- MCRegexMeta
  Routes <- OneRoute
  Gateways <- TwoGateways
  Servers <- OneServer
  RouteSpecs <- MCRouteSpecs
  ClassNames <- MCClassNames
  ServerSpecs <- MCServerSpecs
  Classes <- MCClasses
  MaxEdits = 0
  MaxFaults = 1
  MaxCrashes = 0
  MaxDisturbances = 1
INVARIANT
  MissingGatewaySurfaced
CHECK_DEADLOCK FALSE
