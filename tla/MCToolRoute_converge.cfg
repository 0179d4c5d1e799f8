SPECIFICATION DisturbedSpec
CONSTANTS
  None = None
  Failed = Failed
  defaultToolGatewayNamespace = "tool-gateway"
  ControllerName = "runtime.agentic-layer.ai/tool-gateway-agentgateway-controller"
  RegexMeta <- MCRegexMeta
  Routes <- OneRoute
  Gateways <- TwoGateways
  Servers <- OneServer
  RouteSpecs <- MCRouteSpecs
  ClassNames <- MCClassNames
  ServerSpecs <- MCServerSpecs
  Classes <- MCClasses
  MaxEdits = 2
  MaxFaults = 1
  MaxCrashes = 1
  MaxDisturbances = 2
INVARIANTS
  TypeOK
  SettledMirrors
  FilterInForce
CHECK_DEADLOCK FALSE
