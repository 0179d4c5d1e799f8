SPECIFICATION FairDisturbedSpec
CONSTANTS
  None = None
  Failed = Failed
  defaultToolGatewayNamespace = "tool-gateway"
  ControllerName = "runtime.agentic-layer.ai/tool-gateway-agentgateway-controller"
  RegexMeta <- MCRegexMeta
  Routes <- OneRoute
  Gateways <- TwoGateways
  Servers <- OneServer
  RouteSpecs <- LiveRouteSpecs
  ClassNames <- OurClass
  ServerSpecs <- MCServerSpecs
  Classes <- MCClasses
  MaxEdits = 1
  MaxFaults = 1
  MaxCrashes = 0
  MaxDisturbances = 2
PROPERTY
  Converges
CHECK_DEADLOCK FALSE
