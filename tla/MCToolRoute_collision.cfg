SPECIFICATION CollidingSpec
CONSTANTS
  None = None
  Failed = Failed
  defaultToolGatewayNamespace = "tool-gateway"
  ControllerName = "runtime.agentic-layer.ai/tool-gateway-agentgateway-controller"
  RegexMeta <- MCRegexMeta
  Routes <- CollidingRoutes
  Gateways <- CollidingGateways
  Servers <- NoServers
  RouteSpecs <- CollidingSpecs
  ClassNames <- OurClass
  ServerSpecs <- MCServerSpecs
  Classes <- MCClasses
  MaxEdits = 2
  MaxFaults = 1
  MaxCrashes = 0
  MaxDisturbances = 2
INVARIANTS
  SettledMirrors
  ChildLockInv
PROPERTIES
  ForeignChildrenUntouched
  ImplementsChildNames
CHECK_DEADLOCK FALSE
