SPECIFICATION DisturbedSpec
CONSTANTS
  None = None
  Failed = Failed
  defaultToolGatewayNamespace = "tool-gateway"
  ControllerName = "runtime.agentic-layer.ai/tool-gateway-agentgateway-controller"
  Gateways <- OneGateway
  Guards <- OneGuard
  Providers <- OneProvider
  GatewaySpecs <- MCGatewaySpecs
  GuardObjects <- ReportedGuards
  ClassSets <- MCClassSets
  MaxEdits = 2
  MaxFaults = 1
  MaxCrashes = 1
  MaxDisturbances = 2
INVARIANTS
  TypeOK
  SettledMirrors
  ReadyNotUnsupported
  GuardrailInForce
CHECK_DEADLOCK FALSE
