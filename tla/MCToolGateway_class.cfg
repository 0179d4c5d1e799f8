SPECIFICATION SpecInstallingClass
CONSTANTS
  None = None
  Failed = Failed
  defaultToolGatewayNamespace = "tool-gateway"
  ControllerName = "runtime.agentic-layer.ai/tool-gateway-agentgateway-controller"
  Gateways <- OneGateway
  Guards <- OneGuard
  Providers <- OneProvider
  GatewaySpecs <- MCGatewaySpecs
  GuardObjects <- MCGuardObjects
  ClassSets <- NoClassYet
  MaxEdits = 1
  MaxFaults = 0
  MaxCrashes = 0
  MaxDisturbances = 1
INVARIANT
  AgentgatewayClaimed
CHECK_DEADLOCK FALSE
