SPECIFICATION RestSpec
CONSTANTS
  None = None
  Failed = Failed
  defaultToolGatewayNamespace = "tool-gateway"
  ControllerName = "runtime.agentic-layer.ai/tool-gateway-agentgateway-controller"
  Guards <- OneGuard
  Providers <- OneProvider
  GuardSpecs <- MCGuardSpecs
  ProviderSpecs <- MCProviderSpecs
  AdapterImages <- Configured
  Gateways <- OneGateway
  GatewaySpecs <- MCGatewaySpecs
  ClassSets <- MCClassSets
  MaxEdits = 1
  MaxFaults = 1
  MaxCrashes = 1
  MaxDisturbances = 1
INVARIANT
  PolicyBacked SettledChain
PROPERTY
  ChainConverges
CHECK_DEADLOCK FALSE
