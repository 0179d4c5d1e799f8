SPECIFICATION EndpointsSpec
CONSTANTS
  None = None
  Failed = Failed
  Guards <- OneGuard
  Providers <- OneProvider
  GuardSpecs <- MCGuardSpecs
  ProviderSpecs <- TwoEndpoints
  AdapterImages <- Configured
  MaxEdits = 2
  MaxFaults = 0
  MaxCrashes = 0
  MaxDisturbances = 2
INVARIANT
  RollsWithConfigMap
CHECK_DEADLOCK FALSE
