SPECIFICATION DisturbedSpec
CONSTANTS
  None = None
  Failed = Failed
  Guards <- OneGuard
  Providers <- OneProvider
  GuardSpecs <- MCGuardSpecs
  ProviderSpecs <- MCProviderSpecs
  AdapterImages <- Images
  MaxEdits = 2
  MaxFaults = 1
  MaxCrashes = 1
  MaxDisturbances = 2
INVARIANTS
  TypeOK
  SettledMirrors
  ReadyHasAdapter
CHECK_DEADLOCK FALSE
