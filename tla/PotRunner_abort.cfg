SPECIFICATION Spec
CONSTANTS
  Cases <- MCCases
  Registries <- TwoCases
  Suites <- MCSuites
  Groups <- MCGroups
  Filters <- Everything
  Builds <- FullBuild
  UserCalls = {"abort", "protect"}
  MaxCalls = 2
  MaxRuns = 1
PROPERTY AbortStaysInCallback
