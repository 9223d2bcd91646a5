SPECIFICATION Spec
CONSTANTS
  Cases <- MCCases
  Registries <- Interleaved
  Suites <- MCSuites
  Groups <- MCGroups
  Filters <- AllFilters
  Builds <- AllBuilds
  UserCalls = {"fail", "ignore", "abort", "protect", "param"}
  MaxCalls = 2
  MaxRuns = 2
INVARIANTS
  SortLosesNoCase SortIsStable VerdictMatchesStream EachSelectedCaseRuns
  FixturesBracketCases StrippedFeaturesStayOut OnlyUnfinishedRegionsLeak
PROPERTY ImplementsRunStream
