SPECIFICATION Spec
CONSTANTS
  Cases <- PlainCases
  Suites <- PlainSuites
  Groups <- PlainGroups
  Filters <- TagAndSuite
INVARIANT DiscoveryFollowsPriority
