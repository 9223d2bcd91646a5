SPECIFICATION Spec
CONSTANTS
  Cases <- PlainCases
  Suites <- PlainSuites
  Groups <- PlainGroups
  Filters <- SingleFilters
INVARIANTS ListsAreAcyclic IsolationRunsTheSameCases DeclarationsReachCases
