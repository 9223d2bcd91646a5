SPECIFICATION Spec
CONSTANTS
  Cases <- PairCases
  Runs <- PairRuns
  OnCrash = "continue"
  Codec = "text"
  Faults = {"crash", "io"}
  MaxFails = 1
  MaxNoise = 0
INVARIANTS
  TypeOK TallyMatchesLedger CrashesAreFailures NoCaseCountedTwice
  ExitTellsFailure ReportersAgree ReportIsOneRun
PROPERTY ImplementsLedger
