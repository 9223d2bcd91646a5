SPECIFICATION FairSpec
CONSTANTS
  Targets <- MCTargets
  Programs <- MCPrograms
  Faults = {"crash", "noise", "oserror", "prepare", "disk"}
  PipeSize = 2
  MaxNoise = 1
INVARIANTS
  ReportFollowsStream ExitTellsFailure ReportsAreAllOrNothing
PROPERTY EndsUnlessChildStays
