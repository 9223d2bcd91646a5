SPECIFICATION Spec
CONSTANTS
  Targets <- OneTarget
  Programs <- MCPrograms
  Faults = {"crash"}
  PipeSize = 2
  MaxNoise = 0
INVARIANT VerdictNeedsDone
