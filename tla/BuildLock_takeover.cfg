SPECIFICATION Spec
CONSTANTS
  Procs = {p1, p2, p3}
  Limit = 1
  NoFile = NoFile
INVARIANTS ExclusiveUnlessOutlived NoLockLeftBehind
PROPERTY EveryoneEnds
