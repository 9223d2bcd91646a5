SPECIFICATION FairSpec
CONSTANTS
  Cases <- OddCases
  Runs <- OddRuns
  OnCrash = "abort"
  Codec = "cobs"
  Faults = {"crash", "exit", "noise", "close", "read"}
  MaxFails = 0
  MaxNoise = 1
INVARIANTS
  PassesAreGenuine PolicyHonoured EveryVerdictCounts
PROPERTY EndsUnlessStreamEnded
