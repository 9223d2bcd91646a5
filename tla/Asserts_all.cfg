SPECIFICATION Spec
CONSTANTS
  NibbleBits = 1
  Values <- Boundaries
  Deltas <- FewDeltas
  Floats <- FewFloats
  Infinity = 100
  NaN = 200
  Memory <- Texts
  Lengths = {0, 1, 2, 3, 4}
INVARIANTS
  EqualityIsExact TextsDenoteValues WithinIsDistance BuffersCompareContents BitMasksAgree
CHECK_DEADLOCK FALSE
