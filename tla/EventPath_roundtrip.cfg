SPECIFICATION Spec
CONSTANTS
  Full = 8
  BufSize = 22
  FrameSize = 27
  LeafSize = 5
  Word = 2
  LineSizes <- MCLineSizes
  Messages <- MCMessages
  Setups <- MCSetups
  MaxMsgs = 2
INVARIANTS
  FramesRoundTrip LongEventsOnlyGoMissing LinesRoundTrip
CHECK_DEADLOCK FALSE
