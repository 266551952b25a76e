SPECIFICATION Spec
CONSTANTS
  SomeCrops <- MCCrops
  InkLow = 8
  InkHigh = 35
  NoCrop = NoCrop
  EmptyCrop = EmptyCrop
  NoReply = NoReply
INVARIANTS
  ResultOK
  VisionOnlyBreaksTies
  MoreInkStaysSigned
CHECK_DEADLOCK FALSE
