SPECIFICATION Spec
CONSTANTS
  InkLow = 8
  InkHigh = 35
  NoCrop = NoCrop
  EmptyCrop = EmptyCrop
  NoReply = NoReply
  NoBook = NoBook
  TornBook = TornBook
  NoFile = NoFile
  Raw = Raw
  Photos = {1}
  Layouts <- OneLayout
  Faults = {"kill"}
  MaxRuns = 2
INVARIANT ExactRoll
CHECK_DEADLOCK FALSE
