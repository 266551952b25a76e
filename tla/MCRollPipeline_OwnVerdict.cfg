SPECIFICATION Spec
CONSTANTS
  InkLow = 8
  InkHigh = 35
  NoCrop = NoCrop
  EmptyCrop = EmptyCrop
  NoReply = NoReply
  NoBook = NoBook
  TornBook = TornBook
  NoFile = NoFile
  Raw = Raw
  Photos = {1}
  Layouts <- BlankRows
  Faults = {}
  MaxRuns = 1
INVARIANT OwnVerdict
CHECK_DEADLOCK FALSE
