SPECIFICATION Spec
CONSTANTS
  InkLow = 8
  InkHigh = 35
  NoCrop = NoCrop
  EmptyCrop = EmptyCrop
  NoReply = NoReply
  NoBook = NoBook
  TornBook = TornBook
  NoFile = NoFile
  Raw = Raw
  Photos = {1, 2}
  Layouts <- OtherLayouts
  Faults = {"kill", "image", "convert"}
  MaxRuns = 1
INVARIANTS
  TypeOK
  JudgedByDetector
  BookIsWhole
CHECK_DEADLOCK FALSE
