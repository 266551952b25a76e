SPECIFICATION SpecV1
CONSTANTS
  InkLow = 8
  InkHigh = 35
  NoCrop = NoCrop
  EmptyCrop = EmptyCrop
  NoReply = NoReply
  NoBook = NoBook
  TornBook = TornBook
  NoFile = NoFile
  Raw = Raw
  NoOne = NoOne
  Photos = {1}
  Layouts <- TwoColumns
  Faults = {}
  MaxRuns = 1
INVARIANT EveryTableJudged
CHECK_DEADLOCK FALSE
