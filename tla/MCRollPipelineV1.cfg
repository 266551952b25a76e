SPECIFICATION SpecV1
CONSTANTS
  InkLow = 8
  InkHigh = 35
  NoCrop = NoCrop
  EmptyCrop = EmptyCrop
  NoReply = NoReply
  NoBook = NoBook
  TornBook = TornBook
  NoFile = NoFile
  Raw = Raw
  NoOne = NoOne
  Photos = {1}
  Layouts <- PageLayouts
  Faults = {"kill", "image", "imwrite", "convert", "open", "remove"}
  MaxRuns = 2
INVARIANTS
  TypeOKV1
  RightVoter
  NothingAskedWhenSkipped
CHECK_DEADLOCK FALSE
