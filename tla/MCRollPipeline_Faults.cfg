SPECIFICATION Spec
CONSTANTS
  InkLow = 8
  InkHigh = 35
  NoCrop = NoCrop
  EmptyCrop = EmptyCrop
  NoReply = NoReply
  NoBook = NoBook
  TornBook = TornBook
  NoFile = NoFile
  Raw = Raw
  Photos = {1, 2}
  Layouts <- OneLayout
  Faults = {"kill", "image", "imwrite", "convert", "open", "remove"}
  MaxRuns = 2
INVARIANTS
  OriginalsKept
  GenerationBound
  SelfHealing
  CountedOnce
PROPERTY
  PromiseKept
CHECK_DEADLOCK FALSE
