SPECIFICATION FairSpec
CONSTANTS
  Length <- MCLength
  Empty = ""
  Pieces <- MCPieces
  Lines <- MCLines
  Hello = "hello"
  World = "world"
  NoResult = NoResult
  MaxLines = 3
  MaxStarts = 2
INVARIANTS
  EachLineOnce
  StreamMeetsBatch
  LongestKept
PROPERTIES
  TopicCounted
CHECK_DEADLOCK FALSE
