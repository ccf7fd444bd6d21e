CONSTANTS
  Chunk <- MCChunk
  MaxUnits = 14
  MaxArea = 4
SPECIFICATION FairSpec
INVARIANTS
  TypeOK
  HeaderIsThere
  FramesNumbered
  OnlyLastIncomplete
  FramesInCanvas
  PayloadIsInOrder
PROPERTIES
  NextFrameFollows
  ParseEnds
CHECK_DEADLOCK FALSE
