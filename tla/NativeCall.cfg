SPECIFICATION Spec
CONSTANTS
  Width = 3 Height = 1 FrameCount = 3
  Frames <- AllFrames
INVARIANTS TypeOK ReleasedOnReturn DataOutlivesDemuxer CanvasIsLastPicture
PROPERTIES AssemblesCanvas
CHECK_DEADLOCK FALSE
