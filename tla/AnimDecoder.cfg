SPECIFICATION Spec
CONSTANTS
  Width = 3 Height = 2 FrameCount = 3
  Frames <- TwoPaints
INVARIANTS TypeOK KeyFrameLeavesBlank
PROPERTIES AssemblesCanvas
CHECK_DEADLOCK FALSE
