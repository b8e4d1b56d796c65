SPECIFICATION Spec
CONSTANTS
  MAX_STICKER = 4
  MAX_FILTER = 6
  TIMER = 1
  MaxFaces = 2
  FrameKinds <- AllFrames
  Faults <- StartFault
PROPERTIES
  InitReported
CHECK_DEADLOCK FALSE
