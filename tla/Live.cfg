SPECIFICATION FairSpec
CONSTANTS
  MAX_STICKER = 4
  MAX_FILTER = 6
  TIMER = 1
  MaxFaces = 2
  FrameKinds <- AllFrames
  Faults <- NoFaults
PROPERTIES
  RequestServed
  StickersEnabled
  SessionLive
CHECK_DEADLOCK FALSE
