SPECIFICATION Spec
CONSTANTS
  MAX_STICKER = 4
  MAX_FILTER = 6
  TIMER = 1
  MaxFaces = 2
  FrameKinds <- AllFrames
  Faults <- MostFaults
INVARIANTS
  PredictorLoaded
  DetectionNeverForgotten
  PreviewHasCallback
PROPERTIES
  SessionSafe
CHECK_DEADLOCK FALSE
