SPECIFICATION Spec
CONSTANTS
  MAX_STICKER = 10
  MAX_FILTER = 14
  TIMER = 1
  MaxFaces = 2
  FrameKinds <- AllFrames
  Faults <- NoFaults
INVARIANTS
  TypeOK
  FacesInBounds
  
  PreviewRestored
  DetectionFollowsFlag
  StickerServed
  EffectShown
CHECK_DEADLOCK FALSE
