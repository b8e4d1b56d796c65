SPECIFICATION AppSpec
CONSTANTS
  MAX_STICKER = 4
  MAX_FILTER = 2
  TIMER = 0
  MaxFaces = 1
  FrameKinds <- OneFrame
  Faults <- CreateFault
  MaxQueue = 2
CHECK_DEADLOCK FALSE
INVARIANTS
  LayoutTypeOK
  MenuConsistent
  NoButtonStuck
  OneChangePerTouch
  StickerDrawn
  NoIdleDetection
PROPERTIES
  ShowSafe
