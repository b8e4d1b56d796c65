SPECIFICATION FairSpec
CONSTANTS
  MaxFaces = 2
  Faults = {"stop", "stopface", "facedetect", "unsetcb", "model"}
INVARIANTS
  ThreadsTypeOK
  PredictorLoaded
  PreviewHasCallback
  PreviewRestored
PROPERTIES
  RequestServed
CHECK_DEADLOCK FALSE
