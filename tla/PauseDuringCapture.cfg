SPECIFICATION Spec
CONSTANTS
  MaxFaces = 2
  Faults = {}
INVARIANTS
  PauseStopsPreview
CHECK_DEADLOCK FALSE
