SPECIFICATION Spec
CONSTANTS
  MaxFaces = 2
  Faults = {}
INVARIANTS
  FacesInBounds
CHECK_DEADLOCK FALSE
