SPECIFICATION Spec
CONSTANTS
  Width = 8
  Height = 6
  Side = 4
  Reach = 4
INVARIANTS
  PixelsTypeOK
  CopyInPlanes
  DotNearPlane
  PlacedExactly
  PhotoColours
  RowsBounded
  OnLandmark
CHECK_DEADLOCK FALSE
