SPECIFICATION Spec
CONSTANTS
  Folders <- ThreeFolders
  MaxTime = 4
  Faults <- NameFault
INVARIANTS
  ListReported
