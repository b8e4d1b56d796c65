SPECIFICATION Spec
CONSTANTS
  Folders <- ThreeFolders
  MaxTime = 4
  Faults <- SearchFaults
PROPERTIES
  OpensWhatItShows
INVARIANTS
  PhotosTypeOK
  BlankOnlyWithoutPhotos
